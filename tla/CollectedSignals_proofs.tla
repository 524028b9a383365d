---------------------- MODULE CollectedSignals_proofs -----------------------
(***************************************************************************)
(* What SignalPipeline computes, for any number of providers and whatever  *)
(* they return, and from it the properties of CollectedSignals.            *)
(*                                                                         *)
(* The argument: the signals accepted have the keys of the signals that    *)
(* match, each key once, whatever the order of the providers; the windows, *)
(* sources and summaries of the report are functions of those keys.        *)
(***************************************************************************)
EXTENDS CollectedSignals, FoldTheorems

Delayed(sig, d) == [sig EXCEPT !.ts = @ + d]

\* The signals that the providers may return, now or any time later.
Signals == {Delayed(sig, d) : sig \in UNION {ToSet(batch) : batch \in Batches}, d \in Nat}

\* The inductive invariant: the providers have returned sequences of signals,
\* and the query is a query.
CollectedOK ==
    /\ results \in [1..Providers -> Seq(Signals)]
    /\ query = [services |-> query.services, since |-> query.since, until |-> query.until]
    /\ query.since \in Int /\ query.until \in Int

\* A signal delayed is the same signal at another time.
LEMMA DelayedFields ==
    ASSUME NEW sig, IsSignal(sig), NEW d \in Nat
    PROVE  /\ IsSignal(Delayed(sig, d))
           /\ Delayed(sig, d).source = sig.source
           /\ Delayed(sig, d).service = sig.service
           /\ Delayed(sig, d).summary = sig.summary
           /\ Delayed(sig, d).severity = sig.severity
           /\ Delayed(sig, d).type = sig.type
           /\ Delayed(sig, d).ts = sig.ts + d
<1>1. Delayed(sig, d) = [source   |-> sig.source,   service |-> sig.service,
                        summary  |-> sig.summary,  type    |-> sig.type,
                        severity |-> sig.severity, ts      |-> sig.ts + d]
  BY DEF IsSignal, Delayed
<1> DEFINE t == Delayed(sig, d)
<1>2. /\ t.source = sig.source /\ t.service = sig.service /\ t.summary = sig.summary
      /\ t.severity = sig.severity /\ t.type = sig.type /\ t.ts = sig.ts + d
  BY <1>1
<1> HIDE DEF t
<1>3. t = [source   |-> t.source,   service |-> t.service,
           summary  |-> t.summary,  type    |-> t.type,
           severity |-> t.severity, ts      |-> t.ts]
  BY <1>1, <1>2 DEF t
<1>4. t.severity \in 0..3 /\ t.ts \in Nat
  BY <1>2 DEF IsSignal
<1> QED
  BY <1>2, <1>3, <1>4 DEF IsSignal, t

\* A signal that has not been delayed.
LEMMA NotDelayed ==
    ASSUME NEW sig, IsSignal(sig)
    PROVE  Delayed(sig, 0) = sig
  BY DEF Delayed, IsSignal

\* The fields of the signals.
LEMMA SignalFields ==
    ASSUME NEW sig \in Signals
    PROVE  IsSignal(sig) /\ sig.severity \in 0..3 /\ sig.ts \in Nat
<1>1. PICK s \in UNION {ToSet(batch) : batch \in Batches}, d \in Nat : sig = Delayed(s, d)
  BY DEF Signals
<1>2. IsSignal(s)
  BY SignalsAssumption DEF IsSignal
<1>3. IsSignal(sig)
  BY <1>1, <1>2, DelayedFields
<1> QED
  BY <1>3 DEF IsSignal

\* The providers only ever return signals.
LEMMA CollectedInductive ==
    /\ Init => CollectedOK
    /\ CollectedOK /\ [Next]_vars => CollectedOK'
<1>1. ASSUME Init PROVE CollectedOK
  <2>1. PICK raw \in RawQueries : query = [raw EXCEPT !.services = Normalize(@)]
    BY <1>1 DEF Init
  <2> DEFINE n == Normalize(raw.services)
  <2>2. query = [services |-> n, since |-> raw.since, until |-> raw.until]
    BY <2>1, QueriesAssumption
  <2> HIDE DEF n
  <2>3. query.since = raw.since /\ query.until = raw.until /\ query.services = n
    BY <2>2
  <2>4. <<>> \in Seq(Signals)
    OBVIOUS
  <2> QED
    BY <1>1, <2>2, <2>3, <2>4, QueriesAssumption DEF Init, CollectedOK
<1>2. ASSUME CollectedOK, NEW p \in 1..Providers, NEW batch \in Batches, Return(p, batch)
      PROVE  CollectedOK'
  <2>1. batch \in Seq(Signals)
    <3>1. \A s \in ToSet(batch) : s = Delayed(s, 0)
      BY SignalsAssumption, NotDelayed DEF IsSignal
    <3>2. ToSet(batch) \subseteq Signals
      BY <3>1 DEF Signals
    <3>3. batch \in Seq(ToSet(batch))
      BY SignalsAssumption
    <3> QED
      BY <3>2, <3>3
  <2>2. results[p] \o batch \in Seq(Signals)
    BY <1>2, <2>1 DEF CollectedOK
  <2> QED
    BY <1>2, <2>2 DEF CollectedOK, Return
<1>3. ASSUME CollectedOK, UNCHANGED vars PROVE CollectedOK'
  BY <1>3 DEF CollectedOK, vars
<1> QED
  BY <1>1, <1>2, <1>3 DEF Next

-----------------------------------------------------------------------------
(* Windows.                                                                *)

\* Two times in the same second are in the same group window.
LEMMA SameSecondSameWindow ==
    ASSUME NEW t \in Nat, NEW u \in Nat, t \div Second = u \div Second
    PROVE  WindowStart(t) = WindowStart(u)
<1> DEFINE m == Window \div Second
           d == t \div Second
           a == t \div Window
           x == t % Window
           y == t % Second
           z == u % Second
<1>1. /\ Second \in Nat \ {0} /\ Window \in Nat \ {0} /\ m \in Int
      /\ Window = Second * m
  BY TimeAssumption, Division
<1>2. /\ d \in Int /\ y \in 0..(Second - 1) /\ t = Second * d + y
      /\ z \in 0..(Second - 1) /\ u = Second * d + z
  <2>1. t \in Int /\ u \in Int /\ u \div Second = d
    OBVIOUS
  <2>2. /\ t \div Second \in Int /\ t % Second \in 0..(Second - 1)
        /\ t = Second * (t \div Second) + (t % Second)
    BY <1>1, <2>1, Division
  <2>3. u % Second \in 0..(Second - 1) /\ u = Second * (u \div Second) + (u % Second)
    BY <1>1, <2>1, Division
  <2> QED
    BY <2>1, <2>2, <2>3
<1>3. a \in Int /\ x \in 0..(Window - 1) /\ t = Window * a + x
  BY <1>1, Division
<1> HIDE DEF m, d, a, x, y, z
<1>4. /\ Window * a = Second * (m * a) /\ m * a \in Int
      /\ Window * a + Window = Second * (m * a + m) /\ m * a + m \in Int
  BY <1>1, <1>3
<1> DEFINE b == m * a
<1>5. Second * (d + 1) = Second * d + Second /\ Second * d \in Int
  BY <1>1, <1>2
<1>6. Second * b < Second * (d + 1)
  BY <1>1, <1>2, <1>3, <1>4, <1>5
<1>7. Second * d < Second * (b + m)
  BY <1>1, <1>2, <1>3, <1>4, <1>5
<1>8. b < d + 1 /\ d < b + m /\ b \in Int /\ b + m \in Int
  <2>1. b \in Int /\ b + m \in Int /\ d + 1 \in Int
    BY <1>1, <1>2, <1>4
  <2> HIDE DEF b
  <2> QED
    BY <1>1, <1>2, <1>6, <1>7, <2>1, ScaleOrder
<1>9. Second * b <= Second * d /\ Second * d + Second <= Second * (b + m)
  <2>1. PICK c \in Nat : d = b + c
    <3>1. d - b \in Nat /\ d = b + (d - b)
      BY <1>2, <1>8
    <3> QED
      BY <3>1
  <2>2. PICK k \in Nat : b + m = (d + 1) + k
    <3>1. (b + m) - (d + 1) \in Nat /\ b + m = (d + 1) + ((b + m) - (d + 1))
      BY <1>2, <1>8
    <3> QED
      BY <3>1
  <2> HIDE DEF b
  <2>3. Second * (b + c) = Second * b + Second * c /\ Second * c >= 0 /\ Second * b \in Int
        /\ Second * c \in Int
    BY <1>1, <1>8, <2>1
  <2>4. Second * ((d + 1) + k) = Second * (d + 1) + Second * k /\ Second * k >= 0
        /\ Second * (d + 1) \in Int /\ Second * k \in Int
    BY <1>1, <1>2, <2>2
  <2> QED
    BY <1>5, <2>1, <2>2, <2>3, <2>4
<1>10. Window * a <= u /\ u < Window * a + Window
  BY <1>1, <1>2, <1>3, <1>4, <1>5, <1>9
<1>11. Window * a <= t /\ t < Window * a + Window
  BY <1>1, <1>3
<1>12. u - (u % Window) = Window * a /\ t - (t % Window) = Window * a
  <2>1. Window \in Nat \ {0} /\ a \in Int /\ u \in Int /\ t \in Int
    BY <1>1, <1>3
  <2>2. u - (u % Window) = Window * a
    BY <1>10, <2>1, FloorUnique
  <2>3. t - (t % Window) = Window * a
    BY <1>11, <2>1, FloorUnique
  <2> QED
    BY <2>2, <2>3
<1> QED
  BY <1>12 DEF WindowStart

-----------------------------------------------------------------------------
(* The signals accepted.                                                   *)

\* The signals the providers returned that match the query.
Matching(ss, q) == {t \in ToSet(FlattenSeq(ss)) : Matches(q, t)}

Keys(ss, q) == {SignalFingerprint(t) : t \in Matching(ss, q)}

\* One signal is accepted for each key of a matching one, and no other.
LEMMA AcceptedKeys ==
    ASSUME NEW ss \in Seq(Seq(Signals)), NEW q
    PROVE  /\ Accepted(ss, q) \subseteq Signals
           /\ Accepted(ss, q) \subseteq Matching(ss, q)
           /\ IsFiniteSet(Accepted(ss, q))
           /\ {SignalFingerprint(s) : s \in Accepted(ss, q)} = Keys(ss, q)
           /\ \A s, t \in Accepted(ss, q) :
                  SignalFingerprint(s) = SignalFingerprint(t) => s = t
<1> DEFINE all == FlattenSeq(ss)
           Repeats(i) == \E j \in 1..(i - 1) :
               Matches(q, all[j]) /\ SignalFingerprint(all[j]) = SignalFingerprint(all[i])
           Kept == {k \in 1..Len(all) : Matches(q, all[k]) /\ ~Repeats(k)}
<1>1. all \in Seq(Signals)
  BY FlattenElements
<1>2. Len(all) \in Nat /\ DOMAIN all = 1..Len(all) /\ ToSet(all) = {all[k] : k \in 1..Len(all)}
  BY <1>1 DEF ToSet
<1>3. Accepted(ss, q) = {all[k] : k \in Kept}
  BY <1>2 DEF Accepted
<1> HIDE DEF all
<1>4. Accepted(ss, q) \subseteq Matching(ss, q) /\ Accepted(ss, q) \subseteq Signals
  <2>1. \A k \in 1..Len(all) : all[k] \in Signals
    BY <1>1, <1>2
  <2> QED
    BY <1>2, <1>3, <2>1 DEF Matching, all
<1>5. IsFiniteSet(Accepted(ss, q))
  <2>1. IsFiniteSet(1..Len(all))
    BY <1>2, FS_Interval
  <2>2. IsFiniteSet(Kept)
    <3>1. Kept \in SUBSET (1..Len(all))
      OBVIOUS
    <3> HIDE DEF Kept
    <3> QED
      BY <2>1, <3>1, FS_Subset
  <2> HIDE DEF Kept
  <2> QED
    BY <1>3, <2>2, ImageCardinality
<1>6. ASSUME NEW t \in Matching(ss, q)
      PROVE  \E s \in Accepted(ss, q) : SignalFingerprint(s) = SignalFingerprint(t)
  <2>1. PICK i \in 1..Len(all) : t = all[i] /\ Matches(q, all[i])
    BY <1>2, <1>6 DEF Matching, all
  <2> DEFINE T == {j \in 1..Len(all) :
                      Matches(q, all[j]) /\ SignalFingerprint(all[j]) = SignalFingerprint(t)}
  <2>2. PICK m \in T : \A j \in T : m <= j
    <3>1. T \in SUBSET Nat /\ T # {}
      BY <2>1
    <3> HIDE DEF T
    <3> QED
      BY <3>1, LeastNumber
  <2>3. ~Repeats(m)
    <3> SUFFICES ASSUME NEW j \in 1..(m - 1), Matches(q, all[j]),
                        SignalFingerprint(all[j]) = SignalFingerprint(all[m])
                 PROVE  FALSE
      OBVIOUS
    <3>1. j \in T /\ ~(m <= j)
      BY <1>2, <2>2
    <3> QED
      BY <2>2, <3>1
  <2> QED
    BY <1>3, <2>2, <2>3
<1>7. ASSUME NEW s \in Accepted(ss, q), NEW t \in Accepted(ss, q),
             SignalFingerprint(s) = SignalFingerprint(t)
      PROVE  s = t
  <2>1. PICK i \in Kept : s = all[i]
    BY <1>3
  <2>2. PICK j \in Kept : t = all[j]
    BY <1>3
  <2>3. CASE i < j
    <3>1. i \in 1..(j - 1)
      BY <1>2, <2>3
    <3> QED
      BY <1>7, <2>1, <2>2, <3>1
  <2>4. CASE j < i
    <3>1. j \in 1..(i - 1)
      BY <1>2, <2>4
    <3> QED
      BY <1>7, <2>1, <2>2, <3>1
  <2>5. CASE i = j
    BY <2>1, <2>2, <2>5
  <2> QED
    BY <1>2, <2>3, <2>4, <2>5
<1>8. {SignalFingerprint(s) : s \in Accepted(ss, q)} = Keys(ss, q)
  BY <1>4, <1>6 DEF Keys
<1> QED
  BY <1>4, <1>5, <1>7, <1>8

\* So the report counts keys.
LEMMA TotalIsKeys ==
    ASSUME NEW ss \in Seq(Seq(Signals)), NEW q
    PROVE  /\ IsFiniteSet(Keys(ss, q))
           /\ Report(ss, q).total = Cardinality(Keys(ss, q))
<1> DEFINE A == Accepted(ss, q)
           f == [s \in A |-> SignalFingerprint(s)]
<1>1. /\ IsFiniteSet(A) /\ {f[s] : s \in A} = Keys(ss, q)
      /\ \A s, t \in A : f[s] = f[t] => s = t
  BY AcceptedKeys
<1>2. Report(ss, q).total = Cardinality(A)
  BY DEF Report
<1> HIDE DEF A, f
<1>3. IsFiniteSet({f[s] : s \in A})
  BY <1>1, ImageCardinality
<1>4. Cardinality({f[s] : s \in A}) = Cardinality(A)
  BY <1>1, InjectiveImage
<1> QED
  BY <1>1, <1>2, <1>3, <1>4

-----------------------------------------------------------------------------
(* Entries: what deduplicateSignals makes of the signals of a group.       *)

SummaryOf(sig) == <<sig.source, sig.service, sig.summary>>

Alike(A, s) == {t \in A : DedupKey(t) = DedupKey(s)}

Earliest(A) == CHOOSE s \in A : \A t \in A : s.ts <= t.ts

Entry(A, s) == [signal |-> Earliest(Alike(A, s)), count |-> Cardinality(Alike(A, s))]

\* Signals that are not none have an earliest among them.
LEMMA EarliestIn ==
    ASSUME NEW A \in SUBSET Signals, IsFiniteSet(A), A # {}
    PROVE  Earliest(A) \in A /\ \A t \in A : Earliest(A).ts <= t.ts
<1> DEFINE f == [s \in A |-> s.ts]
<1>1. \A s \in A : f[s] \in Int
  BY SignalFields
<1>2. \E s \in A : \A t \in A : f[s] <= f[t]
  <2> HIDE DEF f
  <2> QED
    BY <1>1, LeastValue
<1>3. \E s \in A : \A t \in A : s.ts <= t.ts
  BY <1>2
<1> QED
  BY <1>3 DEF Earliest

\* An entry stands for the signals alike, and shows one of them.
LEMMA EntrySignal ==
    ASSUME NEW A \in SUBSET Signals, IsFiniteSet(A), NEW s \in A
    PROVE  /\ Entry(A, s) \in Deduplicate(A)
           /\ Entry(A, s).signal \in A
           /\ DedupKey(Entry(A, s).signal) = DedupKey(s)
           /\ Alike(A, Entry(A, s).signal) = Alike(A, s)
           /\ Entry(A, s).count = Cardinality(Alike(A, s))
           /\ SummaryKey(Entry(A, s)) = SummaryOf(s)
<1>1. Alike(A, s) \in SUBSET Signals /\ s \in Alike(A, s) /\ IsFiniteSet(Alike(A, s))
  <2>1. Alike(A, s) \in SUBSET A
    BY DEF Alike
  <2> QED
    BY <2>1, FS_Subset DEF Alike
<1>2. Entry(A, s).signal \in Alike(A, s)
  <2>1. Alike(A, s) # {}
    BY <1>1
  <2> QED
    BY <1>1, <2>1, EarliestIn DEF Entry
<1>3. Entry(A, s) \in Deduplicate(A)
  BY DEF Deduplicate, Entry, Alike, Earliest
<1>4. DedupKey(Entry(A, s).signal) = DedupKey(s) /\ Entry(A, s).signal \in A
  BY <1>2 DEF Alike
<1>5. Alike(A, Entry(A, s).signal) = Alike(A, s)
  BY <1>4 DEF Alike
<1>6. SummaryKey(Entry(A, s)) = SummaryOf(s)
  BY <1>4 DEF SummaryKey, SummaryOf, DedupKey
<1>7. Entry(A, s).count = Cardinality(Alike(A, s))
  BY DEF Entry
<1> QED
  BY <1>3, <1>4, <1>5, <1>6, <1>7

\* There are no other entries, and signals alike have one entry.
LEMMA EntriesOnly ==
    ASSUME NEW A \in SUBSET Signals, IsFiniteSet(A)
    PROVE  /\ Deduplicate(A) = {Entry(A, s) : s \in A}
           /\ IsFiniteSet(Deduplicate(A))
           /\ Cardinality(Deduplicate(A)) <= Cardinality(A)
           /\ \A s, t \in A : DedupKey(s) = DedupKey(t) => Entry(A, s) = Entry(A, t)
<1>1. Deduplicate(A) = {Entry(A, s) : s \in A}
  BY DEF Deduplicate, Entry, Alike, Earliest
<1>2. \A s, t \in A : DedupKey(s) = DedupKey(t) => Entry(A, s) = Entry(A, t)
  BY DEF Entry, Alike
<1> DEFINE f == [s \in A |-> Entry(A, s)]
<1>3. Deduplicate(A) = {f[s] : s \in A}
  BY <1>1
<1> HIDE DEF f
<1>4. IsFiniteSet(Deduplicate(A)) /\ Cardinality(Deduplicate(A)) <= Cardinality(A)
  BY <1>3, ImageCardinality
<1> QED
  BY <1>1, <1>2, <1>4

-----------------------------------------------------------------------------
(* Groups: what buildSignalGroups makes of the signals accepted.           *)

Starts(A) == {WindowStart(s.ts) : s \in A}

Part(A, w) == {s \in A : WindowStart(s.ts) = w}

GroupOf(A, w) == Group(w, Part(A, w))

\* A part of the signals is a finite set of signals.
LEMMA PartType ==
    ASSUME NEW A \in SUBSET Signals, IsFiniteSet(A), NEW w
    PROVE  Part(A, w) \in SUBSET Signals /\ IsFiniteSet(Part(A, w)) /\ Part(A, w) \subseteq A
<1>1. Part(A, w) \in SUBSET A
  BY DEF Part
<1> QED
  BY <1>1, FS_Subset

\* The groups are one for each window that has a signal.
LEMMA GroupsOnly ==
    ASSUME NEW A \in SUBSET Signals, IsFiniteSet(A)
    PROVE  /\ BuildGroups(A) = {GroupOf(A, w) : w \in Starts(A)}
           /\ IsFiniteSet(Starts(A)) /\ IsFiniteSet(BuildGroups(A))
           /\ \A w : /\ GroupOf(A, w).start = w
                     /\ GroupOf(A, w).sources = Sources(Part(A, w))
                     /\ GroupOf(A, w).entries = Deduplicate(Part(A, w))
                     /\ GroupOf(A, w).severity = Max({s.severity : s \in Part(A, w)})
<1>1. BuildGroups(A) = {GroupOf(A, w) : w \in Starts(A)}
  BY DEF BuildGroups, GroupOf, Part, Starts
<1>2. IsFiniteSet(Starts(A))
  <2> DEFINE f == [s \in A |-> WindowStart(s.ts)]
  <2>1. Starts(A) = {f[s] : s \in A}
    BY DEF Starts
  <2> HIDE DEF f
  <2> QED
    BY <2>1, ImageCardinality
<1>3. IsFiniteSet(BuildGroups(A))
  <2> DEFINE f == [w \in Starts(A) |-> GroupOf(A, w)]
  <2>1. BuildGroups(A) = {f[w] : w \in Starts(A)}
    BY <1>1
  <2> HIDE DEF f
  <2> QED
    BY <1>2, <2>1, ImageCardinality
<1>4. ASSUME NEW w
      PROVE  /\ GroupOf(A, w).start = w
             /\ GroupOf(A, w).sources = Sources(Part(A, w))
             /\ GroupOf(A, w).entries = Deduplicate(Part(A, w))
             /\ GroupOf(A, w).severity = Max({s.severity : s \in Part(A, w)})
  BY DEF GroupOf, Group
<1> QED
  BY <1>1, <1>2, <1>3, <1>4

\* What the groups, their sources and their entries tell of the signals.
LEMMA GroupsCover ==
    ASSUME NEW A \in SUBSET Signals, IsFiniteSet(A)
    PROVE  /\ {g.start : g \in BuildGroups(A)} = Starts(A)
           /\ UNION {g.sources : g \in BuildGroups(A)} = Sources(A)
           /\ UNION {{SummaryKey(e) : e \in g.entries} : g \in BuildGroups(A)}
                  = {SummaryOf(s) : s \in A}
<1>0. /\ BuildGroups(A) = {GroupOf(A, w) : w \in Starts(A)}
      /\ \A w : /\ GroupOf(A, w).start = w
                /\ GroupOf(A, w).sources = Sources(Part(A, w))
                /\ GroupOf(A, w).entries = Deduplicate(Part(A, w))
  BY GroupsOnly
<1>1. {g.start : g \in BuildGroups(A)} = Starts(A)
  BY <1>0
<1>2. \A s \in A : WindowStart(s.ts) \in Starts(A) /\ s \in Part(A, WindowStart(s.ts))
  BY DEF Starts, Part
<1>3. UNION {g.sources : g \in BuildGroups(A)} = Sources(A)
  <2>1. ASSUME NEW w PROVE Sources(Part(A, w)) \subseteq Sources(A)
    BY DEF Sources, Part
  <2>2. ASSUME NEW s \in A, s.source # NoText
        PROVE  s.source \in Sources(Part(A, WindowStart(s.ts)))
    BY <1>2, <2>2 DEF Sources
  <2>3. \A s \in A : s.source # NoText => \E g \in BuildGroups(A) : s.source \in g.sources
    BY <1>0, <1>2, <2>2
  <2>4. \A g \in BuildGroups(A) : g.sources \subseteq Sources(A)
    BY <1>0, <2>1
  <2>5. ASSUME NEW x \in Sources(A) PROVE \E g \in BuildGroups(A) : x \in g.sources
    BY <2>3, <2>5 DEF Sources
  <2> QED
    BY <2>4, <2>5
<1>4. ASSUME NEW g \in BuildGroups(A), NEW e \in g.entries
      PROVE  SummaryKey(e) \in {SummaryOf(s) : s \in A}
  <2>1. PICK w \in Starts(A) : g = GroupOf(A, w)
    BY <1>0
  <2>2. e \in Deduplicate(Part(A, w))
    BY <1>0, <2>1
  <2>3. PICK s \in Part(A, w) : e = Entry(Part(A, w), s)
    BY <2>2, PartType, EntriesOnly
  <2>4. SummaryKey(e) = SummaryOf(s) /\ s \in A
    BY <2>3, PartType, EntrySignal
  <2> QED
    BY <2>4
<1>5. ASSUME NEW s \in A
      PROVE  \E g \in BuildGroups(A) : \E e \in g.entries : SummaryKey(e) = SummaryOf(s)
  <2> DEFINE w == WindowStart(s.ts)
  <2>1. s \in Part(A, w) /\ GroupOf(A, w) \in BuildGroups(A)
    BY <1>0, <1>2
  <2>2. /\ Entry(Part(A, w), s) \in GroupOf(A, w).entries
        /\ SummaryKey(Entry(Part(A, w), s)) = SummaryOf(s)
    <3> HIDE DEF w
    <3>1. Part(A, w) \in SUBSET Signals /\ IsFiniteSet(Part(A, w))
      BY PartType
    <3> QED
      BY <1>0, <2>1, <3>1, EntrySignal
  <2> QED
    BY <2>1, <2>2
<1>6. UNION {{SummaryKey(e) : e \in g.entries} : g \in BuildGroups(A)}
          = {SummaryOf(s) : s \in A}
  BY <1>4, <1>5
<1> QED
  BY <1>1, <1>3, <1>6

\* The sources, windows and summaries of a report are functions of the keys.
LEMMA ReportOfKeys ==
    ASSUME NEW ss \in Seq(Seq(Signals)), NEW q,
           NEW tt \in Seq(Seq(Signals)), Keys(tt, q) \subseteq Keys(ss, q)
    PROVE  /\ Report(tt, q).total <= Report(ss, q).total
           /\ Report(tt, q).sources \subseteq Report(ss, q).sources
           /\ WindowsOf(Report(tt, q)) \subseteq WindowsOf(Report(ss, q))
           /\ SummaryKeys(Report(tt, q)) \subseteq SummaryKeys(Report(ss, q))
<1> DEFINE A == Accepted(ss, q)
           B == Accepted(tt, q)
<1>1. A \in SUBSET Signals /\ IsFiniteSet(A) /\ B \in SUBSET Signals /\ IsFiniteSet(B)
  BY AcceptedKeys
<1>2. \A t \in B : \E s \in A : SignalFingerprint(t) = SignalFingerprint(s)
  <2>1. /\ {SignalFingerprint(s) : s \in A} = Keys(ss, q)
        /\ {SignalFingerprint(t) : t \in B} = Keys(tt, q)
    BY AcceptedKeys
  <2> HIDE DEF A, B
  <2> SUFFICES ASSUME NEW t \in B
               PROVE  \E s \in A : SignalFingerprint(t) = SignalFingerprint(s)
    OBVIOUS
  <2>2. SignalFingerprint(t) \in {SignalFingerprint(s) : s \in A}
    BY <2>1
  <2> QED
    BY <2>2
<1>3. /\ Report(ss, q).sources = Sources(A) /\ Report(tt, q).sources = Sources(B)
      /\ WindowsOf(Report(ss, q)) = Starts(A) /\ WindowsOf(Report(tt, q)) = Starts(B)
      /\ SummaryKeys(Report(ss, q)) = {SummaryOf(s) : s \in A}
      /\ SummaryKeys(Report(tt, q)) = {SummaryOf(s) : s \in B}
  <2>1. /\ Report(ss, q).sources = Sources(A) /\ Report(ss, q).groups = BuildGroups(A)
        /\ Report(tt, q).sources = Sources(B) /\ Report(tt, q).groups = BuildGroups(B)
    BY DEF Report
  <2> HIDE DEF A, B
  <2> QED
    BY <1>1, <2>1, GroupsCover DEF WindowsOf, SummaryKeys
<1>4. Report(tt, q).total <= Report(ss, q).total
  BY TotalIsKeys, FS_Subset
<1> HIDE DEF A, B
<1>5. ASSUME NEW t \in B
      PROVE  /\ t.source # NoText => t.source \in Sources(A)
             /\ WindowStart(t.ts) \in Starts(A)
             /\ SummaryOf(t) \in {SummaryOf(s) : s \in A}
  <2>1. PICK s \in A : SignalFingerprint(t) = SignalFingerprint(s)
    BY <1>2
  <2>2. /\ t.source = s.source /\ SummaryOf(t) = SummaryOf(s)
        /\ t.ts \div Second = s.ts \div Second
    BY <2>1 DEF SignalFingerprint, SummaryOf
  <2>3. t.ts \in Nat /\ s.ts \in Nat
    BY <1>1, SignalFields
  <2>4. WindowStart(t.ts) = WindowStart(s.ts)
    BY <2>2, <2>3, SameSecondSameWindow
  <2> QED
    BY <2>2, <2>4 DEF Sources, Starts
<1>6. /\ Sources(B) \subseteq Sources(A) /\ Starts(B) \subseteq Starts(A)
      /\ {SummaryOf(s) : s \in B} \subseteq {SummaryOf(s) : s \in A}
  BY <1>5 DEF Sources, Starts
<1> QED
  BY <1>3, <1>4, <1>6

-----------------------------------------------------------------------------
(* The counts.                                                             *)

\* Every signal of a group is counted in one of its entries.
LEMMA EntriesAddUp ==
    ASSUME NEW A \in SUBSET Signals, IsFiniteSet(A)
    PROVE  SumFunction([e \in Deduplicate(A) |-> e.count]) = Cardinality(A)
<1> DEFINE E == Deduplicate(A)
           part == [e \in E |-> Alike(A, e.signal)]
           f == [e \in E |-> e.count]
<1>1. /\ E = {Entry(A, s) : s \in A} /\ IsFiniteSet(E)
      /\ \A s, t \in A : DedupKey(s) = DedupKey(t) => Entry(A, s) = Entry(A, t)
  BY EntriesOnly
<1>2. ASSUME NEW e \in E
      PROVE  /\ part[e] \subseteq A
             /\ f[e] = Cardinality(part[e])
             /\ \A t \in part[e] : Entry(A, t) = e
  <2>1. PICK s \in A : e = Entry(A, s)
    BY <1>1
  <2>2. Alike(A, e.signal) = Alike(A, s) /\ e.count = Cardinality(Alike(A, s))
    BY <2>1, EntrySignal
  <2>3. \A t \in Alike(A, s) : t \in A /\ Entry(A, t) = Entry(A, s)
    BY <1>1 DEF Alike
  <2> QED
    BY <2>1, <2>2, <2>3
<1>3. \A d, e \in E : d # e => part[d] \cap part[e] = {}
  BY <1>2
<1>4. UNION {part[e] : e \in E} = A
  <2>1. ASSUME NEW s \in A PROVE s \in UNION {part[e] : e \in E}
    <3>1. Entry(A, s) \in E /\ Alike(A, Entry(A, s).signal) = Alike(A, s) /\ s \in Alike(A, s)
      BY EntrySignal DEF Alike
    <3> QED
      BY <3>1
  <2> QED
    BY <1>2, <2>1
<1>5. SumFunction(f) = SumFunctionOnSet(f, E)
  BY DEF SumFunction
<1> HIDE DEF E, part, f
<1>6. SumFunctionOnSet(f, E) = Cardinality(UNION {part[e] : e \in E})
  BY <1>1, <1>2, <1>3, SumOfParts
<1> QED
  BY <1>4, <1>5, <1>6 DEF f, E

\* And every signal accepted in one of the groups.
LEMMA GroupsAddUp ==
    ASSUME NEW A \in SUBSET Signals, IsFiniteSet(A)
    PROVE  SumFunction([g \in BuildGroups(A) |-> SumFunction([e \in g.entries |-> e.count])])
               = Cardinality(A)
<1> DEFINE G == BuildGroups(A)
           part == [g \in G |-> Part(A, g.start)]
           f == [g \in G |-> SumFunction([e \in g.entries |-> e.count])]
<1>1. /\ G = {GroupOf(A, w) : w \in Starts(A)} /\ IsFiniteSet(G)
      /\ \A w : GroupOf(A, w).start = w /\ GroupOf(A, w).entries = Deduplicate(Part(A, w))
  BY GroupsOnly
<1>2. ASSUME NEW g \in G
      PROVE  part[g] \subseteq A /\ f[g] = Cardinality(part[g]) /\ g = GroupOf(A, g.start)
  <2>1. g = GroupOf(A, g.start) /\ g.entries = Deduplicate(Part(A, g.start))
    BY <1>1
  <2>2. SumFunction([e \in Deduplicate(Part(A, g.start)) |-> e.count])
            = Cardinality(Part(A, g.start))
    BY PartType, EntriesAddUp
  <2> QED
    BY <2>1, <2>2, PartType
<1>3. \A g, h \in G : g # h => part[g] \cap part[h] = {}
  <2>1. \A g, h \in G : g # h => g.start # h.start
    BY <1>2
  <2> QED
    BY <2>1 DEF Part
<1>4. UNION {part[g] : g \in G} = A
  <2>1. ASSUME NEW s \in A PROVE s \in UNION {part[g] : g \in G}
    <3> DEFINE w == WindowStart(s.ts)
    <3>1. GroupOf(A, w) \in G /\ GroupOf(A, w).start = w /\ s \in Part(A, w)
      BY <1>1 DEF Starts, Part
    <3> QED
      BY <3>1
  <2> QED
    BY <1>2, <2>1
<1>5. SumFunction(f) = SumFunctionOnSet(f, G)
  BY DEF SumFunction
<1> HIDE DEF G, part, f
<1>6. SumFunctionOnSet(f, G) = Cardinality(UNION {part[g] : g \in G})
  BY <1>1, <1>2, <1>3, SumOfParts
<1> QED
  BY <1>4, <1>5, <1>6 DEF f, G

-----------------------------------------------------------------------------
(* The properties of the collected signals.                                *)

\* The results are a sequence, one result for each provider.
LEMMA ResultsSequence ==
    ASSUME NEW ss \in [1..Providers -> Seq(Signals)]
    PROVE  ss \in Seq(Seq(Signals)) /\ Len(ss) = Providers
  BY ProvidersAssumption

\* Results with less in them have fewer keys.
LEMMA KeysGrow ==
    ASSUME NEW ss \in Seq(Seq(Signals)), NEW tt \in Seq(Seq(Signals)), NEW q,
           \A i \in 1..Len(tt) : \E j \in 1..Len(ss) : ToSet(tt[i]) \subseteq ToSet(ss[j])
    PROVE  Keys(tt, q) \subseteq Keys(ss, q)
<1>1. /\ ToSet(FlattenSeq(ss)) = UNION {ToSet(ss[i]) : i \in 1..Len(ss)}
      /\ ToSet(FlattenSeq(tt)) = UNION {ToSet(tt[i]) : i \in 1..Len(tt)}
  BY FlattenElements
<1>2. ToSet(FlattenSeq(tt)) \subseteq ToSet(FlattenSeq(ss))
  BY <1>1
<1> QED
  BY <1>2 DEF Keys, Matching

\* The report counts every distinct signal in the window once, in one entry of
\* one group, and its sources are those of its groups.
THEOREM EverySignalCountedOnce == Spec => []NothingLostOrCountedTwice
<1>1. ASSUME CollectedOK PROVE NothingLostOrCountedTwice
  <2> DEFINE A == Accepted(results, query)
  <2>1. results \in Seq(Seq(Signals))
    BY <1>1, ResultsSequence DEF CollectedOK
  <2>2. A \in SUBSET Signals /\ IsFiniteSet(A)
    BY <2>1, AcceptedKeys
  <2>3. /\ report.groups = BuildGroups(A) /\ report.total = Cardinality(A)
        /\ report.sources = Sources(A)
    BY DEF report, Report
  <2> HIDE DEF A
  <2>4. SumFunction([g \in BuildGroups(A) |-> SumFunction([e \in g.entries |-> e.count])])
            = Cardinality(A)
    BY <2>2, GroupsAddUp
  <2>5. report.total = Cardinality(Keys(results, query))
    BY <2>1, TotalIsKeys DEF report
  <2>6. report.sources = UNION {g.sources : g \in report.groups}
    BY <2>2, <2>3, GroupsCover
  <2> QED
    BY <2>3, <2>4, <2>5, <2>6 DEF NothingLostOrCountedTwice, Keys, Matching
<1> QED
  BY <1>1, CollectedInductive, PTL DEF Spec

\* A provider that fails removes evidence from the report and adds none.
THEOREM FailureRemovesOnly == Spec => []FailureOnlyRemovesEvidence
<1>1. ASSUME CollectedOK PROVE FailureOnlyRemovesEvidence
  <2> SUFFICES ASSUME NEW p \in 1..Providers
               PROVE  LET partial == Report([results EXCEPT ![p] = <<>>], query)
                      IN  /\ partial.total <= report.total
                          /\ partial.sources \subseteq report.sources
                          /\ WindowsOf(partial) \subseteq WindowsOf(report)
                          /\ SummaryKeys(partial) \subseteq SummaryKeys(report)
    BY DEF FailureOnlyRemovesEvidence
  <2> DEFINE tt == [results EXCEPT ![p] = <<>>]
  <2>1. tt \in [1..Providers -> Seq(Signals)] /\ results \in [1..Providers -> Seq(Signals)]
    BY <1>1 DEF CollectedOK
  <2>2. \A i \in 1..Providers : ToSet(tt[i]) \subseteq ToSet(results[i])
    <3>1. ToSet(<<>>) = {}
      BY DEF ToSet
    <3>2. tt[p] = <<>> /\ \A i \in 1..Providers : i # p => tt[i] = results[i]
      BY <2>1
    <3> HIDE DEF tt
    <3> QED
      BY <3>1, <3>2
  <2> HIDE DEF tt
  <2>3. /\ tt \in Seq(Seq(Signals)) /\ results \in Seq(Seq(Signals))
        /\ Len(tt) = Providers /\ Len(results) = Providers
    BY <2>1, ResultsSequence
  <2>4. Keys(tt, query) \subseteq Keys(results, query)
    BY <2>2, <2>3, KeysGrow
  <2> QED
    BY <2>3, <2>4, ReportOfKeys DEF report, tt
<1> QED
  BY <1>1, CollectedInductive, PTL DEF Spec

\* The order in which the providers are configured shows in nothing but the
\* severities.
THEOREM OrderShowsInSeverityOnly == Spec => []ProviderOrderOnlyAffectsSeverity
<1>1. ASSUME CollectedOK PROVE ProviderOrderOnlyAffectsSeverity
  <2> DEFINE tt == Reverse(results)
  <2>1. results \in Seq(Seq(Signals)) /\ Len(results) = Providers
    BY <1>1, ResultsSequence DEF CollectedOK
  <2>2. \A i \in 1..Providers : Providers - i + 1 \in 1..Providers
    BY ProvidersAssumption
  <2>3. /\ tt \in [1..Providers -> Seq(Signals)]
        /\ \A i \in 1..Providers : tt[i] = results[Providers - i + 1]
    BY <1>1, <2>1, <2>2 DEF Reverse, CollectedOK
  <2> HIDE DEF tt
  <2>4. tt \in Seq(Seq(Signals)) /\ Len(tt) = Providers
    BY <2>3, ResultsSequence
  <2>5. \A i \in 1..Providers : ToSet(results[i]) = ToSet(tt[Providers - i + 1])
    <3> SUFFICES ASSUME NEW i \in 1..Providers
                 PROVE  results[i] = tt[Providers - i + 1]
      OBVIOUS
    <3>1. Providers - (Providers - i + 1) + 1 = i
      BY ProvidersAssumption
    <3> QED
      BY <2>2, <2>3, <3>1
  <2>6. \A i \in 1..Len(results) : \E j \in 1..Len(tt) : ToSet(results[i]) \subseteq ToSet(tt[j])
    BY <2>1, <2>2, <2>4, <2>5
  <2>7. \A i \in 1..Len(tt) : \E j \in 1..Len(results) : ToSet(tt[i]) \subseteq ToSet(results[j])
    BY <2>1, <2>2, <2>3, <2>4
  <2>8. Keys(tt, query) \subseteq Keys(results, query)
    BY <2>1, <2>4, <2>7, KeysGrow
  <2>9. Keys(results, query) \subseteq Keys(tt, query)
    BY <2>1, <2>4, <2>6, KeysGrow
  <2>10. Report(tt, query).total = report.total
    <3>1. Keys(tt, query) = Keys(results, query)
      BY <2>8, <2>9
    <3> QED
      BY <2>1, <2>4, <3>1, TotalIsKeys DEF report
  <2>11. /\ Report(tt, query).sources \subseteq report.sources
         /\ WindowsOf(Report(tt, query)) \subseteq WindowsOf(report)
         /\ SummaryKeys(Report(tt, query)) \subseteq SummaryKeys(report)
    BY <2>1, <2>4, <2>8, ReportOfKeys DEF report
  <2>12. /\ report.sources \subseteq Report(tt, query).sources
         /\ WindowsOf(report) \subseteq WindowsOf(Report(tt, query))
         /\ SummaryKeys(report) \subseteq SummaryKeys(Report(tt, query))
    BY <2>1, <2>4, <2>9, ReportOfKeys DEF report
  <2> QED
    BY <2>10, <2>11, <2>12 DEF ProviderOrderOnlyAffectsSeverity, tt
<1> QED
  BY <1>1, CollectedInductive, PTL DEF Spec

-----------------------------------------------------------------------------
(* Confidence.                                                             *)

\* A finite set of numbers that is not empty has a maximum.
LEMMA MaxIn ==
    ASSUME NEW T \in SUBSET Int, IsFiniteSet(T), T # {}
    PROVE  Max(T) \in T /\ \A n \in T : n <= Max(T)
<1> DEFINE f == [n \in T |-> 0 - n]
<1>1. \A n \in T : f[n] \in Int
  OBVIOUS
<1>2. PICK m \in T : \A n \in T : f[m] <= f[n]
  <2> HIDE DEF f
  <2> QED
    BY <1>1, LeastValue
<1>3. \A n \in T : m >= n
  <2> SUFFICES ASSUME NEW n \in T PROVE m >= n
    OBVIOUS
  <2>1. 0 - m <= 0 - n /\ m \in Int /\ n \in Int
    BY <1>2
  <2> QED
    BY <2>1
<1>4. Max(T) \in T /\ \A n \in T : Max(T) >= n
  BY <1>3 DEF Max
<1> QED
  BY <1>4

\* The severity of a group is that of one of its signals.
LEMMA GroupSeverity ==
    ASSUME NEW A \in SUBSET Signals, IsFiniteSet(A), NEW w \in Starts(A)
    PROVE  /\ GroupOf(A, w).severity \in 0..3
           /\ Cardinality(GroupOf(A, w).entries) \in Nat
           /\ Cardinality(GroupOf(A, w).entries) <= Cardinality(Part(A, w))
           /\ Cardinality(Part(A, w)) \in Nat
<1>1. Part(A, w) \in SUBSET Signals /\ IsFiniteSet(Part(A, w)) /\ Part(A, w) # {}
  BY PartType DEF Starts, Part
<1> DEFINE T == {s.severity : s \in Part(A, w)}
<1>2. T \in SUBSET (0..3) /\ T # {}
  BY <1>1, SignalFields
<1>3. Max(T) \in T
  <2>1. 0 \in Int /\ 3 \in Int
    OBVIOUS
  <2>2. IsFiniteSet(0..3)
    BY <2>1, FS_Interval
  <2> HIDE DEF T
  <2>3. IsFiniteSet(T)
    BY <1>2, <2>2, FS_Subset
  <2>4. T \in SUBSET Int
    BY <1>2
  <2> QED
    BY <1>2, <2>3, <2>4, MaxIn
<1>4. GroupOf(A, w).severity = Max(T) /\ GroupOf(A, w).entries = Deduplicate(Part(A, w))
  BY GroupsOnly
<1>5. /\ IsFiniteSet(Deduplicate(Part(A, w)))
      /\ Cardinality(Deduplicate(Part(A, w))) <= Cardinality(Part(A, w))
  BY <1>1, EntriesOnly
<1> HIDE DEF T
<1> QED
  BY <1>1, <1>2, <1>3, <1>4, <1>5, FS_CardinalityType

\* The scores of the severities.
LEMMA ScoreRange ==
    /\ \A sev \in 0..3 : Score(sev) \in 0..100
    /\ \A sev \in 0..1 : Score(sev) \in 0..33
<1>1. Score(0) = 0 /\ Score(1) = 33 /\ Score(2) = 66 /\ Score(3) = 100
  BY DEF Score
<1>2. \A sev \in 0..3 : sev = 0 \/ sev = 1 \/ sev = 2 \/ sev = 3
  OBVIOUS
<1>3. \A sev \in 0..1 : sev = 0 \/ sev = 1
  OBVIOUS
<1> QED
  BY <1>1, <1>2, <1>3

\* A product is bounded by a bound of a factor.
LEMMA ProductBound ==
    ASSUME NEW n \in Nat, NEW a \in Int, NEW b \in Int, a <= b
    PROVE  n * a <= n * b /\ n * a \in Int /\ n * b \in Int
<1>1. PICK c \in Nat : b = a + c
  <2>1. b - a \in Nat /\ b = a + (b - a)
    OBVIOUS
  <2> QED
    BY <2>1
<1>2. n * b = n * a + n * c /\ n * c >= 0 /\ n * a \in Int /\ n * c \in Int
  BY <1>1
<1> QED
  BY <1>2

\* The weighted severity is at most the greatest score for every signal.
LEMMA WeightBound ==
    ASSUME NEW A \in SUBSET Signals, IsFiniteSet(A), NEW top \in Nat,
           \A w \in Starts(A) : Score(GroupOf(A, w).severity) \in 0..top
    PROVE  /\ WeightedSeverity(BuildGroups(A)) \in Nat
           /\ WeightedSeverity(BuildGroups(A)) <= top * Cardinality(A)
<1> DEFINE G == BuildGroups(A)
           zero == [g \in G |-> 0]
           f == [g \in G |-> Score(g.severity) * Cardinality(g.entries)]
           size == [g \in G |-> Cardinality(Part(A, g.start))]
           limit == [g \in G |-> top * Cardinality(Part(A, g.start))]
           part == [g \in G |-> Part(A, g.start)]
<1>1. /\ G = {GroupOf(A, w) : w \in Starts(A)} /\ IsFiniteSet(G)
      /\ \A w : GroupOf(A, w).start = w
  BY GroupsOnly
<1>2. ASSUME NEW g \in G
      PROVE  /\ f[g] \in Nat /\ f[g] <= limit[g] /\ limit[g] \in Int
             /\ size[g] \in Nat /\ limit[g] = top * size[g]
             /\ size[g] = Cardinality(part[g])
  <2>1. PICK w \in Starts(A) : g = GroupOf(A, w) /\ g.start = w
    BY <1>1
  <2> DEFINE m == Score(g.severity)
             c == Cardinality(g.entries)
             d == Cardinality(Part(A, w))
  <2>2. m \in 0..top /\ c \in Nat /\ c <= d /\ d \in Nat
    BY <2>1, GroupSeverity
  <2>3. f[g] = m * c /\ limit[g] = top * d /\ size[g] = d /\ part[g] = Part(A, w)
    BY <2>1
  <2> HIDE DEF m, c, d
  <2>4. c * m <= c * top /\ c * m = m * c /\ c * top = top * c
    BY <2>2, ProductBound
  <2>5. top * c <= top * d /\ top * d \in Int /\ m * c \in Nat /\ top * c \in Int
    BY <2>2, ProductBound
  <2>6. m * c <= top * d
    BY <2>4, <2>5
  <2> QED
    BY <2>2, <2>3, <2>5, <2>6 DEF d
<1>3. UNION {part[g] : g \in G} \subseteq A /\ \A g \in G : part[g] \subseteq A
  BY DEF Part
<1>4. \A g, h \in G : g # h => part[g] \cap part[h] = {}
  <2>1. \A g \in G : g = GroupOf(A, g.start)
    BY <1>1
  <2>2. \A g, h \in G : g # h => g.start # h.start
    BY <2>1
  <2> QED
    BY <2>2 DEF Part
<1>5. WeightedSeverity(G) = SumFunctionOnSet(f, G)
  BY DEF WeightedSeverity, SumFunction
<1>6. \A g \in G : zero[g] = 0
  OBVIOUS
<1> HIDE DEF G, zero, f, size, limit, part
<1>7. SumFunctionOnSet(size, G) = Cardinality(UNION {part[g] : g \in G})
  <2>1. \A g \in G : size[g] = Cardinality(part[g])
    BY <1>2
  <2>2. IsFiniteSet(G) /\ \A g \in G : part[g] \subseteq A
    BY <1>1, <1>3
  <2> QED
    BY <1>4, <2>1, <2>2, SumOfParts
<1>8. SumFunctionOnSet(limit, G) = top * SumFunctionOnSet(size, G)
  BY <1>1, <1>2, SumScale
<1>9. SumFunctionOnSet(f, G) <= SumFunctionOnSet(limit, G)
  BY <1>1, <1>2, SumMonotone
<1>10. SumFunctionOnSet(zero, G) <= SumFunctionOnSet(f, G) /\ SumFunctionOnSet(zero, G) = 0
  <2>1. SumFunctionOnSet(zero, G) = 0
    BY <1>1, <1>6, SumOfZeros
  <2>2. \A g \in G : zero[g] \in Int /\ f[g] \in Int /\ zero[g] <= f[g]
    BY <1>2, <1>6
  <2>3. SumFunctionOnSet(zero, G) <= SumFunctionOnSet(f, G)
    BY <1>1, <2>2, SumMonotone
  <2> QED
    BY <2>1, <2>3
<1>11. SumFunctionOnSet(f, G) \in Int
  BY <1>1, <1>2, SumType
<1>12. /\ Cardinality(UNION {part[g] : g \in G}) <= Cardinality(A)
       /\ Cardinality(UNION {part[g] : g \in G}) \in Nat /\ Cardinality(A) \in Nat
  BY <1>3, FS_Subset, FS_CardinalityType
<1>13. top * SumFunctionOnSet(size, G) <= top * Cardinality(A) /\ top * Cardinality(A) \in Int
       /\ top * SumFunctionOnSet(size, G) \in Int
  BY <1>7, <1>12, ProductBound
<1>14. SumFunctionOnSet(f, G) \in Nat /\ SumFunctionOnSet(f, G) <= top * Cardinality(A)
  BY <1>8, <1>9, <1>10, <1>11, <1>13
<1> QED
  BY <1>5, <1>14 DEF G

\* The quotient of a number between two multiples.
LEMMA QuotientBounds ==
    ASSUME NEW n \in Nat \ {0}, NEW a \in Int, NEW lo \in Int, NEW hi \in Int,
           n * lo <= a, a < n * (hi + 1)
    PROVE  a \div n \in lo..hi
<1> DEFINE d == a \div n
           e == a % n
<1>1. d \in Int /\ e \in 0..(n - 1) /\ a = n * d + e
  BY Division
<1> HIDE DEF d, e
<1>2. n * (d + 1) = n * d + n /\ n * d \in Int /\ n * lo \in Int /\ n * (hi + 1) \in Int
  BY <1>1
<1>3. n * lo < n * (d + 1) /\ n * d < n * (hi + 1)
  BY <1>1, <1>2
<1>4. lo < d + 1 /\ d < hi + 1
  <2>1. d + 1 \in Int /\ hi + 1 \in Int /\ d \in Int
    BY <1>1
  <2> QED
    BY <1>3, <2>1, ScaleOrder
<1>5. d \in lo..hi
  BY <1>1, <1>4
<1> QED
  BY <1>5 DEF d

\* The arithmetic of computeConfidence.
LEMMA ConfidenceBounds ==
    ASSUME NEW groups, NEW total \in Nat, NEW sources \in Nat,
           WeightedSeverity(groups) \in Nat
    PROVE  /\ total = 0 => Confidence(groups, total, sources) = 0
           /\ total # 0 /\ WeightedSeverity(groups) <= 100 * total
                 => Confidence(groups, total, sources) \in 1..100
           /\ total # 0 /\ WeightedSeverity(groups) <= 33 * total
                 => Confidence(groups, total, sources) \in 1..67
<1>1. CASE total = 0
  BY <1>1 DEF Confidence
<1>2. CASE total # 0
  <2> DEFINE W == WeightedSeverity(groups)
             v == AtMost(10, total) * total
             u == AtMost(3, sources) * total
             num == 3 * W + 18 * AtMost(10, total) * total + 40 * AtMost(3, sources) * total
             den == 6 * total
  <2>1. AtMost(10, total) \in 1..10 /\ AtMost(3, sources) \in 0..3
    BY <1>2 DEF AtMost
  <2>2. \A c \in Int : c * total = total * c /\ total * 1 = total /\ total * 0 = 0
    OBVIOUS
  <2>3. v \in total..(10 * total) /\ u \in 0..(3 * total)
    <3>1. /\ total * 1 <= total * AtMost(10, total) /\ total * AtMost(10, total) <= total * 10
          /\ total * 0 <= total * AtMost(3, sources) /\ total * AtMost(3, sources) <= total * 3
          /\ total * AtMost(10, total) \in Int /\ total * AtMost(3, sources) \in Int
      BY <2>1, ProductBound
    <3> QED
      BY <2>1, <2>2, <3>1
  <2>4. num = 3 * W + 18 * v + 40 * u
    <3>1. \A a \in Int : 18 * a * total = 18 * (a * total) /\ 40 * a * total = 40 * (a * total)
      OBVIOUS
    <3> QED
      BY <2>1, <3>1
  <2>5. Confidence(groups, total, sources) = (2 * num + den) \div (2 * den)
    BY <1>2 DEF Confidence, RoundedRatio
  <2>6. W \in Nat
    OBVIOUS
  <2> HIDE DEF W, v, u, num
  <2>7. /\ num \in Int /\ den \in Nat \ {0} /\ 18 * total <= num
        /\ W <= 100 * total => num <= 600 * total
        /\ W <= 33 * total => num <= 399 * total
    BY <1>2, <2>3, <2>4, <2>6
  <2> DEFINE n == 2 * den
             a == 2 * num + den
  <2>8. /\ n \in Nat \ {0} /\ a \in Int /\ n * 1 <= a
        /\ W <= 100 * total => a < n * (100 + 1)
        /\ W <= 33 * total => a < n * (67 + 1)
    BY <1>2, <2>7
  <2> HIDE DEF n, a, den
  <2>9. W <= 100 * total => a \div n \in 1..100
    BY <2>8, QuotientBounds
  <2>10. W <= 33 * total => a \div n \in 1..67
    BY <2>8, QuotientBounds
  <2> QED
    BY <1>2, <2>5, <2>9, <2>10 DEF W, n, a
<1> QED
  BY <1>1, <1>2

\* The confidence is a percentage, is 0 for an empty report only, and reaches
\* the threshold of the CI integrations only with a group of medium or high
\* severity, however many signals and sources there are.
THEOREM ConfidenceEarned == Spec => []ConfidenceIsEarned
<1>1. ASSUME CollectedOK PROVE ConfidenceIsEarned
  <2> DEFINE A == Accepted(results, query)
             G == BuildGroups(A)
             total == Cardinality(A)
             sources == Cardinality(Sources(A))
  <2>1. A \in SUBSET Signals /\ IsFiniteSet(A)
    BY <1>1, ResultsSequence, AcceptedKeys DEF CollectedOK
  <2>2. /\ report.groups = G /\ report.total = total
        /\ report.confidence = Confidence(G, total, sources)
    BY DEF report, Report
  <2>3. total \in Nat /\ (total = 0 <=> A = {})
    <3> HIDE DEF A
    <3> QED
      BY <2>1, FS_CardinalityType, FS_EmptySet
  <2>4. sources \in Nat
    <3> DEFINE f == [s \in A |-> s.source]
               named == {f[s] : s \in A}
    <3>1. Sources(A) = named \ {NoText}
      BY DEF Sources
    <3> HIDE DEF A, f
    <3>2. IsFiniteSet(named)
      BY <2>1, ImageCardinality
    <3> HIDE DEF named
    <3>3. IsFiniteSet(Sources(A))
      BY <3>1, <3>2, FS_Subset
    <3> QED
      BY <3>3, FS_CardinalityType
  <2>5. G = {GroupOf(A, w) : w \in Starts(A)}
    <3> HIDE DEF A
    <3> QED
      BY <2>1, GroupsOnly
  <2>6. WeightedSeverity(G) \in Nat /\ WeightedSeverity(G) <= 100 * total
    <3> HIDE DEF A
    <3>1. \A w \in Starts(A) : Score(GroupOf(A, w).severity) \in 0..100
      BY <2>1, GroupSeverity, ScoreRange
    <3> QED
      BY <2>1, <3>1, WeightBound
  <2>7. (\A g \in G : ~(g.severity >= 2)) => WeightedSeverity(G) <= 33 * total
    <3> HIDE DEF A
    <3> SUFFICES ASSUME \A g \in G : ~(g.severity >= 2)
                 PROVE  WeightedSeverity(G) <= 33 * total
      OBVIOUS
    <3>1. ASSUME NEW w \in Starts(A) PROVE Score(GroupOf(A, w).severity) \in 0..33
      <4>1. GroupOf(A, w).severity \in 0..3 /\ ~(GroupOf(A, w).severity >= 2)
        BY <2>1, <2>5, GroupSeverity
      <4>2. GroupOf(A, w).severity \in 0..1
        BY <4>1
      <4> QED
        BY <4>2, ScoreRange
    <3> QED
      BY <2>1, <3>1, WeightBound
  <2> HIDE DEF A, G, total, sources
  <2>8. CASE total = 0
    <3>1. report.confidence = 0
      BY <2>2, <2>8 DEF Confidence
    <3> QED
      BY <2>2, <2>8, <3>1 DEF ConfidenceIsEarned
  <2>9. CASE total # 0
    <3>1. report.confidence \in 1..100
      BY SMTT(30), <2>2, <2>3, <2>4, <2>6, <2>9, ConfidenceBounds
    <3>2. (\A g \in G : ~(g.severity >= 2)) => report.confidence \in 1..67
      BY <2>2, <2>3, <2>4, <2>6, <2>7, <2>9, ConfidenceBounds
    <3> QED
      BY <2>2, <2>9, <3>1, <3>2 DEF ConfidenceIsEarned
  <2> QED
    BY <2>8, <2>9
<1> QED
  BY <1>1, CollectedInductive, PTL DEF Spec

-----------------------------------------------------------------------------
(* The same failure some windows later.                                    *)

\* Windows and seconds move along with a delay of whole windows.
LEMMA LaterTime ==
    ASSUME NEW t \in Int, NEW k \in Nat
    PROVE  /\ k * Window \in Nat
           /\ WindowStart(t + k * Window) = WindowStart(t) + k * Window
           /\ (t + k * Window) \div Second = (t \div Second) + k * (Window \div Second)
<1> DEFINE m == Window \div Second
           a == t \div Window
           x == t % Window
           b == t \div Second
           y == t % Second
           d == k * Window
<1>1. /\ Second \in Nat \ {0} /\ Window \in Nat \ {0} /\ m \in Int
      /\ Window = Second * m
  BY TimeAssumption, Division
<1>2. a \in Int /\ x \in 0..(Window - 1) /\ t = Window * a + x
  BY <1>1, Division
<1>3. b \in Int /\ y \in 0..(Second - 1) /\ t = Second * b + y
  BY <1>1, Division
<1>4. d \in Nat
  BY <1>1
<1> HIDE DEF m, a, x, b, y
<1>5. /\ Window * (a + k) = Window * a + d /\ Window * a \in Int /\ Window * (a + k) \in Int
  BY <1>1, <1>2
<1>6. Second * (k * m) = d /\ k * m \in Int
  BY <1>1
<1>7. /\ Second * (b + k * m) = Second * b + Second * (k * m)
      /\ Second * ((b + k * m) + 1) = Second * (b + k * m) + Second
      /\ Second * b \in Int /\ Second * (k * m) \in Int
  BY <1>1, <1>3, <1>6
<1> HIDE DEF d
<1>8. (t + d) - ((t + d) % Window) = Window * a + d
  <2>1. Window * (a + k) <= t + d /\ t + d < Window * (a + k) + Window
    BY <1>1, <1>2, <1>4, <1>5
  <2>2. t + d \in Int /\ a + k \in Int
    BY <1>2, <1>4
  <2> QED
    BY <1>1, <1>5, <2>1, <2>2, FloorUnique
<1>9. t - (t % Window) = Window * a
  <2>1. Window * a <= t /\ t < Window * a + Window
    BY <1>1, <1>2, <1>5
  <2> QED
    BY <1>1, <1>2, <2>1, FloorUnique
<1>10. (t + d) \div Second = b + k * m
  <2> DEFINE q == b + k * m
  <2>1. q \in Int /\ t + d \in Int
    BY <1>3, <1>4, <1>6
  <2>2. Second * q <= t + d /\ t + d < Second * (q + 1)
    BY <1>1, <1>3, <1>4, <1>6, <1>7
  <2> HIDE DEF q
  <2>3. (t + d) \div Second \in q..q
    BY <1>1, <2>1, <2>2, QuotientBounds
  <2> QED
    BY <2>1, <2>3 DEF q
<1> QED
  BY <1>4, <1>8, <1>9, <1>10 DEF WindowStart, d, b, m

Shifted(A, d) == {Delayed(s, d) : s \in A}

\* A delay keeps signals apart, and what they are.
LEMMA DelayedSignal ==
    ASSUME NEW s \in Signals, NEW d \in Nat
    PROVE  /\ Delayed(s, d) \in Signals
           /\ Delayed(s, d).ts = s.ts + d
           /\ Delayed(s, d).source = s.source
           /\ Delayed(s, d).service = s.service
           /\ Delayed(s, d).summary = s.summary
           /\ Delayed(s, d).severity = s.severity
           /\ DedupKey(Delayed(s, d)) = DedupKey(s)
           /\ SummaryOf(Delayed(s, d)) = SummaryOf(s)
           /\ \A t \in Signals : Delayed(s, d) = Delayed(t, d) => s = t
<1>1. PICK x \in UNION {ToSet(batch) : batch \in Batches}, e \in Nat : s = Delayed(x, e)
  BY DEF Signals
<1>2. IsSignal(x) /\ IsSignal(s) /\ s.ts \in Nat
  BY <1>1, SignalsAssumption, SignalFields
<1>3. /\ IsSignal(Delayed(s, d))
      /\ Delayed(s, d).ts = s.ts + d
      /\ Delayed(s, d).source = s.source
      /\ Delayed(s, d).service = s.service
      /\ Delayed(s, d).summary = s.summary
      /\ Delayed(s, d).severity = s.severity
      /\ Delayed(s, d).type = s.type
  BY <1>2, DelayedFields
<1>4. Delayed(s, d) \in Signals
  <2>1. e + d \in Nat /\ x.ts \in Nat
    BY <1>2 DEF IsSignal
  <2>2. /\ s.ts = x.ts + e /\ s.source = x.source /\ s.service = x.service
        /\ s.summary = x.summary /\ s.severity = x.severity /\ s.type = x.type
    BY <1>1, <1>2, DelayedFields
  <2>3. Delayed(s, d) = [source   |-> x.source,   service |-> x.service,
                         summary  |-> x.summary,  type    |-> x.type,
                         severity |-> x.severity, ts      |-> s.ts + d]
    BY <1>2, <2>2 DEF IsSignal, Delayed
  <2>4. Delayed(x, e + d) = [source   |-> x.source,   service |-> x.service,
                             summary  |-> x.summary,  type    |-> x.type,
                             severity |-> x.severity, ts      |-> x.ts + (e + d)]
    BY <1>2 DEF IsSignal, Delayed
  <2>5. s.ts + d = x.ts + (e + d)
    BY <2>1, <2>2
  <2>6. Delayed(s, d) = Delayed(x, e + d)
    BY <2>3, <2>4, <2>5
  <2> QED
    BY <2>1, <2>6 DEF Signals
<1>5. ASSUME NEW t \in Signals, Delayed(s, d) = Delayed(t, d) PROVE s = t
  <2>1. IsSignal(t) /\ t.ts \in Nat
    BY SignalFields
  <2>2. /\ Delayed(t, d).ts = t.ts + d
        /\ Delayed(t, d).source = t.source
        /\ Delayed(t, d).service = t.service
        /\ Delayed(t, d).summary = t.summary
        /\ Delayed(t, d).severity = t.severity
        /\ Delayed(t, d).type = t.type
    BY <2>1, DelayedFields
  <2>3. s.ts + d = t.ts + d
    BY <1>3, <1>5, <2>2
  <2>4. s.ts = t.ts
    BY <1>2, <2>1, <2>3
  <2>5. /\ s.source = t.source /\ s.service = t.service /\ s.summary = t.summary
        /\ s.severity = t.severity /\ s.type = t.type
    BY <1>3, <1>5, <2>2
  <2> QED
    BY <1>2, <2>1, <2>4, <2>5 DEF IsSignal
<1> QED
  BY <1>3, <1>4, <1>5 DEF DedupKey, SummaryOf

\* The results tt and the query r are ss and q, delayed by d.
Postponed(ss, q, tt, r, d) ==
    /\ q.since \in Int /\ q.until \in Int /\ r.services = q.services
    /\ r.since = q.since + d /\ r.until = q.until + d
    /\ ss \in Seq(Seq(Signals)) /\ tt \in Seq(Seq(Signals)) /\ Len(tt) = Len(ss)
    /\ \A p \in 1..Len(ss) : MapsTo(ss[p], tt[p], [s \in Signals |-> Delayed(s, d)])

\* Of the delayed results, a query as much later accepts the delayed signals.
LEMMA AcceptedShift ==
    ASSUME NEW k \in Nat, NEW d, d = k * Window,
           NEW ss, NEW q, NEW tt, NEW r, Postponed(ss, q, tt, r, d)
    PROVE  Accepted(tt, r) = Shifted(Accepted(ss, q), d)
<1> DEFINE h == [s \in Signals |-> Delayed(s, d)]
           all == FlattenSeq(ss)
           later == FlattenSeq(tt)
           RepeatsA(i) == \E j \in 1..(i - 1) :
               Matches(q, all[j]) /\ SignalFingerprint(all[j]) = SignalFingerprint(all[i])
           RepeatsB(i) == \E j \in 1..(i - 1) :
               Matches(r, later[j]) /\ SignalFingerprint(later[j]) = SignalFingerprint(later[i])
           KeptA == {i \in 1..Len(all) : Matches(q, all[i]) /\ ~RepeatsA(i)}
           KeptB == {i \in 1..Len(all) : Matches(r, later[i]) /\ ~RepeatsB(i)}
<1>0. /\ q.since \in Int /\ q.until \in Int /\ r.services = q.services
      /\ r.since = q.since + d /\ r.until = q.until + d
      /\ ss \in Seq(Seq(Signals)) /\ tt \in Seq(Seq(Signals)) /\ Len(tt) = Len(ss)
      /\ \A p \in 1..Len(ss) : MapsTo(ss[p], tt[p], h)
  BY DEF Postponed
<1>1. all \in Seq(Signals) /\ later \in Seq(Signals)
  BY <1>0, FlattenElements
<1>2. MapsTo(all, later, h)
  <2> HIDE DEF h
  <2> QED
    BY <1>0, FlattenMaps
<1>3. /\ Len(all) \in Nat /\ Len(later) = Len(all)
      /\ DOMAIN all = 1..Len(all) /\ DOMAIN later = 1..Len(all)
  BY <1>1, <1>2 DEF MapsTo
<1>4. d \in Nat
  BY LaterTime
<1>5. Accepted(ss, q) = {all[i] : i \in KeptA}
  BY <1>3 DEF Accepted
<1>6. Accepted(tt, r) = {later[i] : i \in KeptB}
  BY <1>3 DEF Accepted
<1> HIDE DEF all, later
<1>7. \A i \in 1..Len(all) : all[i] \in Signals /\ later[i] = Delayed(all[i], d)
  <2>1. \A i \in 1..Len(all) : all[i] \in Signals
    BY <1>1, <1>3
  <2>2. \A s \in Signals : h[s] = Delayed(s, d)
    OBVIOUS
  <2>3. \A i \in 1..Len(all) : later[i] = h[all[i]]
    BY <1>2 DEF MapsTo
  <2> QED
    BY <2>1, <2>2, <2>3
<1>8. ASSUME NEW s \in Signals PROVE Matches(r, Delayed(s, d)) <=> Matches(q, s)
  <2>1. s.ts \in Nat
    BY SignalFields
  <2>2. Delayed(s, d).ts = s.ts + d /\ Delayed(s, d).service = s.service
    BY <1>4, DelayedSignal
  <2>3. r.since = q.since + d /\ r.until = q.until + d
    BY <1>0
  <2>4. InWindow(r, Delayed(s, d)) <=> InWindow(q, s)
    BY <1>0, <1>4, <2>1, <2>2, <2>3 DEF InWindow
  <2> QED
    BY <1>0, <2>2, <2>4 DEF Matches
<1>9. ASSUME NEW s \in Signals, NEW t \in Signals
      PROVE  SignalFingerprint(Delayed(s, d)) = SignalFingerprint(Delayed(t, d))
                 <=> SignalFingerprint(s) = SignalFingerprint(t)
  <2> DEFINE c == k * (Window \div Second)
             x == s.ts \div Second
             y == t.ts \div Second
  <2>1. s.ts \in Nat /\ t.ts \in Nat
    BY SignalFields
  <2>2. c \in Int /\ x \in Int /\ y \in Int
    <3>1. Second \in Nat \ {0} /\ Window \in Int
      BY TimeAssumption
    <3>2. Window \div Second \in Int
      BY <3>1, Division
    <3>3. x \in Int /\ y \in Int
      <4>1. s.ts \in Int /\ t.ts \in Int
        BY <2>1
      <4> QED
        BY <3>1, <4>1, Division
    <3>4. \A i, j \in Int : i * j \in Int
      OBVIOUS
    <3>5. k \in Int
      OBVIOUS
    <3> QED
      BY <3>2, <3>3, <3>4, <3>5
  <2>3. (s.ts + d) \div Second = x + c /\ (t.ts + d) \div Second = y + c
    <3>1. s.ts \in Int /\ t.ts \in Int
      BY <2>1
    <3>2. (s.ts + d) \div Second = x + c
      BY <3>1, LaterTime
    <3>3. (t.ts + d) \div Second = y + c
      BY <3>1, LaterTime
    <3> QED
      BY <3>2, <3>3
  <2> HIDE DEF c, x, y
  <2>4. x + c = y + c <=> x = y
    BY <2>2
  <2>5. /\ Delayed(s, d).ts = s.ts + d
        /\ Delayed(s, d).source = s.source
        /\ Delayed(s, d).service = s.service
        /\ Delayed(s, d).summary = s.summary
    BY <1>4, DelayedSignal
  <2>6. /\ Delayed(t, d).ts = t.ts + d
        /\ Delayed(t, d).source = t.source
        /\ Delayed(t, d).service = t.service
        /\ Delayed(t, d).summary = t.summary
    BY <1>4, DelayedSignal
  <2>7. /\ SignalFingerprint(Delayed(s, d)) = <<s.source, s.service, s.summary, x + c>>
        /\ SignalFingerprint(Delayed(t, d)) = <<t.source, t.service, t.summary, y + c>>
    BY <2>3, <2>5, <2>6 DEF SignalFingerprint
  <2>8. /\ SignalFingerprint(s) = <<s.source, s.service, s.summary, x>>
        /\ SignalFingerprint(t) = <<t.source, t.service, t.summary, y>>
    BY DEF SignalFingerprint, x, y
  <2>9. /\ <<s.source, s.service, s.summary, x + c>> = <<t.source, t.service, t.summary, y + c>>
              <=> /\ s.source = t.source /\ s.service = t.service /\ s.summary = t.summary
                  /\ x + c = y + c
        /\ <<s.source, s.service, s.summary, x>> = <<t.source, t.service, t.summary, y>>
              <=> /\ s.source = t.source /\ s.service = t.service /\ s.summary = t.summary
                  /\ x = y
    OBVIOUS
  <2> QED
    BY <2>4, <2>7, <2>8, <2>9
<1>10. \A i \in 1..Len(all) : Matches(r, later[i]) <=> Matches(q, all[i])
  BY <1>7, <1>8
<1>11. \A i, j \in 1..Len(all) : SignalFingerprint(later[j]) = SignalFingerprint(later[i])
                                     <=> SignalFingerprint(all[j]) = SignalFingerprint(all[i])
  BY <1>7, <1>9
<1>12. ASSUME NEW i \in 1..Len(all) PROVE i \in KeptA <=> i \in KeptB
  <2>1. \A j \in 1..(i - 1) : j \in 1..Len(all)
    BY <1>3
  <2>2. RepeatsA(i) <=> RepeatsB(i)
    BY <1>10, <1>11, <2>1
  <2> QED
    BY <1>10, <2>2
<1>13. KeptA = KeptB
  BY <1>12
<1>14. \A i \in KeptA : later[i] = Delayed(all[i], d)
  BY <1>7
<1> HIDE DEF KeptA, KeptB
<1>15. Accepted(tt, r) = {later[i] : i \in KeptA}
  BY <1>6, <1>13
<1>16. Shifted(Accepted(ss, q), d) = {Delayed(all[i], d) : i \in KeptA}
  BY <1>5 DEF Shifted
<1> QED
  BY <1>14, <1>15, <1>16

\* The entries of some summaries are as many as the keys of their signals.
LEMMA EntriesOfKeys ==
    ASSUME NEW A \in SUBSET Signals, IsFiniteSet(A), NEW K
    PROVE  Cardinality({e \in Deduplicate(A) : SummaryKey(e) \in K})
               = Cardinality({DedupKey(s) : s \in {t \in A : SummaryOf(t) \in K}})
<1> DEFINE E == {e \in Deduplicate(A) : SummaryKey(e) \in K}
           T == {t \in A : SummaryOf(t) \in K}
           f == [e \in E |-> DedupKey(e.signal)]
<1>1. /\ Deduplicate(A) = {Entry(A, s) : s \in A} /\ IsFiniteSet(Deduplicate(A))
      /\ \A s, t \in A : DedupKey(s) = DedupKey(t) => Entry(A, s) = Entry(A, t)
  BY EntriesOnly
<1>2. ASSUME NEW e \in E
      PROVE  \E s \in T : e = Entry(A, s) /\ f[e] = DedupKey(s)
  <2>1. PICK s \in A : e = Entry(A, s)
    BY <1>1
  <2>2. DedupKey(e.signal) = DedupKey(s) /\ SummaryKey(e) = SummaryOf(s)
    BY <2>1, EntrySignal
  <2> QED
    BY <2>1, <2>2
<1>3. ASSUME NEW s \in T PROVE \E e \in E : f[e] = DedupKey(s)
  <2>1. /\ Entry(A, s) \in Deduplicate(A)
        /\ DedupKey(Entry(A, s).signal) = DedupKey(s)
        /\ SummaryKey(Entry(A, s)) = SummaryOf(s)
    BY EntrySignal
  <2> QED
    BY <2>1
<1>4. IsFiniteSet(E)
  <2>1. E \in SUBSET Deduplicate(A)
    OBVIOUS
  <2> QED
    BY <1>1, <2>1, FS_Subset
<1>5. \A s \in T : s \in A
  OBVIOUS
<1> HIDE DEF E, T, f
<1>6. \A d \in E : \A e \in E : f[d] = f[e] => d = e
  BY <1>1, <1>2, <1>5
<1>7. {f[e] : e \in E} = {DedupKey(s) : s \in T}
  BY <1>2, <1>3
<1>8. Cardinality({f[e] : e \in E}) = Cardinality(E)
  BY <1>4, <1>6, InjectiveImage
<1> QED
  BY <1>7, <1>8 DEF E, T

\* Signals delayed have the same severities, sources, summaries and entries.
LEMMA ShiftedPart ==
    ASSUME NEW A \in SUBSET Signals, IsFiniteSet(A), NEW d \in Nat
    PROVE  /\ Shifted(A, d) \in SUBSET Signals /\ IsFiniteSet(Shifted(A, d))
           /\ Cardinality(Shifted(A, d)) = Cardinality(A)
           /\ {s.severity : s \in Shifted(A, d)} = {s.severity : s \in A}
           /\ Sources(Shifted(A, d)) = Sources(A)
           /\ {SummaryOf(s) : s \in Shifted(A, d)} = {SummaryOf(s) : s \in A}
<1> DEFINE B == Shifted(A, d)
           f == [s \in A |-> Delayed(s, d)]
<1>1. B = {f[s] : s \in A}
  BY DEF Shifted
<1>2. \A s \in A : /\ f[s] = Delayed(s, d) /\ f[s] \in Signals
                   /\ f[s].severity = s.severity /\ f[s].source = s.source
                   /\ SummaryOf(f[s]) = SummaryOf(s)
  BY DelayedSignal
<1>3. \A s \in A : \A t \in A : f[s] = f[t] => s = t
  BY DelayedSignal
<1> HIDE DEF B, f
<1>4. B \in SUBSET Signals
  BY <1>1, <1>2
<1>5. IsFiniteSet(B) /\ Cardinality(B) = Cardinality(A)
  BY <1>1, <1>3, ImageCardinality, InjectiveImage
<1>6. {s.severity : s \in B} = {s.severity : s \in A}
  BY <1>1, <1>2
<1>7. Sources(B) = Sources(A)
  BY <1>1, <1>2 DEF Sources
<1>8. {SummaryOf(s) : s \in B} = {SummaryOf(s) : s \in A}
  BY <1>1, <1>2
<1> QED
  BY <1>4, <1>5, <1>6, <1>7, <1>8 DEF B

\* And as many entries of each summary.
LEMMA ShiftedEntries ==
    ASSUME NEW A \in SUBSET Signals, IsFiniteSet(A), NEW d \in Nat, NEW K
    PROVE  Cardinality({e \in Deduplicate(Shifted(A, d)) : SummaryKey(e) \in K})
               = Cardinality({e \in Deduplicate(A) : SummaryKey(e) \in K})
<1> DEFINE B == Shifted(A, d)
           S == {t \in A : SummaryOf(t) \in K}
           T == {t \in B : SummaryOf(t) \in K}
<1>1. B \in SUBSET Signals /\ IsFiniteSet(B)
  BY ShiftedPart
<1>2. B = {Delayed(s, d) : s \in A}
  BY DEF Shifted
<1>3. \A s \in A : SummaryOf(Delayed(s, d)) = SummaryOf(s) /\ DedupKey(Delayed(s, d)) = DedupKey(s)
  BY DelayedSignal
<1> HIDE DEF B
<1>4. {DedupKey(s) : s \in T} = {DedupKey(s) : s \in S}
  <2>1. ASSUME NEW t \in T PROVE DedupKey(t) \in {DedupKey(s) : s \in S}
    <3>1. PICK s \in A : t = Delayed(s, d)
      BY <1>2
    <3> QED
      BY <1>3, <3>1
  <2>2. ASSUME NEW s \in S PROVE DedupKey(s) \in {DedupKey(t) : t \in T}
    <3>1. Delayed(s, d) \in T /\ DedupKey(Delayed(s, d)) = DedupKey(s)
      BY <1>2, <1>3
    <3> QED
      BY <3>1
  <2> QED
    BY <2>1, <2>2
<1>5. Cardinality({e \in Deduplicate(B) : SummaryKey(e) \in K}) = Cardinality({DedupKey(s) : s \in T})
  BY <1>1, EntriesOfKeys
<1>6. Cardinality({e \in Deduplicate(A) : SummaryKey(e) \in K}) = Cardinality({DedupKey(s) : s \in S})
  BY EntriesOfKeys
<1> QED
  BY <1>4, <1>5, <1>6 DEF B

\* All entries are of some summary.
LEMMA ShiftedCount ==
    ASSUME NEW A \in SUBSET Signals, IsFiniteSet(A), NEW d \in Nat
    PROVE  Cardinality(Deduplicate(Shifted(A, d))) = Cardinality(Deduplicate(A))
<1> DEFINE K == {SummaryOf(s) : s \in A}
           B == Shifted(A, d)
<1>1. B \in SUBSET Signals /\ IsFiniteSet(B) /\ {SummaryOf(s) : s \in B} = K
  BY ShiftedPart
<1>2. \A e \in Deduplicate(A) : SummaryKey(e) \in K
  BY EntriesOnly, EntrySignal
<1>3. \A e \in Deduplicate(B) : SummaryKey(e) \in K
  <2> HIDE DEF B
  <2>1. \A e \in Deduplicate(B) : \E s \in B : SummaryKey(e) = SummaryOf(s)
    BY <1>1, EntriesOnly, EntrySignal
  <2> QED
    BY <1>1, <2>1
<1> HIDE DEF K, B
<1>4. {e \in Deduplicate(A) : SummaryKey(e) \in K} = Deduplicate(A)
  BY <1>2
<1>5. {e \in Deduplicate(B) : SummaryKey(e) \in K} = Deduplicate(B)
  BY <1>3
<1>6. Cardinality({e \in Deduplicate(B) : SummaryKey(e) \in K})
          = Cardinality({e \in Deduplicate(A) : SummaryKey(e) \in K})
  BY ShiftedEntries DEF B
<1> QED
  BY <1>4, <1>5, <1>6 DEF B

\* The groups move along with a delay of whole windows.
LEMMA ShiftedGroups ==
    ASSUME NEW A \in SUBSET Signals, IsFiniteSet(A), NEW k \in Nat
    PROVE  /\ Starts(A) \subseteq Int
           /\ Starts(Shifted(A, k * Window)) = {w + k * Window : w \in Starts(A)}
           /\ \A w \in Starts(A) :
                  Part(Shifted(A, k * Window), w + k * Window) = Shifted(Part(A, w), k * Window)
<1> DEFINE d == k * Window
           B == Shifted(A, d)
<1>1. d \in Nat
  BY LaterTime
<1>2. \A s \in A : s.ts \in Nat /\ WindowStart(s.ts + d) = WindowStart(s.ts) + d
  <2> SUFFICES ASSUME NEW s \in A
               PROVE  s.ts \in Nat /\ WindowStart(s.ts + d) = WindowStart(s.ts) + d
    OBVIOUS
  <2>1. s.ts \in Nat /\ s.ts \in Int
    BY SignalFields
  <2> QED
    BY <2>1, LaterTime
<1>3. \A s \in A : WindowStart(s.ts) \in Int
  <2> SUFFICES ASSUME NEW s \in A PROVE WindowStart(s.ts) \in Int
    OBVIOUS
  <2>1. s.ts \in Int
    BY <1>2
  <2> QED
    BY <2>1, TimeAssumption, Division DEF WindowStart
<1> HIDE DEF d
<1>4. \A s \in A : Delayed(s, d).ts = s.ts + d
  BY <1>1, DelayedSignal
<1>5. B = {Delayed(s, d) : s \in A}
  BY DEF Shifted
<1>6. Starts(A) \subseteq Int
  BY <1>3 DEF Starts
<1> HIDE DEF B
<1>7. Starts(B) = {w + d : w \in Starts(A)}
  <2>1. Starts(B) = {WindowStart(s.ts) + d : s \in A}
    BY <1>2, <1>4, <1>5 DEF Starts
  <2> QED
    BY <2>1 DEF Starts
<1>8. ASSUME NEW w \in Starts(A)
      PROVE  Part(B, w + d) = Shifted(Part(A, w), d)
  <2>1. ASSUME NEW s \in A
        PROVE  WindowStart(Delayed(s, d).ts) = w + d <=> WindowStart(s.ts) = w
    <3>1. WindowStart(Delayed(s, d).ts) = WindowStart(s.ts) + d
      BY <1>2, <1>4
    <3>2. WindowStart(s.ts) \in Int /\ w \in Int
      BY <1>3, <1>6
    <3> QED
      BY <1>1, <3>1, <3>2
  <2>2. Part(B, w + d) = {t \in {Delayed(s, d) : s \in A} : WindowStart(t.ts) = w + d}
    BY <1>5 DEF Part
  <2>3. Shifted(Part(A, w), d) = {Delayed(s, d) : s \in {t \in A : WindowStart(t.ts) = w}}
    BY DEF Part, Shifted
  <2> QED
    BY <2>1, <2>2, <2>3
<1> QED
  BY <1>6, <1>7, <1>8 DEF B, d

\* A sum over the groups does not change when what is summed does not.
LEMMA ShiftedSum ==
    ASSUME NEW A \in SUBSET Signals, IsFiniteSet(A), NEW k \in Nat,
           NEW f, NEW g,
           \A w \in Starts(A) :
               /\ f[GroupOf(A, w)] \in Int
               /\ g[GroupOf(Shifted(A, k * Window), w + k * Window)] = f[GroupOf(A, w)]
    PROVE  SumFunctionOnSet(g, BuildGroups(Shifted(A, k * Window)))
               = SumFunctionOnSet(f, BuildGroups(A))
<1> DEFINE d == k * Window
           B == Shifted(A, d)
           G == BuildGroups(A)
           H == BuildGroups(B)
           to == [x \in G |-> GroupOf(B, x.start + d)]
<1>1. d \in Nat
  BY LaterTime
<1>2. /\ G = {GroupOf(A, w) : w \in Starts(A)} /\ IsFiniteSet(G)
      /\ \A w : GroupOf(A, w).start = w
  BY GroupsOnly
<1>3. B \in SUBSET Signals /\ IsFiniteSet(B)
  BY <1>1, ShiftedPart
<1>4. Starts(A) \subseteq Int /\ Starts(B) = {w + d : w \in Starts(A)}
  BY ShiftedGroups
<1> HIDE DEF B
<1>5. H = {GroupOf(B, w) : w \in Starts(B)} /\ \A w : GroupOf(B, w).start = w
  BY <1>3, GroupsOnly
<1>6. \A w \in Starts(A) : g[GroupOf(B, w + d)] = f[GroupOf(A, w)] /\ f[GroupOf(A, w)] \in Int
  BY DEF B
<1> HIDE DEF d
<1>7. ASSUME NEW x \in G
      PROVE  /\ x.start \in Starts(A) /\ x = GroupOf(A, x.start)
             /\ to[x] = GroupOf(B, x.start + d)
             /\ to[x].start = x.start + d
             /\ g[to[x]] = f[x] /\ g[to[x]] \in Int
  <2>1. x.start \in Starts(A) /\ x = GroupOf(A, x.start)
    BY <1>2
  <2>2. to[x] = GroupOf(B, x.start + d)
    OBVIOUS
  <2> QED
    BY <1>5, <1>6, <2>1, <2>2
<1>8. H = {to[x] : x \in G}
  <2>1. H = {GroupOf(B, w + d) : w \in Starts(A)}
    BY <1>4, <1>5
  <2>2. \A w \in Starts(A) : \E x \in G : to[x] = GroupOf(B, w + d)
    BY <1>2
  <2> HIDE DEF to
  <2> QED
    BY <1>7, <2>1, <2>2
<1> HIDE DEF G, H, to
<1>9. \A x, y \in G : to[x] = to[y] => x = y
  <2> SUFFICES ASSUME NEW x \in G, NEW y \in G, to[x] = to[y] PROVE x = y
    OBVIOUS
  <2>1. x.start + d = y.start + d /\ x.start \in Int /\ y.start \in Int
    BY <1>4, <1>7
  <2>2. x.start = y.start
    BY <1>1, <2>1
  <2> QED
    BY <1>7, <2>2
<1>10. SumFunctionOnSet(g, {to[x] : x \in G}) = SumFunctionOnSet(f, G)
  <2>1. (\A x \in G : g[to[x]] \in Int) /\ (\A x \in G : f[x] = g[to[x]])
    BY <1>7
  <2> QED
    BY <1>2, <1>9, <2>1, SumOfImage
<1> QED
  BY <1>8, <1>10 DEF G, H, B, d

\* So the confidence and the bag of summaries of the signals stay.
LEMMA ShiftedReport ==
    ASSUME NEW A \in SUBSET Signals, IsFiniteSet(A), NEW k \in Nat
    PROVE  /\ WeightedSeverity(BuildGroups(Shifted(A, k * Window)))
                  = WeightedSeverity(BuildGroups(A))
           /\ \A key :
                  SumFunction([g \in BuildGroups(Shifted(A, k * Window)) |->
                                  Cardinality({e \in g.entries : SummaryKey(e) = key})])
                  = SumFunction([g \in BuildGroups(A) |->
                                    Cardinality({e \in g.entries : SummaryKey(e) = key})])
<1> DEFINE d == k * Window
           B == Shifted(A, d)
           G == BuildGroups(A)
           H == BuildGroups(B)
<1>1. d \in Nat
  BY LaterTime
<1>2. /\ G = {GroupOf(A, w) : w \in Starts(A)}
      /\ \A w : /\ GroupOf(A, w).entries = Deduplicate(Part(A, w))
                /\ GroupOf(A, w).severity = Max({s.severity : s \in Part(A, w)})
  BY GroupsOnly
<1>3. B \in SUBSET Signals /\ IsFiniteSet(B)
  BY <1>1, ShiftedPart
<1>4. \A w \in Starts(A) : Part(B, w + d) = Shifted(Part(A, w), d)
  BY ShiftedGroups
<1>5. Starts(B) = {w + d : w \in Starts(A)}
  BY ShiftedGroups
<1> HIDE DEF B
<1>6. /\ H = {GroupOf(B, w) : w \in Starts(B)}
      /\ \A w : /\ GroupOf(B, w).entries = Deduplicate(Part(B, w))
                /\ GroupOf(B, w).severity = Max({s.severity : s \in Part(B, w)})
  BY <1>3, GroupsOnly
<1> HIDE DEF d
<1>7. ASSUME NEW w \in Starts(A)
      PROVE  /\ GroupOf(B, w + d).severity = GroupOf(A, w).severity
             /\ Cardinality(GroupOf(B, w + d).entries) = Cardinality(GroupOf(A, w).entries)
             /\ \A key : Cardinality({e \in GroupOf(B, w + d).entries : SummaryKey(e) = key})
                         = Cardinality({e \in GroupOf(A, w).entries : SummaryKey(e) = key})
             /\ \A key : Cardinality({e \in GroupOf(A, w).entries : SummaryKey(e) = key}) \in Int
             /\ GroupOf(B, w + d) \in H /\ GroupOf(A, w) \in G
             /\ Score(GroupOf(A, w).severity) * Cardinality(GroupOf(A, w).entries) \in Int
  <2> DEFINE P == Part(A, w)
             Q == Part(B, w + d)
  <2>1. P \in SUBSET Signals /\ IsFiniteSet(P) /\ Q = Shifted(P, d)
    BY <1>4, PartType
  <2> HIDE DEF P, Q
  <2>2. {s.severity : s \in Q} = {s.severity : s \in P}
    BY <1>1, <2>1, ShiftedPart
  <2>3. Cardinality(Deduplicate(Q)) = Cardinality(Deduplicate(P))
    BY <1>1, <2>1, ShiftedCount
  <2>4. ASSUME NEW key
        PROVE  /\ Cardinality({e \in Deduplicate(Q) : SummaryKey(e) = key})
                      = Cardinality({e \in Deduplicate(P) : SummaryKey(e) = key})
               /\ Cardinality({e \in Deduplicate(P) : SummaryKey(e) = key}) \in Int
    <3> DEFINE E == {e \in Deduplicate(P) : SummaryKey(e) = key}
    <3>1. Cardinality({e \in Deduplicate(Q) : SummaryKey(e) \in {key}})
              = Cardinality({e \in Deduplicate(P) : SummaryKey(e) \in {key}})
      <4> DEFINE K == {key}
      <4> HIDE DEF K
      <4>1. Cardinality({e \in Deduplicate(Shifted(P, d)) : SummaryKey(e) \in K})
                = Cardinality({e \in Deduplicate(P) : SummaryKey(e) \in K})
        BY <1>1, <2>1, ShiftedEntries
      <4> QED
        BY <2>1, <4>1 DEF K
    <3>2. IsFiniteSet(Deduplicate(P))
      BY <2>1, EntriesOnly
    <3>3. E \in SUBSET Deduplicate(P)
      OBVIOUS
    <3> HIDE DEF E
    <3>4. Cardinality(E) \in Int
      BY <3>2, <3>3, FS_Subset, FS_CardinalityType
    <3>5. /\ {e \in Deduplicate(Q) : SummaryKey(e) \in {key}}
                 = {e \in Deduplicate(Q) : SummaryKey(e) = key}
          /\ {e \in Deduplicate(P) : SummaryKey(e) \in {key}}
                 = {e \in Deduplicate(P) : SummaryKey(e) = key}
      OBVIOUS
    <3> QED
      BY <3>1, <3>4, <3>5 DEF E
  <2>5. /\ GroupOf(B, w + d).entries = Deduplicate(Q) /\ GroupOf(A, w).entries = Deduplicate(P)
        /\ GroupOf(B, w + d).severity = Max({s.severity : s \in Q})
        /\ GroupOf(A, w).severity = Max({s.severity : s \in P})
    BY <1>2, <1>6 DEF P, Q
  <2>6. GroupOf(B, w + d) \in H /\ GroupOf(A, w) \in G
    BY <1>2, <1>5, <1>6
  <2>7. Score(GroupOf(A, w).severity) * Cardinality(GroupOf(A, w).entries) \in Int
    <3>1. /\ GroupOf(A, w).severity \in 0..3
          /\ Cardinality(GroupOf(A, w).entries) \in Nat
      BY GroupSeverity
    <3>2. Score(GroupOf(A, w).severity) \in Int
      BY <3>1, ScoreRange
    <3> QED
      BY <3>1, <3>2
  <2>8. \A key : Cardinality({e \in GroupOf(B, w + d).entries : SummaryKey(e) = key})
                 = Cardinality({e \in GroupOf(A, w).entries : SummaryKey(e) = key})
    BY <2>4, <2>5
  <2>9. \A key : Cardinality({e \in GroupOf(A, w).entries : SummaryKey(e) = key}) \in Int
    BY <2>4, <2>5
  <2> QED
    BY <2>2, <2>3, <2>5, <2>6, <2>7, <2>8, <2>9
<1>8. WeightedSeverity(H) = WeightedSeverity(G)
  <2> DEFINE f == [g \in G |-> Score(g.severity) * Cardinality(g.entries)]
             h == [g \in H |-> Score(g.severity) * Cardinality(g.entries)]
  <2>1. \A w \in Starts(A) :
            f[GroupOf(A, w)] \in Int /\ h[GroupOf(B, w + d)] = f[GroupOf(A, w)]
    BY <1>7
  <2>2. WeightedSeverity(G) = SumFunctionOnSet(f, G) /\ WeightedSeverity(H) = SumFunctionOnSet(h, H)
    BY DEF WeightedSeverity, SumFunction
  <2> HIDE DEF f, h
  <2>3. SumFunctionOnSet(h, H) = SumFunctionOnSet(f, G)
    BY <2>1, ShiftedSum DEF B, d
  <2> QED
    BY <2>2, <2>3
<1>9. ASSUME NEW key
      PROVE  SumFunction([g \in H |-> Cardinality({e \in g.entries : SummaryKey(e) = key})])
                 = SumFunction([g \in G |-> Cardinality({e \in g.entries : SummaryKey(e) = key})])
  <2> DEFINE f == [g \in G |-> Cardinality({e \in g.entries : SummaryKey(e) = key})]
             h == [g \in H |-> Cardinality({e \in g.entries : SummaryKey(e) = key})]
  <2>1. \A w \in Starts(A) :
            f[GroupOf(A, w)] \in Int /\ h[GroupOf(B, w + d)] = f[GroupOf(A, w)]
    BY <1>7
  <2>2. SumFunction(f) = SumFunctionOnSet(f, G) /\ SumFunction(h) = SumFunctionOnSet(h, H)
    BY DEF SumFunction
  <2> HIDE DEF f, h
  <2>3. SumFunctionOnSet(h, H) = SumFunctionOnSet(f, G)
    BY <2>1, ShiftedSum DEF B, d
  <2>4. SumFunction(h) = SumFunction(f)
    BY <2>2, <2>3
  <2> QED
    BY <2>4 DEF f, h
<1> QED
  BY <1>8, <1>9 DEF B, d

\* The report of the same failure any number of windows later.
LEMMA LaterReport ==
    ASSUME CollectedOK, NEW k \in Nat
    PROVE  /\ Fingerprint(Later(k * Window)) = Fingerprint(report)
           /\ Later(k * Window).confidence = report.confidence
<1> DEFINE d == k * Window
           tt == [p \in 1..Providers |->
                     [i \in DOMAIN results[p] |-> [results[p][i] EXCEPT !.ts = @ + d]]]
           r == [query EXCEPT !.since = @ + d, !.until = @ + d]
           h == [s \in Signals |-> Delayed(s, d)]
           A == Accepted(results, query)
           B == Shifted(A, d)
<1>1. k \in Nat /\ d \in Nat
  BY LaterTime
<1>2. results \in [1..Providers -> Seq(Signals)]
  BY DEF CollectedOK
<1>3. r.services = query.services /\ r.since = query.since + d /\ r.until = query.until + d
  <2>1. query = [services |-> query.services, since |-> query.since, until |-> query.until]
    BY DEF CollectedOK
  <2> DEFINE a == query.services
             b == query.since
             c == query.until
  <2> HIDE DEF a, b, c, d
  <2>2. query = [services |-> a, since |-> b, until |-> c]
    BY <2>1 DEF a, b, c
  <2>3. r = [services |-> a, since |-> b + d, until |-> c + d]
    <3>1. query.since = b /\ query.until = c
      BY DEF b, c
    <3>2. r = [query EXCEPT !.since = b + d, !.until = c + d]
      BY <3>1
    <3> DEFINE x == b + d
               y == c + d
               u == [query EXCEPT !.since = x]
    <3> HIDE DEF x, y
    <3>3. [query EXCEPT !.since = x, !.until = y] = [u EXCEPT !.until = y]
      OBVIOUS
    <3>4. u = [services |-> a, since |-> x, until |-> c]
      BY <2>2
    <3> HIDE DEF u
    <3>5. [u EXCEPT !.until = y] = [services |-> a, since |-> x, until |-> y]
      BY <3>4
    <3> QED
      BY <3>2, <3>3, <3>5 DEF x, y
  <2>4. r.services = a /\ r.since = b + d /\ r.until = c + d
    BY <2>3
  <2> QED
    BY <2>4 DEF a, b, c
<1>4. ASSUME NEW p \in 1..Providers
      PROVE  tt[p] \in Seq(Signals) /\ MapsTo(results[p], tt[p], h)
  <2>1. /\ results[p] \in Seq(Signals) /\ DOMAIN results[p] = 1..Len(results[p])
        /\ Len(results[p]) \in Nat
    BY <1>2
  <2>2. tt[p] = [i \in 1..Len(results[p]) |-> Delayed(results[p][i], d)]
    BY <2>1 DEF Delayed
  <2>3. \A i \in 1..Len(results[p]) :
            /\ results[p][i] \in Signals
            /\ Delayed(results[p][i], d) \in Signals
            /\ h[results[p][i]] = Delayed(results[p][i], d)
    <3>1. \A i \in 1..Len(results[p]) : results[p][i] \in Signals
      BY <2>1
    <3> QED
      BY <1>1, <3>1, DelayedSignal
  <2> HIDE DEF tt, h
  <2>4. tt[p] \in Seq(Signals) /\ Len(tt[p]) = Len(results[p])
    BY <2>1, <2>2, <2>3
  <2> QED
    BY <2>2, <2>3, <2>4 DEF MapsTo
<1>5. tt \in [1..Providers -> Seq(Signals)]
  BY <1>4
<1> HIDE DEF tt, r
<1>6. /\ results \in Seq(Seq(Signals)) /\ Len(results) = Providers
      /\ tt \in Seq(Seq(Signals)) /\ Len(tt) = Providers
  BY <1>2, <1>5, ResultsSequence
<1>7. Accepted(tt, r) = B
  <2>1. query.since \in Int /\ query.until \in Int
    BY DEF CollectedOK
  <2>2. \A p \in 1..Len(results) : MapsTo(results[p], tt[p], h)
    BY <1>4, <1>6
  <2> QED
    <3>1. Postponed(results, query, tt, r, d)
      BY <1>3, <1>6, <2>1, <2>2 DEF Postponed
    <3>2. d = k * Window
      OBVIOUS
    <3> HIDE DEF d
    <3>3. Accepted(tt, r) = Shifted(Accepted(results, query), d)
      BY <1>1, <3>1, <3>2, AcceptedShift
    <3> QED
      BY <3>3
<1>8. A \in SUBSET Signals /\ IsFiniteSet(A)
  BY <1>6, AcceptedKeys
<1>9. Later(d) = Report(tt, r)
  BY DEF Later, tt, r
<1>10. /\ report.groups = BuildGroups(A) /\ report.services = query.services
       /\ report.confidence
              = Confidence(BuildGroups(A), Cardinality(A), Cardinality(Sources(A)))
  BY DEF report, Report
<1>11. /\ Later(d).groups = BuildGroups(B) /\ Later(d).services = query.services
       /\ Later(d).confidence
              = Confidence(BuildGroups(B), Cardinality(B), Cardinality(Sources(B)))
  <2> HIDE DEF B
  <2> QED
    BY <1>3, <1>7, <1>9 DEF Report
<1> HIDE DEF A, h
<1>12. /\ B \in SUBSET Signals /\ IsFiniteSet(B)
       /\ Cardinality(B) = Cardinality(A) /\ Sources(B) = Sources(A)
       /\ {SummaryOf(s) : s \in B} = {SummaryOf(s) : s \in A}
  BY <1>1, <1>8, ShiftedPart
<1>13. /\ WeightedSeverity(BuildGroups(B)) = WeightedSeverity(BuildGroups(A))
       /\ \A key :
              SumFunction([g \in BuildGroups(B) |->
                              Cardinality({e \in g.entries : SummaryKey(e) = key})])
              = SumFunction([g \in BuildGroups(A) |->
                                Cardinality({e \in g.entries : SummaryKey(e) = key})])
  BY <1>1, <1>8, ShiftedReport
<1> HIDE DEF B
<1>14. Later(d).confidence = report.confidence
  BY <1>10, <1>11, <1>12, <1>13 DEF Confidence
<1>15. SummaryKeys(Later(d)) = SummaryKeys(report)
  BY <1>8, <1>10, <1>11, <1>12, GroupsCover DEF SummaryKeys
<1>16. Fingerprint(Later(d)) = Fingerprint(report)
  <2> DEFINE K == SummaryKeys(report)
  <2>1. Fingerprint(report) =
          [services |-> query.services,
           summaries |-> [key \in K |-> SumFunction([g \in BuildGroups(A) |->
               Cardinality({e \in g.entries : SummaryKey(e) = key})])]]
    BY <1>10 DEF Fingerprint
  <2>2. Fingerprint(Later(d)) =
          [services |-> query.services,
           summaries |-> [key \in K |-> SumFunction([g \in BuildGroups(B) |->
               Cardinality({e \in g.entries : SummaryKey(e) = key})])]]
    BY <1>11, <1>15 DEF Fingerprint
  <2> HIDE DEF K
  <2> QED
    BY <1>13, <2>1, <2>2
<1> QED
  BY <1>14, <1>16

\* The same failure some windows later has the fingerprint and the confidence
\* of the first, so that saving its analysis counts a recurrence.
THEOREM ShiftKeepsFingerprint == Spec => []ShiftKeepsIdentity
<1>1. ASSUME CollectedOK PROVE ShiftKeepsIdentity
  <2>1. \A k \in 1..2 : k \in Nat
    OBVIOUS
  <2> QED
    BY <1>1, <2>1, LaterReport DEF ShiftKeepsIdentity
<1> QED
  BY <1>1, CollectedInductive, PTL DEF Spec

KeptEveryLater ==
    \A k \in Nat : /\ Fingerprint(Later(k * Window)) = Fingerprint(report)
                   /\ Later(k * Window).confidence = report.confidence

\* However many windows later it is, not only the two that a run tries.
THEOREM EveryShiftKeepsFingerprint == Spec => []KeptEveryLater
<1>1. ASSUME CollectedOK PROVE KeptEveryLater
  BY <1>1, LaterReport DEF KeptEveryLater
<1> QED
  BY <1>1, CollectedInductive, PTL DEF Spec

=============================================================================
