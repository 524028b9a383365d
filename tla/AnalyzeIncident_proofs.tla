----------------------- MODULE AnalyzeIncident_proofs -----------------------
(***************************************************************************)
(* For any number of analyses, providers and retries: the types of         *)
(* AnalyzeIncident, that a report is made of what every provider finally   *)
(* answered, that the metrics account for every attempt, and that the      *)
(* history records every analysis once. The inductive invariant adds the   *)
(* shape of the analyses, which is not a type TypeOK needs, and that only  *)
(* a goroutine that succeeded has left a result.                           *)
(***************************************************************************)
EXTENDS AnalyzeIncident, FoldTheorems

\* What TypeOK says of the control, the results and the queries.
ControlOK ==
    /\ pc \in [Runs -> {"idle", "rejected", "collect", "correlate", "record",
                        "save", "saving", "done"}]
    /\ task \in [Runs -> [P -> {"ready", "calling", "failing", "ok", "failed"}]]
    /\ results \in [Runs -> Answers]
    /\ query \in [Runs -> Queries \cup {Unset}]

\* An analysis is a report and a deployment context.
AnalysisShape ==
    analysis = [r \in Runs |-> [report |-> analysis[r].report,
                               deployments |-> analysis[r].deployments]]

\* Until goroutine p has succeeded, results[p] is empty.
OnlyAnswersCount ==
    \A r \in Runs, p \in P : task[r][p] # "ok" => results[r][p] = <<>>

IInv == ControlOK /\ AnalysisShape /\ OnlyAnswersCount /\ ReportMatchesResults

\* A batch is a sequence, so its length is a number.
LEMMA BatchLength == \A batch \in Batches : Len(batch) \in Nat
  BY BatchesAssumption

\* Deployments go on being gathered in a sequence of deployments.
LEMMA GatheredBatch ==
    ASSUME NEW batch \in DeploymentBatches \cup {<<>>}
    PROVE  batch \in Seq(Deployments)
<1>1. CASE batch = <<>>
  BY <1>1
<1>2. CASE batch \in DeploymentBatches
  <2>1. batch \in Seq(ToSet(batch)) /\ ToSet(batch) \subseteq Deployments
    BY <1>2, BatchesAssumption DEF Deployments
  <2> QED
    BY <2>1
<1> QED
  BY <1>1, <1>2

\* A query is one of the windows that Start may compute.
LEMMA StartedQuery ==
    ASSUME NEW raw \in RawQueries, NEW now \in Clock
    PROVE  Windowed(raw, now) \in Queries
  BY DEF Queries

\* The types hold before the first request.
LEMMA InitTypeOK == Init => TypeOK
  BY CountsAssumption DEF Init, TypeOK, Answers

\* The types of a goroutine's step.
LEMMA TaskTypeOK ==
    ASSUME TypeOK, NEW r \in Runs, NEW p \in P, TaskStep(r, p)
    PROVE  TypeOK'
<1> USE CountsAssumption
<1>1. CASE Call(r, p)
  <2>1. attempts' \in [Runs -> [P -> 0..MaxRetries]]
    BY <1>1 DEF Call, TypeOK
  <2> QED
    BY <1>1, <2>1 DEF Call, TypeOK, TaskGoto, metrics
<1>2. CASE Error(r, p)
  BY <1>2 DEF Error, TypeOK, TaskGoto
<1>3. CASE Retry(r, p)
  BY <1>3 DEF Retry, TypeOK, TaskGoto, metrics
<1>4. CASE GiveUp(r, p)
  BY <1>4 DEF GiveUp, TypeOK, TaskGoto
<1>5. ASSUME NEW batch \in Batches, Answer(r, p, batch) PROVE TypeOK'
  <2>1. results' \in [Runs -> Answers]
    BY <1>5 DEF Answer, TypeOK, Answers
  <2>2. latencies' \in [P -> Nat] /\ collected' \in [P -> Nat]
    BY <1>5, BatchLength DEF Answer, TypeOK
  <2> QED
    BY <1>5, <2>1, <2>2 DEF Answer, TypeOK, TaskGoto
<1> QED
  BY <1>1, <1>2, <1>3, <1>4, <1>5 DEF TaskStep

\* And those of a step of Run itself.
LEMMA RunTypeOK ==
    ASSUME TypeOK, NEW r \in Runs, RunStep(r)
    PROVE  TypeOK'
<1> USE CountsAssumption
<1>1. CASE Join(r)
  BY <1>1 DEF Join, TypeOK, Goto, tasks, metrics
<1>2. ASSUME NEW batch \in DeploymentBatches \cup {<<>>}, FetchDeployments(r, batch)
      PROVE  TypeOK'
  <2>1. gathered[r] \o batch \in Seq(Deployments)
    BY GatheredBatch DEF TypeOK
  <2>2. gathered' \in [Runs -> Seq(Deployments)]
    BY <1>2, <2>1 DEF FetchDeployments, TypeOK
  <2>3. asked' \in [Runs -> 0..DeploymentProviders]
    BY <1>2 DEF FetchDeployments, TypeOK
  <2> QED
    BY <1>2, <2>2, <2>3 DEF FetchDeployments, TypeOK, tasks, metrics
<1>3. CASE CorrelateDeployments(r)
  BY <1>3 DEF CorrelateDeployments, TypeOK, Goto, tasks, metrics
<1>4. CASE RecordAnalysisResult(r)
  BY <1>4 DEF RecordAnalysisResult, TypeOK, Goto, tasks
<1>5. CASE Save(r)
  BY <1>5 DEF Save, TypeOK, Goto, tasks, metrics
<1>6. CASE Return(r)
  BY <1>6 DEF Return, TypeOK, Goto, tasks, metrics
<1> QED
  BY <1>1, <1>2, <1>3, <1>4, <1>5, <1>6 DEF RunStep

\* Every step of an analysis keeps the types.
LEMMA NextTypeOK == TypeOK /\ [Next]_vars => TypeOK'
<1> SUFFICES ASSUME TypeOK, [Next]_vars PROVE TypeOK'
  OBVIOUS
<1>1. ASSUME NEW r \in Runs, NEW raw \in RawQueries, NEW now \in Clock, Start(r, raw, now)
      PROVE  TypeOK'
  <2>1. query' \in [Runs -> Queries \cup {Unset}]
    <3> DEFINE q == Windowed(raw, now)
    <3>1. q \in Queries
      BY StartedQuery
    <3>2. query' = query \/ query' = [query EXCEPT ![r] = q]
      BY <1>1 DEF Start
    <3> HIDE DEF q
    <3> QED
      BY <3>1, <3>2 DEF TypeOK
  <2>2. pc' \in [Runs -> {"idle", "rejected", "collect", "correlate", "record",
                         "save", "saving", "done"}]
    BY <1>1 DEF Start, TypeOK, Goto
  <2> QED
    BY <1>1, <2>1, <2>2 DEF Start, TypeOK, tasks, metrics
<1>2. ASSUME NEW r \in Runs, Cancel(r) PROVE TypeOK'
  BY <1>2 DEF Cancel, TypeOK, tasks, metrics
<1>3. ASSUME NEW r \in Runs, NEW p \in P, TaskStep(r, p) PROVE TypeOK'
  BY <1>3, TaskTypeOK
<1>4. ASSUME NEW r \in Runs, RunStep(r) PROVE TypeOK'
  BY <1>4, RunTypeOK
<1>5. CASE UNCHANGED vars
  BY <1>5 DEF vars, TypeOK, tasks, metrics
<1> QED
  BY <1>1, <1>2, <1>3, <1>4, <1>5 DEF Next

\* Every variable of the analyses keeps its type: in particular no goroutine
\* makes more attempts than providerMaxRetries.
THEOREM TypeCorrect == Spec => []TypeOK
  BY InitTypeOK, NextTypeOK, PTL DEF Spec

\* The control, the results and the queries are among what TypeOK types.
LEMMA TypeOKControl == TypeOK => ControlOK
  BY DEF TypeOK, ControlOK

\* Before the first request there is no result and no report.
LEMMA InitReport == Init => AnalysisShape /\ OnlyAnswersCount /\ ReportMatchesResults
<1> SUFFICES ASSUME Init PROVE AnalysisShape /\ OnlyAnswersCount /\ ReportMatchesResults
  OBVIOUS
<1>1. AnalysisShape
  BY DEF Init, AnalysisShape, NoAnalysis
<1>2. OnlyAnswersCount
  BY DEF Init, OnlyAnswersCount
<1>3. ReportMatchesResults
  BY DEF Init, ReportMatchesResults, Joined
<1> QED
  BY <1>1, <1>2, <1>3

\* A goroutine runs only while its analysis collects, so it can change no
\* result that a report is made of.
LEMMA TaskReport ==
    ASSUME IInv, ControlOK', NEW r \in Runs, NEW p \in P, TaskStep(r, p)
    PROVE  AnalysisShape' /\ OnlyAnswersCount' /\ ReportMatchesResults'
<1>1. pc[r] = "collect" /\ pc' = pc /\ analysis' = analysis /\ query' = query
  BY DEF TaskStep, Call, Error, Retry, GiveUp, Answer, InTask
<1>2. \A s \in Runs \ {r} : task'[s] = task[s] /\ results'[s] = results[s]
  BY DEF TaskStep, Call, Error, Retry, GiveUp, Answer, TaskGoto, IInv, ControlOK
<1>3. AnalysisShape'
  BY <1>1 DEF IInv, AnalysisShape
<1>4. OnlyAnswersCount'
  <2>1. ASSUME NEW batch \in Batches, Answer(r, p, batch) PROVE OnlyAnswersCount'
    BY <2>1 DEF Answer, TaskGoto, IInv, ControlOK, OnlyAnswersCount
  <2>2. CASE Call(r, p)
    BY <2>2 DEF Call, InTask, TaskGoto, IInv, ControlOK, OnlyAnswersCount
  <2>3. CASE Error(r, p)
    BY <2>3 DEF Error, InTask, TaskGoto, IInv, ControlOK, OnlyAnswersCount
  <2>4. CASE Retry(r, p)
    BY <2>4 DEF Retry, InTask, TaskGoto, IInv, ControlOK, OnlyAnswersCount
  <2>5. CASE GiveUp(r, p)
    BY <2>5 DEF GiveUp, InTask, TaskGoto, IInv, ControlOK, OnlyAnswersCount
  <2> QED
    BY <2>1, <2>2, <2>3, <2>4, <2>5 DEF TaskStep
<1>5. ReportMatchesResults'
  BY <1>1, <1>2 DEF IInv, ReportMatchesResults, Joined, Finished
<1> QED
  BY <1>3, <1>4, <1>5

\* Of the steps of Run, Join makes the report when every goroutine is done,
\* and no other touches it.
LEMMA RunReport ==
    ASSUME IInv, NEW r \in Runs, RunStep(r)
    PROVE  AnalysisShape' /\ OnlyAnswersCount' /\ ReportMatchesResults'
<1>1. UNCHANGED <<task, results, query>>
  BY DEF RunStep, Join, FetchDeployments, CorrelateDeployments,
         RecordAnalysisResult, Save, Return, tasks
<1>2. OnlyAnswersCount'
  BY <1>1 DEF IInv, OnlyAnswersCount
<1>3. CASE Join(r)
  <2>1. analysis' = [analysis EXCEPT ![r] =
            [report |-> Report(results[r], query[r]),
             deployments |-> Correlate(Report(results[r], query[r]).groups, <<>>)]]
    BY <1>3 DEF Join, Analysis
  <2>2. AnalysisShape'
    BY <2>1 DEF IInv, AnalysisShape
  <2>3. \A s \in Runs \ {r} : analysis'[s] = analysis[s] /\ pc'[s] = pc[s]
    BY <1>3, <2>1 DEF Join, Goto, IInv, AnalysisShape, ControlOK
  <2>4. analysis'[r].report = Report(results[r], query[r])
    BY <2>1 DEF IInv, AnalysisShape
  <2>5. \A q \in P : Finished(r, q)
    BY <1>3 DEF Join
  <2>6. \A q \in P : task[r][q] = "failed" => results[r][q] = <<>>
    BY DEF IInv, OnlyAnswersCount
  <2>7. ReportMatchesResults'
    BY <1>1, <2>3, <2>4, <2>5, <2>6 DEF IInv, ReportMatchesResults, Finished
  <2> QED
    BY <1>2, <2>2, <2>7
<1>4. ASSUME ~Join(r) PROVE AnalysisShape' /\ ReportMatchesResults'
  <2>1. pc[r] \in Joined
    BY <1>4 DEF RunStep, FetchDeployments, CorrelateDeployments,
                RecordAnalysisResult, Save, Return, Joined
  <2>2. \A s \in Runs \ {r} : pc'[s] = pc[s]
    BY <1>4 DEF RunStep, FetchDeployments, CorrelateDeployments,
                RecordAnalysisResult, Save, Return, Goto, IInv, ControlOK
  <2>3. AnalysisShape' /\ \A s \in Runs : analysis'[s].report = analysis[s].report
    <3>1. CASE CorrelateDeployments(r)
      <4> DEFINE d == Correlate(analysis[r].report.groups, gathered[r])
      <4>1. analysis' = [analysis EXCEPT ![r] =
                [report |-> analysis[r].report, deployments |-> d]]
        BY <3>1 DEF CorrelateDeployments, IInv, AnalysisShape
      <4> HIDE DEF d
      <4> QED
        BY <4>1 DEF IInv, AnalysisShape
    <3>2. CASE analysis' = analysis
      BY <3>2 DEF IInv, AnalysisShape
    <3> QED
      BY <1>4, <3>1, <3>2 DEF RunStep, FetchDeployments,
                RecordAnalysisResult, Save, Return
  <2> QED
    BY <1>1, <2>1, <2>2, <2>3 DEF IInv, ReportMatchesResults, Finished
<1> QED
  BY <1>2, <1>3, <1>4

\* Every step keeps the reports in agreement with the results.
LEMMA NextReport ==
    ASSUME IInv, ControlOK', [Next]_vars
    PROVE  AnalysisShape' /\ OnlyAnswersCount' /\ ReportMatchesResults'
<1>1. ASSUME NEW r \in Runs, NEW raw \in RawQueries, NEW now \in Clock, Start(r, raw, now)
      PROVE  AnalysisShape' /\ OnlyAnswersCount' /\ ReportMatchesResults'
  <2>1. UNCHANGED <<task, results, analysis>> /\ pc[r] = "idle"
    BY <1>1 DEF Start, tasks
  <2> DEFINE q == Windowed(raw, now)
  <2>2. /\ query' = query \/ query' = [query EXCEPT ![r] = q]
        /\ pc' = [pc EXCEPT ![r] = "rejected"] \/ pc' = [pc EXCEPT ![r] = "collect"]
    BY <1>1 DEF Start, Goto
  <2> HIDE DEF q
  <2>3. pc'[r] \notin Joined /\ \A s \in Runs \ {r} : pc'[s] = pc[s] /\ query'[s] = query[s]
    BY <2>2 DEF Joined, IInv, ControlOK
  <2> QED
    BY <2>1, <2>3 DEF IInv, AnalysisShape, OnlyAnswersCount, ReportMatchesResults, Finished
<1>2. ASSUME NEW r \in Runs, Cancel(r)
      PROVE  AnalysisShape' /\ OnlyAnswersCount' /\ ReportMatchesResults'
  BY <1>2 DEF Cancel, tasks, IInv, AnalysisShape, OnlyAnswersCount, ReportMatchesResults, Finished
<1>3. ASSUME NEW r \in Runs, NEW p \in P, TaskStep(r, p)
      PROVE  AnalysisShape' /\ OnlyAnswersCount' /\ ReportMatchesResults'
  BY <1>3, TaskReport
<1>4. ASSUME NEW r \in Runs, RunStep(r)
      PROVE  AnalysisShape' /\ OnlyAnswersCount' /\ ReportMatchesResults'
  BY <1>4, RunReport
<1>5. CASE UNCHANGED vars
  BY <1>5 DEF vars, tasks, IInv, AnalysisShape, OnlyAnswersCount, ReportMatchesResults, Finished
<1> QED
  BY <1>1, <1>2, <1>3, <1>4, <1>5 DEF Next

\* Whatever the providers do, and however their goroutines, the retries and
\* the cancellations interleave, a report is the pipeline's on what each
\* provider finally answered, and stays so until it is returned.
THEOREM ReportsMatchResults == Spec => []ReportMatchesResults
<1>1. Init => TypeOK /\ IInv
  BY InitTypeOK, TypeOKControl, InitReport DEF IInv
<1>2. (TypeOK /\ IInv) /\ [Next]_vars => (TypeOK /\ IInv)'
  <2> SUFFICES ASSUME TypeOK, IInv, [Next]_vars PROVE (TypeOK /\ IInv)'
    OBVIOUS
  <2>1. TypeOK'
    BY NextTypeOK
  <2>2. ControlOK'
    BY <2>1 DEF TypeOK, ControlOK
  <2> QED
    BY <2>1, <2>2, NextReport DEF IInv
<1>3. TypeOK /\ IInv => ReportMatchesResults
  BY DEF IInv
<1> QED
  BY <1>1, <1>2, <1>3, PTL DEF Spec

-----------------------------------------------------------------------------
(* The metrics of the providers.                                           *)

FailedIn(p) == {r \in Runs : task[r][p] = "failed"}

CallingIn(p) == {r \in Runs : task[r][p] = "calling"}

AttemptsIn(p) == [r \in Runs |-> attempts[r][p]]

LengthsIn(p) == [r \in Runs |-> Len(results[r][p])]

\* What MetricsAccount says of one provider.
Accounted(p) ==
    /\ failures[p] = Cardinality(FailedIn(p))
    /\ latencies[p] + Cardinality(CallingIn(p)) = SumFunction(AttemptsIn(p))
    /\ collected[p] = SumFunction(LengthsIn(p))

\* MetricsAccount, provider by provider.
LEMMA MetricsByProvider == MetricsAccount <=> \A p \in P : Accounted(p)
  BY DEF MetricsAccount, Accounted, FailedIn, CallingIn, AttemptsIn, LengthsIn

\* Attempts and lengths of results are numbers.
LEMMA CountsType ==
    ASSUME TypeOK, NEW p \in P
    PROVE  AttemptsIn(p) \in [Runs -> Int] /\ LengthsIn(p) \in [Runs -> Int]
<1>1. ASSUME NEW r \in Runs PROVE attempts[r][p] \in Int /\ Len(results[r][p]) \in Int
  <2>1. attempts[r][p] \in Int
    BY CountsAssumption DEF TypeOK
  <2>2. results[r][p] \in Batches \cup {<<>>}
    BY DEF TypeOK, Answers
  <2>3. Len(results[r][p]) \in Nat
    BY <2>2, BatchLength
  <2> QED
    BY <2>1, <2>3
<1> QED
  BY <1>1 DEF AttemptsIn, LengthsIn

\* Before the first request every count is zero.
LEMMA InitMetrics == Init => \A p \in P : Accounted(p)
<1> SUFFICES ASSUME Init, NEW p \in P PROVE Accounted(p)
  OBVIOUS
<1>1. FailedIn(p) = {} /\ CallingIn(p) = {}
  BY DEF Init, FailedIn, CallingIn
<1>2. \A r \in Runs : AttemptsIn(p)[r] = 0 /\ LengthsIn(p)[r] = 0
  BY DEF Init, AttemptsIn, LengthsIn
<1>3. DOMAIN AttemptsIn(p) = Runs /\ DOMAIN LengthsIn(p) = Runs
  BY DEF AttemptsIn, LengthsIn
<1>4. SumFunction(AttemptsIn(p)) = 0 /\ SumFunction(LengthsIn(p)) = 0
  BY <1>2, <1>3, RunsAssumption, SumOfZeros DEF SumFunction
<1>5. failures[p] = 0 /\ latencies[p] = 0 /\ collected[p] = 0
  BY DEF Init
<1> QED
  BY <1>1, <1>4, <1>5, FS_EmptySet DEF Accounted

\* The counts of a provider change with the state of one goroutine of it.
LEMMA CountsChange ==
    ASSUME TypeOK, TypeOK', NEW p \in P, NEW r \in Runs,
           \A s \in Runs \ {r} : /\ task'[s] = task[s]
                                 /\ attempts'[s] = attempts[s]
                                 /\ results'[s] = results[s]
    PROVE  /\ Cardinality(FailedIn(p)) \in Nat /\ Cardinality(FailedIn(p))' \in Nat
           /\ Cardinality(FailedIn(p))' + (IF task[r][p] = "failed" THEN 1 ELSE 0)
                  = Cardinality(FailedIn(p)) + (IF task'[r][p] = "failed" THEN 1 ELSE 0)
           /\ Cardinality(CallingIn(p)) \in Nat /\ Cardinality(CallingIn(p))' \in Nat
           /\ Cardinality(CallingIn(p))' + (IF task[r][p] = "calling" THEN 1 ELSE 0)
                  = Cardinality(CallingIn(p)) + (IF task'[r][p] = "calling" THEN 1 ELSE 0)
           /\ SumFunction(AttemptsIn(p)) \in Int
           /\ SumFunction(AttemptsIn(p))'
                  = SumFunction(AttemptsIn(p)) - attempts[r][p] + attempts'[r][p]
           /\ SumFunction(LengthsIn(p)) \in Int
           /\ SumFunction(LengthsIn(p))'
                  = SumFunction(LengthsIn(p)) - Len(results[r][p]) + Len(results'[r][p])
<1> USE RunsAssumption
<1>1. /\ FailedIn(p) \in SUBSET Runs /\ FailedIn(p)' \in SUBSET Runs
      /\ \A s \in Runs \ {r} : s \in FailedIn(p) <=> s \in FailedIn(p)'
      /\ r \in FailedIn(p) <=> task[r][p] = "failed"
      /\ r \in FailedIn(p)' <=> task'[r][p] = "failed"
  BY DEF FailedIn
<1>2. /\ CallingIn(p) \in SUBSET Runs /\ CallingIn(p)' \in SUBSET Runs
      /\ \A s \in Runs \ {r} : s \in CallingIn(p) <=> s \in CallingIn(p)'
      /\ r \in CallingIn(p) <=> task[r][p] = "calling"
      /\ r \in CallingIn(p)' <=> task'[r][p] = "calling"
  BY DEF CallingIn
<1>3. /\ AttemptsIn(p) \in [Runs -> Int] /\ LengthsIn(p) \in [Runs -> Int]
      /\ AttemptsIn(p)' \in [Runs -> Int] /\ LengthsIn(p)' \in [Runs -> Int]
  <2>1. ASSUME NEW s \in Runs PROVE attempts'[s][p] \in Int /\ Len(results'[s][p]) \in Int
    <3>1. attempts'[s][p] \in Int
      BY CountsAssumption DEF TypeOK
    <3>2. results'[s][p] \in Batches \cup {<<>>}
      BY DEF TypeOK, Answers
    <3>3. Len(results'[s][p]) \in Nat
      BY <3>2, BatchLength
    <3> QED
      BY <3>1, <3>3
  <2> QED
    BY <2>1, CountsType DEF AttemptsIn, LengthsIn
<1>4. /\ \A s \in Runs \ {r} : AttemptsIn(p)'[s] = AttemptsIn(p)[s]
      /\ AttemptsIn(p)[r] = attempts[r][p] /\ AttemptsIn(p)'[r] = attempts'[r][p]
  BY DEF AttemptsIn
<1>5. /\ \A s \in Runs \ {r} : LengthsIn(p)'[s] = LengthsIn(p)[s]
      /\ LengthsIn(p)[r] = Len(results[r][p]) /\ LengthsIn(p)'[r] = Len(results'[r][p])
  BY DEF LengthsIn
<1>6. /\ Cardinality(FailedIn(p)) \in Nat /\ Cardinality(FailedIn(p)') \in Nat
      /\ Cardinality(FailedIn(p)') + (IF r \in FailedIn(p) THEN 1 ELSE 0)
                  = Cardinality(FailedIn(p)) + (IF r \in FailedIn(p)' THEN 1 ELSE 0)
  BY <1>1, CountChange
<1>7. /\ Cardinality(CallingIn(p)) \in Nat /\ Cardinality(CallingIn(p)') \in Nat
      /\ Cardinality(CallingIn(p)') + (IF r \in CallingIn(p) THEN 1 ELSE 0)
                  = Cardinality(CallingIn(p)) + (IF r \in CallingIn(p)' THEN 1 ELSE 0)
  BY <1>2, CountChange
<1>8. SumFunction(AttemptsIn(p)') = SumFunction(AttemptsIn(p)) - attempts[r][p] + attempts'[r][p]
  BY <1>3, <1>4, SumFunctionUpdate
<1>9. SumFunction(LengthsIn(p)')
          = SumFunction(LengthsIn(p)) - Len(results[r][p]) + Len(results'[r][p])
  <2> DEFINE f == LengthsIn(p)
             g == LengthsIn(p)'
  <2>1. /\ f \in [Runs -> Int] /\ g \in [Runs -> Int]
        /\ \A s \in Runs \ {r} : g[s] = f[s]
    BY <1>3, <1>5
  <2>2. SumFunction(g) = SumFunction(f) - f[r] + g[r]
    <3> HIDE DEF f, g
    <3> QED
      BY <2>1, SumFunctionUpdate
  <2> QED
    BY <2>2, <1>5
<1>10. SumFunction(AttemptsIn(p)) \in Int /\ SumFunction(LengthsIn(p)) \in Int
  BY <1>3, SumType DEF SumFunction
<1> QED
  BY <1>1, <1>2, <1>6, <1>7, <1>8, <1>9, <1>10

\* A goroutine's step accounts for itself in the metrics of its provider and
\* leaves those of the others alone.
LEMMA TaskMetrics ==
    ASSUME TypeOK, TypeOK', OnlyAnswersCount, NEW r \in Runs, NEW p \in P, TaskStep(r, p),
           NEW q \in P, Accounted(q)
    PROVE  Accounted(q)'
<1> DEFINE Local ==
             /\ \A s \in Runs \ {r} : /\ task'[s] = task[s]
                                   /\ attempts'[s] = attempts[s]
                                   /\ results'[s] = results[s]
             /\ q # p =>
                  /\ task'[r][q] = task[r][q]
                  /\ attempts'[r][q] = attempts[r][q]
                  /\ results'[r][q] = results[r][q]
                  /\ failures'[q] = failures[q]
                  /\ latencies'[q] = latencies[q]
                  /\ collected'[q] = collected[q]
<1>1. Local
  <2>1. ASSUME NEW batch \in Batches, Answer(r, p, batch) PROVE Local
    BY <2>1 DEF Answer, TaskGoto, TypeOK
  <2>2. CASE Call(r, p)
    BY <2>2 DEF Call, TaskGoto, TypeOK, metrics
  <2>3. CASE Error(r, p)
    BY <2>3 DEF Error, TaskGoto, TypeOK
  <2>4. CASE Retry(r, p)
    BY <2>4 DEF Retry, TaskGoto, TypeOK, metrics
  <2>5. CASE GiveUp(r, p)
    BY <2>5 DEF GiveUp, TaskGoto, TypeOK
  <2> QED
    BY <2>1, <2>2, <2>3, <2>4, <2>5 DEF TaskStep
<1> DEFINE F == Cardinality(FailedIn(q))
           C == Cardinality(CallingIn(q))
           A == SumFunction(AttemptsIn(q))
           L == SumFunction(LengthsIn(q))
<1>2. /\ F \in Nat /\ F' \in Nat /\ C \in Nat /\ C' \in Nat /\ A \in Int /\ L \in Int
      /\ F' + (IF task[r][q] = "failed" THEN 1 ELSE 0)
            = F + (IF task'[r][q] = "failed" THEN 1 ELSE 0)
      /\ C' + (IF task[r][q] = "calling" THEN 1 ELSE 0)
            = C + (IF task'[r][q] = "calling" THEN 1 ELSE 0)
      /\ A' = A - attempts[r][q] + attempts'[r][q]
      /\ L' = L - Len(results[r][q]) + Len(results'[r][q])
  BY <1>1, CountsChange
<1>3. /\ attempts[r][q] \in Nat /\ failures[q] \in Nat
      /\ latencies[q] \in Nat /\ collected[q] \in Nat
      /\ Len(results[r][q]) \in Nat
  <2>1. results[r][q] \in Batches \cup {<<>>}
    BY DEF TypeOK, Answers
  <2>2. Len(results[r][q]) \in Nat
    BY <2>1, BatchLength
  <2> QED
    BY <2>2, CountsAssumption DEF TypeOK
<1>4. /\ attempts'[r][q] = attempts[r][q] => A' = A
      /\ attempts'[r][q] = attempts[r][q] + 1 => A' = A + 1
      /\ results'[r][q] = results[r][q] => L' = L
      /\ Len(results[r][q]) = 0 => L' = L + Len(results'[r][q])
  <2>1. \A i \in Int, j \in Int : i - j + j = i /\ i - j + (j + 1) = i + 1 /\ i - 0 + j = i + j
    OBVIOUS
  <2>2. results'[r][q] \in Batches \cup {<<>>}
    BY DEF TypeOK, Answers
  <2>3. Len(results'[r][q]) \in Nat
    BY <2>2, BatchLength
  <2>4. attempts'[r][q] = attempts[r][q] => A' = A
    BY <1>2, <1>3, <2>1
  <2>5. attempts'[r][q] = attempts[r][q] + 1 => A' = A + 1
    BY SMTT(30), <1>2, <1>3, <2>1
  <2>6. results'[r][q] = results[r][q] => L' = L
    BY <1>2, <1>3, <2>1
  <2>7. Len(results[r][q]) = 0 => L' = L + Len(results'[r][q])
    BY <1>2, <1>3, <2>1, <2>3
  <2> QED
    BY <2>4, <2>5, <2>6, <2>7
<1>5. failures[q] = F /\ latencies[q] + C = A /\ collected[q] = L
  BY DEF Accounted
<1>6. /\ task[r][q] # "failed" /\ task'[r][q] = "failed" => F' = F + 1
      /\ task[r][q] # "failed" /\ task'[r][q] # "failed" => F' = F
      /\ task[r][q] # "calling" /\ task'[r][q] = "calling" => C' = C + 1
      /\ task[r][q] # "calling" /\ task'[r][q] # "calling" => C' = C
  BY <1>2
<1>7. /\ task[r][q] = "calling" /\ task'[r][q] # "calling"
      /\ latencies'[q] = latencies[q] + 1 /\ attempts'[r][q] = attempts[r][q]
      => latencies'[q] + C' = A'
  <2> SUFFICES ASSUME task[r][q] = "calling", task'[r][q] # "calling",
                      latencies'[q] = latencies[q] + 1, attempts'[r][q] = attempts[r][q]
               PROVE  latencies'[q] + C' = A'
    OBVIOUS
  <2>1. C' = C - 1
    BY <1>2
  <2>2. \A i, j \in Int : (i + 1) + (j - 1) = i + j
    OBVIOUS
  <2>3. latencies[q] \in Int /\ C \in Int
    BY <1>2, <1>3
  <2>4. (latencies[q] + 1) + (C - 1) = latencies[q] + C
    BY <2>2, <2>3
  <2> QED
    BY <1>4, <1>5, <2>1, <2>4
<1>8. SUFFICES failures'[q] = F' /\ latencies'[q] + C' = A' /\ collected'[q] = L'
  BY DEF Accounted
<1>9. CASE q # p
  BY SMTT(30), <1>1, <1>2, <1>3, <1>4, <1>5, <1>9
<1>10. CASE q = p
  <2> USE <1>10
  <2>1. CASE Call(r, p)
    <3>1. /\ task[r][q] = "ready" /\ task'[r][q] = "calling"
          /\ attempts'[r][q] = attempts[r][q] + 1 /\ results' = results
          /\ failures' = failures /\ latencies' = latencies /\ collected' = collected
      BY <2>1 DEF Call, InTask, TaskGoto, TypeOK, metrics
    <3>2. C' = C + 1 /\ A' = A + 1 /\ F' = F /\ L' = L
      BY <1>4, <1>6, <3>1
    <3>3. \A i, j \in Int : i + (j + 1) = (i + j) + 1
      OBVIOUS
    <3>4. latencies[q] + (C + 1) = A + 1
      BY <1>2, <1>3, <1>5, <3>3
    <3> QED
      BY <1>5, <3>1, <3>2, <3>4
  <2>2. CASE Error(r, p)
    <3>1. /\ task[r][q] = "calling" /\ task'[r][q] = "failing"
          /\ attempts' = attempts /\ results' = results
          /\ failures' = failures /\ latencies'[q] = latencies[q] + 1 /\ collected' = collected
      BY <2>2 DEF Error, InTask, TaskGoto, TypeOK
    <3> QED
      BY <1>2, <1>3, <1>4, <1>5, <1>6, <1>7, <3>1
  <2>3. CASE Retry(r, p)
    <3>1. /\ task[r][q] = "failing" /\ task'[r][q] = "ready"
          /\ attempts' = attempts /\ results' = results
          /\ failures' = failures /\ latencies' = latencies /\ collected' = collected
      BY <2>3 DEF Retry, InTask, TaskGoto, TypeOK, metrics
    <3> QED
      BY <1>2, <1>3, <1>4, <1>5, <1>6, <1>7, <3>1
  <2>4. CASE GiveUp(r, p)
    <3>1. /\ task[r][q] \in {"ready", "failing"} /\ task'[r][q] = "failed"
          /\ attempts' = attempts /\ results' = results
          /\ failures'[q] = failures[q] + 1 /\ latencies' = latencies /\ collected' = collected
      BY <2>4 DEF GiveUp, InTask, TaskGoto, TypeOK
    <3> QED
      BY <1>2, <1>3, <1>4, <1>5, <1>6, <1>7, <3>1
  <2>5. ASSUME NEW batch \in Batches, Answer(r, p, batch)
        PROVE  failures'[q] = F' /\ latencies'[q] + C' = A' /\ collected'[q] = L'
    <3>1. /\ task[r][q] = "calling" /\ task'[r][q] = "ok"
          /\ attempts' = attempts /\ results'[r][q] = batch
          /\ failures' = failures /\ latencies'[q] = latencies[q] + 1
          /\ collected'[q] = collected[q] + Len(batch)
      BY <2>5 DEF Answer, InTask, TaskGoto, TypeOK, Answers
    <3>2. results[r][q] = <<>>
      BY <3>1 DEF OnlyAnswersCount
    <3>3. Len(results[r][q]) = 0 /\ Len(results'[r][q]) = Len(batch) /\ Len(batch) \in Nat
      BY <3>1, <3>2, BatchLength
    <3> QED
      BY <1>2, <1>3, <1>4, <1>5, <1>6, <1>7, <3>1, <3>3
  <2> QED
    BY <2>1, <2>2, <2>3, <2>4, <2>5 DEF TaskStep
<1> QED
  BY <1>9, <1>10

\* Every step keeps the accounts.
LEMMA NextMetrics ==
    ASSUME TypeOK, TypeOK', OnlyAnswersCount, [Next]_vars, NEW q \in P, Accounted(q)
    PROVE  Accounted(q)'
<1>1. ASSUME UNCHANGED <<tasks, latencies, failures, collected>> PROVE Accounted(q)'
  <2>1. /\ AttemptsIn(q)' = AttemptsIn(q) /\ LengthsIn(q)' = LengthsIn(q)
        /\ FailedIn(q)' = FailedIn(q) /\ CallingIn(q)' = CallingIn(q)
    BY <1>1 DEF tasks, AttemptsIn, LengthsIn, FailedIn, CallingIn
  <2> QED
    BY <1>1, <2>1 DEF Accounted
<1>2. ASSUME NEW r \in Runs, NEW raw \in RawQueries, NEW now \in Clock, Start(r, raw, now)
      PROVE  Accounted(q)'
  BY <1>1, <1>2 DEF Start, metrics
<1>3. ASSUME NEW r \in Runs, Cancel(r) PROVE Accounted(q)'
  BY <1>1, <1>3 DEF Cancel, metrics
<1>4. ASSUME NEW r \in Runs, NEW p \in P, TaskStep(r, p) PROVE Accounted(q)'
  BY <1>4, TaskMetrics
<1>5. ASSUME NEW r \in Runs, RunStep(r) PROVE Accounted(q)'
  BY <1>1, <1>5 DEF RunStep, Join, FetchDeployments, CorrelateDeployments,
                    RecordAnalysisResult, Save, Return, metrics
<1>6. CASE UNCHANGED vars
  BY <1>1, <1>6 DEF vars, metrics
<1> QED
  BY <1>2, <1>3, <1>4, <1>5, <1>6 DEF Next

\* Whatever the interleaving of the analyses, the retries and the
\* cancellations, the metrics of a provider tell what happened: one failure
\* for each goroutine given up, one latency for each attempt that ended, the
\* signals of the attempts that succeeded.
THEOREM MetricsAccountForAttempts == Spec => []MetricsAccount
<1>1. Init => IInv /\ TypeOK /\ MetricsAccount
  BY InitTypeOK, TypeOKControl, InitReport, InitMetrics, MetricsByProvider DEF IInv
<1>2. (IInv /\ TypeOK /\ MetricsAccount) /\ [Next]_vars => (IInv /\ TypeOK /\ MetricsAccount)'
  <2> SUFFICES ASSUME IInv, TypeOK, MetricsAccount, [Next]_vars
               PROVE  (IInv /\ TypeOK /\ MetricsAccount)'
    OBVIOUS
  <2>1. TypeOK'
    BY NextTypeOK
  <2>2. ControlOK'
    BY <2>1 DEF TypeOK, ControlOK
  <2>3. IInv'
    BY <2>2, NextReport DEF IInv
  <2>4. \A q \in P : Accounted(q)'
    BY <2>1, NextMetrics, MetricsByProvider DEF IInv
  <2>5. MetricsAccount'
    BY <2>4 DEF MetricsAccount, Accounted, FailedIn, CallingIn, AttemptsIn, LengthsIn
  <2> QED
    BY <2>1, <2>3, <2>5
<1> QED
  BY <1>1, <1>2, PTL DEF Spec

-----------------------------------------------------------------------------
(* The history.                                                            *)

\* What an analysis is filed under.
FingerprintOf(r) == Fingerprint(analysis[r].report)

Returned(fp) == {r \in Runs : pc[r] = "done" /\ FingerprintOf(r) = fp}

\* An analysis waits for the repository exactly while it is saving, and what
\* it asked is to save itself.
RequestsMatch ==
    /\ request = [r \in Runs |-> request[r]]
    /\ \A r \in Runs :
           request[r] = IF pc[r] = "saving"
                        THEN [op |-> "Save", fingerprint |-> FingerprintOf(r),
                              analysis |-> analysis[r]]
                        ELSE Store!NoRequest

\* An entry of the store is an analysis and a count.
EntryShape ==
    stored = [fp \in DOMAIN stored |-> [analysis   |-> stored[fp].analysis,
                                        recurrence |-> stored[fp].recurrence]]

\* RecordedExactlyOnce, with its sets named.
Recorded ==
    /\ \A r \in Runs : pc[r] = "done" => FingerprintOf(r) \in DOMAIN stored
    /\ \A fp \in DOMAIN stored :
           /\ stored[fp].recurrence = Cardinality(Returned(fp))
           /\ \E r \in Returned(fp) : stored[fp].analysis = analysis[r]

StoreInv == RequestsMatch /\ EntryShape /\ Recorded

\* It is the invariant the runs check.
LEMMA RecordedNamed == Recorded => RecordedExactlyOnce
  BY DEF Recorded, RecordedExactlyOnce, Returned, FingerprintOf

\* Before the first request nothing is stored and nobody waits.
LEMMA InitStore == Init => StoreInv
<1> SUFFICES ASSUME Init PROVE StoreInv
  OBVIOUS
<1>1. RequestsMatch
  BY DEF Init, Store!Init, RequestsMatch
<1>2. DOMAIN stored = {} /\ EntryShape
  BY DEF Init, Store!Init, EntryShape
<1>3. Recorded
  BY <1>2 DEF Init, Recorded
<1> QED
  BY <1>1, <1>2, <1>3 DEF StoreInv

\* A step that lets nobody return, and changes the analysis of nobody who is
\* saving or has returned, keeps the history as it was.
LEMMA HistoryKept ==
    ASSUME StoreInv, stored' = stored,
           \A s \in Runs : pc'[s] = "done" <=> pc[s] = "done",
           \A s \in Runs : pc[s] = "done" => analysis'[s] = analysis[s]
    PROVE  EntryShape' /\ Recorded'
<1>1. \A s \in Runs : pc[s] = "done" => FingerprintOf(s)' = FingerprintOf(s)
  BY DEF FingerprintOf
<1>2. \A fp : Returned(fp)' = Returned(fp)
  BY <1>1 DEF Returned
<1>3. \A fp : \A s \in Returned(fp) : analysis'[s] = analysis[s]
  BY DEF Returned
<1>4. Recorded'
  <2>1. ASSUME NEW s \in Runs, pc'[s] = "done" PROVE FingerprintOf(s)' \in DOMAIN stored'
    BY <2>1, <1>1 DEF StoreInv, Recorded
  <2>2. ASSUME NEW fp \in DOMAIN stored'
        PROVE  /\ stored'[fp].recurrence = Cardinality(Returned(fp)')
               /\ \E s \in Returned(fp)' : stored'[fp].analysis = analysis'[s]
    BY <2>2, <1>2, <1>3 DEF StoreInv, Recorded
  <2> QED
    BY <2>1, <2>2 DEF Recorded
<1> QED
  BY <1>4 DEF StoreInv, EntryShape

\* The repository serves one save: one more recurrence of a known fingerprint,
\* or a first entry.
LEMMA ReturnStore ==
    ASSUME ControlOK, ControlOK', StoreInv, NEW r \in Runs, Return(r)
    PROVE  StoreInv'
<1>0. PICK fp0 : fp0 = FingerprintOf(r)
  OBVIOUS
<1>1. /\ pc[r] = "saving" /\ pc'[r] = "done" /\ analysis' = analysis
      /\ \A s \in Runs \ {r} : pc'[s] = pc[s]
  BY DEF Return, Goto, ControlOK
<1>2. request[r] = [op |-> "Save", fingerprint |-> fp0, analysis |-> analysis[r]]
  BY <1>0, <1>1 DEF StoreInv, RequestsMatch
<1>3. RequestsMatch'
  <2>1. request' = [request EXCEPT ![r] = Store!NoRequest]
    BY DEF Return, Store!ServeSave
  <2>2. request' = [s \in Runs |-> request'[s]]
    BY <2>1 DEF StoreInv, RequestsMatch
  <2>3. request'[r] = Store!NoRequest /\ \A s \in Runs \ {r} : request'[s] = request[s]
    BY <2>1 DEF StoreInv, RequestsMatch
  <2>4. \A s \in Runs : FingerprintOf(s)' = FingerprintOf(s)
    BY <1>1 DEF FingerprintOf
  <2> QED
    BY <1>1, <2>2, <2>3, <2>4 DEF StoreInv, RequestsMatch
<1> DEFINE kept == IF fp0 \in DOMAIN stored
                   THEN [analysis   |-> stored[fp0].analysis,
                         recurrence |-> stored[fp0].recurrence + 1]
                   ELSE [analysis |-> analysis[r], recurrence |-> 1]
<1>4. stored' = [fp \in DOMAIN stored \cup {fp0} |-> IF fp = fp0 THEN kept ELSE stored[fp]]
  <2>1. stored' = Store!Put(stored, fp0, Store!AfterSave(request[r]))
    BY <1>2 DEF Return, Store!ServeSave
  <2>2. Store!AfterSave(request[r]) = kept
    BY <1>2 DEF Store!AfterSave, StoreInv, EntryShape
  <2> QED
    BY <2>1, <2>2 DEF Store!Put
<1>5. /\ DOMAIN stored' = DOMAIN stored \cup {fp0} /\ stored'[fp0] = kept
      /\ \A fp \in DOMAIN stored \ {fp0} : stored'[fp] = stored[fp]
  BY <1>4
<1>6. EntryShape'
  <2>1. \A fp \in DOMAIN stored :
            stored[fp] = [analysis |-> stored[fp].analysis, recurrence |-> stored[fp].recurrence]
    BY DEF StoreInv, EntryShape
  <2>2. kept = [analysis |-> kept.analysis, recurrence |-> kept.recurrence]
    OBVIOUS
  <2> HIDE DEF kept
  <2>3. \A fp \in DOMAIN stored' :
            stored'[fp] = [analysis |-> stored'[fp].analysis, recurrence |-> stored'[fp].recurrence]
    BY <1>5, <2>1, <2>2
  <2>4. stored' = [fp \in DOMAIN stored' |-> stored'[fp]]
    BY <1>4
  <2> QED
    BY <2>3, <2>4 DEF EntryShape
<1>7. /\ \A fp : fp # fp0 => Returned(fp)' = Returned(fp)
      /\ Returned(fp0)' = Returned(fp0) \cup {r} /\ r \notin Returned(fp0)
  BY <1>0, <1>1 DEF Returned, FingerprintOf
<1>8. \A fp : Cardinality(Returned(fp)) \in Nat /\ IsFiniteSet(Returned(fp))
  <2>1. \A fp : Returned(fp) \in SUBSET Runs
    BY DEF Returned
  <2> QED
    BY <2>1, RunsAssumption, FS_Subset, FS_CardinalityType
<1>9. Cardinality(Returned(fp0)') = Cardinality(Returned(fp0)) + 1
  BY <1>7, <1>8, FS_AddElement
<1>10. kept.recurrence = Cardinality(Returned(fp0)')
  <2>1. CASE fp0 \in DOMAIN stored
    BY <1>9, <2>1 DEF StoreInv, Recorded
  <2>2. CASE fp0 \notin DOMAIN stored
    <3>1. Returned(fp0) = {}
      BY <2>2 DEF StoreInv, Recorded, Returned
    <3>2. Cardinality(Returned(fp0)) = 0
      BY <3>1, FS_EmptySet
    <3> QED
      BY <1>9, <2>2, <3>2
  <2> QED
    BY <2>1, <2>2
<1>11. \E s \in Returned(fp0)' : kept.analysis = analysis'[s]
  <2>1. CASE fp0 \in DOMAIN stored
    BY <1>1, <1>7, <2>1 DEF StoreInv, Recorded
  <2>2. CASE fp0 \notin DOMAIN stored
    BY <1>1, <1>7, <2>2
  <2> QED
    BY <2>1, <2>2
<1> HIDE DEF kept
<1>12. Recorded'
  <2>1. ASSUME NEW s \in Runs, pc'[s] = "done" PROVE FingerprintOf(s)' \in DOMAIN stored'
    <3>1. FingerprintOf(s)' = FingerprintOf(s)
      BY <1>1 DEF FingerprintOf
    <3>2. CASE s = r
      BY <1>0, <1>5, <3>1, <3>2
    <3>3. CASE s # r
      BY <1>1, <1>5, <2>1, <3>1, <3>3 DEF StoreInv, Recorded
    <3> QED
      BY <3>2, <3>3
  <2>2. ASSUME NEW fp \in DOMAIN stored'
        PROVE  /\ stored'[fp].recurrence = Cardinality(Returned(fp)')
               /\ \E s \in Returned(fp)' : stored'[fp].analysis = analysis'[s]
    <3>1. CASE fp = fp0
      BY <1>5, <1>10, <1>11, <3>1
    <3>2. CASE fp # fp0
      BY <1>1, <1>5, <1>7, <2>2, <3>2 DEF StoreInv, Recorded
    <3> QED
      BY <3>1, <3>2
  <2> QED
    BY <2>1, <2>2 DEF Recorded
<1> QED
  BY <1>3, <1>6, <1>12 DEF StoreInv

\* Every step keeps the history.
LEMMA NextStore ==
    ASSUME ControlOK, ControlOK', StoreInv, [Next]_vars
    PROVE  StoreInv'
<1>1. ASSUME UNCHANGED <<request, stored>>,
             \A s \in Runs : pc'[s] # pc[s] => {pc[s], pc'[s]} \cap {"saving", "done"} = {},
             \A s \in Runs : pc[s] \in {"saving", "done"} => analysis'[s] = analysis[s]
      PROVE  StoreInv'
  <2>1. EntryShape' /\ Recorded'
    <3>1. \A s \in Runs : pc'[s] = "done" <=> pc[s] = "done"
      BY <1>1
    <3>2. \A s \in Runs : pc[s] = "done" => analysis'[s] = analysis[s]
      BY <1>1
    <3> QED
      BY <1>1, <3>1, <3>2, HistoryKept
  <2>2. \A s \in Runs : /\ pc'[s] = "saving" <=> pc[s] = "saving"
                        /\ pc[s] = "saving" => FingerprintOf(s)' = FingerprintOf(s)
    BY <1>1 DEF FingerprintOf
  <2>3. RequestsMatch'
    BY <1>1, <2>2 DEF StoreInv, RequestsMatch
  <2> QED
    BY <2>1, <2>3 DEF StoreInv
<1>2. ASSUME NEW r \in Runs, NEW raw \in RawQueries, NEW now \in Clock, Start(r, raw, now)
      PROVE  StoreInv'
  <2>1. /\ UNCHANGED <<request, stored, analysis>> /\ pc[r] = "idle"
        /\ pc' = [pc EXCEPT ![r] = "rejected"] \/ pc' = [pc EXCEPT ![r] = "collect"]
    BY <1>2 DEF Start, Goto, store
  <2> QED
    BY <1>1, <2>1 DEF ControlOK
<1>3. ASSUME NEW r \in Runs, Cancel(r) PROVE StoreInv'
  BY <1>1, <1>3 DEF Cancel, store
<1>4. ASSUME NEW r \in Runs, NEW p \in P, TaskStep(r, p) PROVE StoreInv'
  BY <1>1, <1>4 DEF TaskStep, Call, Error, Retry, GiveUp, Answer, store
<1>5. ASSUME NEW r \in Runs, RunStep(r) PROVE StoreInv'
  <2>1. ASSUME NEW batch \in DeploymentBatches \cup {<<>>}, FetchDeployments(r, batch)
        PROVE  StoreInv'
    BY <1>1, <2>1 DEF FetchDeployments, store
  <2>2. CASE Join(r)
    <3>1. /\ UNCHANGED <<request, stored>> /\ pc[r] = "collect"
          /\ pc' = [pc EXCEPT ![r] = "correlate"] \/ pc' = [pc EXCEPT ![r] = "record"]
      BY <2>2 DEF Join, Goto, store
    <3>2. \A s \in Runs \ {r} : analysis'[s] = analysis[s]
      BY <2>2 DEF Join
    <3> QED
      BY <1>1, <3>1, <3>2 DEF ControlOK
  <2>3. CASE CorrelateDeployments(r)
    <3>1. /\ UNCHANGED <<request, stored>> /\ pc[r] = "correlate"
          /\ pc' = [pc EXCEPT ![r] = "record"]
      BY <2>3 DEF CorrelateDeployments, Goto, store
    <3>2. \A s \in Runs \ {r} : analysis'[s] = analysis[s]
      BY <2>3 DEF CorrelateDeployments
    <3> QED
      BY <1>1, <3>1, <3>2 DEF ControlOK
  <2>4. CASE RecordAnalysisResult(r)
    <3>1. /\ UNCHANGED <<request, stored, analysis>> /\ pc[r] = "record"
          /\ pc' = [pc EXCEPT ![r] = "save"]
      BY <2>4 DEF RecordAnalysisResult, Goto, store
    <3> QED
      BY <1>1, <3>1 DEF ControlOK
  <2>5. CASE Save(r)
    <3>1. /\ pc[r] = "save" /\ pc' = [pc EXCEPT ![r] = "saving"] /\ UNCHANGED <<analysis, stored>>
          /\ request' = [request EXCEPT ![r] =
                 [op |-> "Save", fingerprint |-> FingerprintOf(r), analysis |-> analysis[r]]]
      BY <2>5 DEF Save, Goto, Store!Invoke, FingerprintOf
    <3>2. /\ pc'[r] = "saving" /\ \A s \in Runs \ {r} : pc'[s] = pc[s]
          /\ \A s \in Runs : FingerprintOf(s)' = FingerprintOf(s)
      BY <3>1 DEF ControlOK, FingerprintOf
    <3>3. RequestsMatch'
      <4>1. request' = [s \in Runs |-> request'[s]]
        BY <3>1 DEF StoreInv, RequestsMatch
      <4>2. request'[r] = [op |-> "Save", fingerprint |-> FingerprintOf(r), analysis |-> analysis[r]]
        BY <3>1 DEF StoreInv, RequestsMatch
      <4>3. \A s \in Runs \ {r} : request'[s] = request[s]
        BY <3>1 DEF StoreInv, RequestsMatch
      <4> QED
        BY <3>1, <3>2, <4>1, <4>2, <4>3 DEF StoreInv, RequestsMatch
    <3>4. EntryShape' /\ Recorded'
      BY <3>1, <3>2, HistoryKept
    <3> QED
      BY <3>3, <3>4 DEF StoreInv
  <2>6. CASE Return(r)
    BY <2>6, ReturnStore
  <2> QED
    BY <1>5, <2>1, <2>2, <2>3, <2>4, <2>5, <2>6 DEF RunStep
<1>6. CASE UNCHANGED vars
  BY <1>1, <1>6 DEF vars, store
<1> QED
  BY <1>2, <1>3, <1>4, <1>5, <1>6 DEF Next

\* Every analysis that returned is in the history exactly once, however many of
\* them end at the same moment: the recurrences of an incident are the
\* analyses that returned with its fingerprint, and the analysis kept is that
\* of one of them.
THEOREM EveryAnalysisRecordedOnce == Spec => []RecordedExactlyOnce
<1>1. Init => ControlOK /\ TypeOK /\ StoreInv
  BY InitTypeOK, TypeOKControl, InitStore
<1>2. (ControlOK /\ TypeOK /\ StoreInv) /\ [Next]_vars => (ControlOK /\ TypeOK /\ StoreInv)'
  <2> SUFFICES ASSUME ControlOK, TypeOK, StoreInv, [Next]_vars
               PROVE  (ControlOK /\ TypeOK /\ StoreInv)'
    OBVIOUS
  <2>1. TypeOK'
    BY NextTypeOK
  <2>2. ControlOK'
    BY <2>1 DEF TypeOK, ControlOK
  <2> QED
    BY <2>1, <2>2, NextStore
<1>3. ControlOK /\ TypeOK /\ StoreInv => RecordedExactlyOnce
  BY RecordedNamed DEF StoreInv
<1> QED
  BY <1>1, <1>2, <1>3, PTL DEF Spec

=============================================================================
