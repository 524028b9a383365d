---------------------------- MODULE Server_proofs ----------------------------
(***************************************************************************)
(* Proofs about Server, for any requests, configurations and deployments:  *)
(* its types, that a clean exit answers all, that providers are configured,*)
(* that log lines and counters account for the requests, and that          *)
(* get_recent_deployments shows the newest deployments.                    *)
(*                                                                         *)
(* The inductive invariant adds to these the shape of the requests, that a *)
(* process that serves has found its configuration valid, and that nothing *)
(* is counted before it is known.                                          *)
(***************************************************************************)
EXTENDS Server, FiniteSetTheorems, SequenceTheorems, TLAPS

Fields == {"step", "ask", "status", "outcome", "panicked", "at", "served",
           "found", "shown"}

\* Requests are records, of questions that may be asked or none.
Shape ==
    /\ requests = [r \in Requests |-> requests[r]]
    /\ \A r \in Requests :
           /\ requests[r] = [f \in Fields |-> requests[r][f]]
           /\ requests[r].ask \in Asks \cup {NoRequest.ask}

\* A request that is open was accepted, and has an outcome when it is handled.
OutcomeKnown ==
    \A r \in Requests :
        /\ requests[r].step \in OpenSteps => requests[r].ask \in Asks
        /\ requests[r].step \in {"new", "reading", "handling"} =>
               requests[r].outcome = "none" /\ ~requests[r].panicked
        /\ requests[r].step \in {"handled", "counted", "done"} =>
               requests[r].ask \in Asks /\ requests[r].status \in Statuses

ServesValid == phase \in {"serving", "draining"} => Valid(config)

NoneCut == phase # "exited" => \A r \in Requests : requests[r].step # "cut"

Inv ==
    /\ TypeOK /\ Shape /\ OutcomeKnown
    /\ ServesValid /\ NoneCut /\ CleanExitAnswersAll

\* Steps of one request that leave the process alone.
RequestNext(r) ==
    \/ Accept(r) \/ ReadBody(r) \/ RejectBody(r) \/ Progress(r) \/ Panic(r)

\* How far it takes the request, and what it counts: nothing, a tool call on the
\* way to the response,
Answers(r, new) ==
    /\ requests[r].step \in {"new", "reading", "handling"}
    /\ new.step \in {"reading", "handling", "handled"}
    /\ new.step = "handled" => new.status \in Statuses
    /\ UNCHANGED <<logged, counted>>
    /\ \/ called' = called /\ (new.outcome \notin {"ok", "error"} \/ new.ask.tool \notin Tools)
       \/ /\ new.ask.tool \in Tools /\ new.outcome \in {"ok", "error"}
          /\ called' = [called EXCEPT ![<<new.ask.tool, new.outcome>>] = @ + 1]

SameAnswer(old, new) ==
    /\ new.ask = old.ask /\ new.status = old.status
    /\ new.outcome = old.outcome /\ new.panicked = old.panicked

\* or the request on the way back through the middleware.
Unwinds(r, new) ==
    /\ SameAnswer(requests[r], new)
    /\ UNCHANGED called
    /\ \/ /\ requests[r].step = "handled" /\ new.step = "counted"
          /\ counted' = IF ~requests[r].panicked /\ ~requests[r].ask.scrape
                        THEN [counted EXCEPT ![Key(r)] = @ + 1] ELSE counted
          /\ logged' = logged
       \/ /\ requests[r].step = "counted" /\ new.step = "done"
          /\ logged' = IF ~requests[r].panicked
                       THEN [logged EXCEPT ![Key(r)] = @ + 1] ELSE logged
          /\ counted' = counted

Takes(r, new) == Answers(r, new) \/ Unwinds(r, new)

\* What such a step does: this request alone changes, and it stays well formed.
Touches(r) ==
    /\ phase \in {"serving", "draining"}
    /\ UNCHANGED <<config, phase, exit>>
    /\ \E new :
           /\ requests' = [requests EXCEPT ![r] = new]
           /\ new = [f \in Fields |-> new[f]]
           /\ new.step \in Steps \ {"cut"}
           /\ new.ask \in Asks
           /\ new.status \in Statuses \cup {0}
           /\ new.panicked \in BOOLEAN
           /\ new.step \in {"new", "reading", "handling"} =>
                  new.outcome = "none" /\ ~new.panicked
           /\ Takes(r, new)

\* Whatever a handler makes of a request has a status.
LEMMA OutcomeHasStatus ==
    ASSUME NEW route \in Routes, NEW outcome \in Outcomes[route] \cup {"invalid", "ok", "error"}
    PROVE  StatusOf(route, outcome) \in Statuses
<1>1. outcome \in {"ok", "invalid", "error", "missing", "method"}
  BY DEF Routes, Outcomes, HandleAnalyze, HandleFindSimilar, HandleTrends, HandleDependencies,
         HandleCausalHints, HandleHealth, HandleTool
<1> QED
  BY <1>1 DEF StatusOf, Statuses

\* A handled request is well formed, and differs in what handling sets.
LEMMA HandledRequest ==
    ASSUME NEW request, request = [f \in Fields |-> request[f]],
           request.ask \in Asks, request.panicked \in BOOLEAN,
           NEW outcome \in Outcomes[request.ask.route] \cup {"invalid", "ok", "error"}
    PROVE  LET new == Handled(request, outcome)
           IN  /\ new = [f \in Fields |-> new[f]]
               /\ new.step = "handled" /\ new.outcome = outcome
               /\ new.status \in Statuses
               /\ new.ask = request.ask /\ new.panicked = request.panicked
<1>1. request.ask.route \in Routes
  BY AskAssumption DEF Routes
<1>2. StatusOf(request.ask.route, outcome) \in Statuses
  BY <1>1, OutcomeHasStatus
<1>3. {"step", "ask", "status", "outcome", "panicked"} \subseteq DOMAIN request
  BY DEF Fields
<1> QED
  BY <1>2, <1>3 DEF Handled, Fields

\* Each step of a request is of that kind.
LEMMA RequestStep ==
    ASSUME Inv, NEW r \in Requests, RequestNext(r)
    PROVE  Touches(r)
<1> DEFINE old == requests[r]
<1>1. /\ old = [f \in Fields |-> old[f]]
      /\ old.step \in Steps /\ old.status \in Statuses \cup {0}
      /\ old.panicked \in BOOLEAN
      /\ old.step \in OpenSteps => old.ask \in Asks
      /\ old.step \in {"new", "reading", "handling"} => old.outcome = "none" /\ ~old.panicked
      /\ old.step \in {"handled", "counted", "done"} => old.status \in Statuses
      /\ r \in DOMAIN requests
  BY DEF Inv, TypeOK, Shape, OutcomeKnown
<1>0. \A ask \in Asks : ask.tool \in Tools <=> ask.route = "mcp"
  BY AskAssumption DEF Tools
<1>2. CASE Accept(r)
  <2>1. PICK ask \in Asks :
            requests' = [requests EXCEPT ![r].ask = ask,
                             ![r].step = IF ask.route \in BodyRoutes THEN "reading" ELSE "handling"]
    BY <1>2 DEF Accept
  <2> DEFINE new == [old EXCEPT !.ask = ask,
                            !.step = IF ask.route \in BodyRoutes THEN "reading" ELSE "handling"]
  <2>2. requests' = [requests EXCEPT ![r] = new]
    BY <1>1, <2>1
  <2>3. /\ new = [f \in Fields |-> new[f]] /\ new.step \in {"reading", "handling"}
        /\ new.ask = ask /\ new.status = old.status
        /\ new.panicked = old.panicked /\ new.outcome = old.outcome
    BY <1>1 DEF Fields
  <2>4. old.step = "new" /\ phase = "serving" /\ UNCHANGED <<config, phase, exit, counters>>
    BY <1>2 DEF Accept
  <2> HIDE DEF new
  <2> QED
    BY <1>1, <2>2, <2>3, <2>4 DEF Touches, Takes, Answers, counters, Steps, OpenSteps
<1>3. CASE ReadBody(r)
  <2> DEFINE new == [old EXCEPT !.step = "handling"]
  <2>1. /\ old.step = "reading" /\ requests' = [requests EXCEPT ![r] = new]
        /\ Alive /\ UNCHANGED <<config, phase, exit, counters>>
    BY <1>1, <1>3 DEF ReadBody
  <2>2. /\ new = [f \in Fields |-> new[f]] /\ new.step = "handling"
        /\ new.ask = old.ask /\ new.status = old.status
        /\ new.panicked = old.panicked /\ new.outcome = old.outcome
    BY <1>1 DEF Fields
  <2> HIDE DEF new
  <2> QED
    BY <1>1, <2>1, <2>2 DEF Touches, Takes, Answers, counters, Steps, OpenSteps, Alive
<1>4. CASE \/ RejectBody(r) \/ Handle(r) \/ RefuseDeployments(r) \/ ShowDeployments(r)
  <2>1. PICK request, outcome :
            /\ request = [f \in Fields |-> request[f]]
            /\ request.ask = old.ask /\ request.panicked = old.panicked
            /\ outcome \in Outcomes[request.ask.route] \cup {"invalid", "ok", "error"}
            /\ requests' = [requests EXCEPT ![r] = Handled(request, outcome)]
            /\ UNCHANGED <<logged, counted>>
            /\ \/ called' = called /\ (outcome \notin {"ok", "error"} \/ old.ask.tool \notin Tools)
               \/ /\ old.ask.tool \in Tools /\ outcome \in {"ok", "error"}
                  /\ called' = [called EXCEPT ![<<old.ask.tool, outcome>>] = @ + 1]
    <3>0. old.ask \in Asks /\ Outcomes["mcp"] = {"ok", "error"}
      BY <1>1, <1>4 DEF RejectBody, Handle, RefuseDeployments, ShowDeployments, OpenSteps, Outcomes, HandleTool
    <3>1. CASE RejectBody(r)
      BY <1>1, <3>1 DEF RejectBody, counters
    <3>2. CASE Handle(r)
      <4>0. OutcomesOf(old.ask) \subseteq Outcomes[old.ask.route]
        BY DEF OutcomesOf, Outcomes
      <4>1. PICK outcome \in Outcomes[old.ask.route] :
                IF old.ask.route = "mcp"
                THEN FinishTool(r, old, outcome)
                ELSE /\ requests' = [requests EXCEPT ![r] = Handled(old, outcome)]
                     /\ UNCHANGED <<config, phase, exit, counters>>
        BY <1>1, <3>2, <4>0 DEF Handle
      <4>2. CASE old.ask.route = "mcp"
        BY <1>0, <1>1, <3>0, <4>1, <4>2 DEF FinishTool
      <4>3. CASE old.ask.route # "mcp"
        BY <1>0, <1>1, <3>0, <4>1, <4>3 DEF counters
      <4> QED
        BY <4>2, <4>3
    <3>3. CASE RefuseDeployments(r)
      <4>1. old.ask.tool \in Tools
        BY <1>0, <3>0, <3>3, AskAssumption DEF RefuseDeployments, AsksDeployments
      <4> QED
        BY <1>1, <3>3, <4>1 DEF RefuseDeployments, FinishTool
    <3>4. CASE ShowDeployments(r)
      <4>1. PICK shown : FinishTool(r, [old EXCEPT !.shown = shown], "ok")
        BY <3>4 DEF ShowDeployments
      <4> DEFINE request == [old EXCEPT !.shown = shown]
      <4>2. /\ request = [f \in Fields |-> request[f]]
            /\ request.ask = old.ask /\ request.panicked = old.panicked
        BY <1>1 DEF Fields
      <4>3. old.ask.tool \in Tools
        BY <1>0, <3>0, <3>4, AskAssumption DEF ShowDeployments, AsksDeployments
      <4>4. FinishTool(r, request, "ok")
        BY <4>1
      <4> HIDE DEF request
      <4> QED
        BY <4>2, <4>3, <4>4 DEF FinishTool
    <3> QED
      BY <1>4, <3>1, <3>2, <3>3, <3>4
  <2>2. /\ old.step \in {"reading", "handling"} /\ Alive
        /\ UNCHANGED <<config, phase, exit>>
    BY <1>4 DEF RejectBody, Handle, RefuseDeployments, ShowDeployments, FinishTool, counters
  <2> DEFINE new == Handled(request, outcome)
  <2>3. /\ new = [f \in Fields |-> new[f]]
        /\ new.step = "handled" /\ new.outcome = outcome
        /\ new.status \in Statuses
        /\ new.ask = old.ask /\ new.panicked = old.panicked
    BY <1>1, <2>1, <2>2, HandledRequest DEF OpenSteps
  <2>4. requests' = [requests EXCEPT ![r] = new]
    BY <2>1
  <2> HIDE DEF new
  <2>5. Answers(r, new)
    BY <2>1, <2>2, <2>3 DEF Answers
  <2>6. new.ask \in Asks /\ new.panicked \in BOOLEAN /\ new.step \in Steps \ {"cut"}
    BY <1>1, <2>2, <2>3 DEF Steps, OpenSteps
  <2> QED
    BY <2>2, <2>3, <2>4, <2>5, <2>6 DEF Touches, Takes, Alive
<1>5. CASE ConnectorAnswers(r) \/ ConnectorFails(r)
  <2>1. PICK new :
            /\ requests' = [requests EXCEPT ![r] = new]
            /\ new = [f \in Fields |-> new[f]]
            /\ new.step = old.step /\ new.ask = old.ask /\ new.status = old.status
            /\ new.panicked = old.panicked /\ new.outcome = old.outcome
    <3>1. CASE ConnectorAnswers(r)
      <4> DEFINE c == Connectors[old.at]
      <4>0. PICK answer :
                requests' = [requests EXCEPT ![r].at = @ + 1, ![r].served = @ \cup {c},
                                             ![r].found = @ \cup answer]
        BY <3>1 DEF ConnectorAnswers
      <4> DEFINE new == [old EXCEPT !.at = @ + 1, !.served = @ \cup {c},
                                    !.found = @ \cup answer]
      <4>1. requests' = [requests EXCEPT ![r] = new]
        BY <1>1, <4>0
      <4>2. /\ new = [f \in Fields |-> new[f]]
            /\ new.step = old.step /\ new.ask = old.ask /\ new.status = old.status
            /\ new.panicked = old.panicked /\ new.outcome = old.outcome
        BY <1>1 DEF Fields
      <4> QED
        BY <4>1, <4>2
    <3>2. CASE ConnectorFails(r)
      <4> DEFINE new == [old EXCEPT !.at = @ + 1]
      <4>1. requests' = [requests EXCEPT ![r] = new]
        BY <1>1, <3>2 DEF ConnectorFails
      <4>2. /\ new = [f \in Fields |-> new[f]]
            /\ new.step = old.step /\ new.ask = old.ask /\ new.status = old.status
            /\ new.panicked = old.panicked /\ new.outcome = old.outcome
        BY <1>1 DEF Fields
      <4> QED
        BY <4>1, <4>2
    <3> QED
      BY <1>5, <3>1, <3>2
  <2>2. old.step = "handling" /\ Alive /\ UNCHANGED <<config, phase, exit, counters>>
    BY <1>5 DEF ConnectorAnswers, ConnectorFails, Asking
  <2> QED
    BY <1>1, <2>1, <2>2 DEF Touches, Takes, Answers, counters, Steps, OpenSteps, Alive
<1>6. CASE Panic(r)
  <2> DEFINE new == [old EXCEPT !.step = "handled", !.status = 500, !.panicked = TRUE]
  <2>1. /\ old.step = "handling" /\ requests' = [requests EXCEPT ![r] = new]
        /\ Alive /\ UNCHANGED <<config, phase, exit, counters>>
    BY ZenonT(30), <1>1, <1>6 DEF Panic
  <2>2. /\ new = [f \in Fields |-> new[f]] /\ new.step = "handled"
        /\ new.ask = old.ask /\ new.outcome = old.outcome /\ new.status = 500 /\ new.panicked = TRUE
    BY ZenonT(30), <1>1 DEF Fields
  <2> HIDE DEF new
  <2> QED
    BY ZenonT(30), <1>1, <2>1, <2>2 DEF Touches, Takes, Answers, counters, Steps, OpenSteps, Statuses, Alive
<1>7. \A m \in {"metrics", "logging"} : Returns(old, m) <=> ~old.panicked
  BY <1>1 DEF Returns, Middleware
<1>8. CASE Count(r)
  <2> DEFINE new == [old EXCEPT !.step = "counted"]
  <2>1. /\ old.step = "handled" /\ requests' = [requests EXCEPT ![r] = new]
        /\ Alive /\ UNCHANGED <<config, phase, exit, logged, called>>
        /\ counted' = IF ~old.panicked /\ ~old.ask.scrape
                      THEN [counted EXCEPT ![Key(r)] = @ + 1] ELSE counted
    BY <1>1, <1>7, <1>8 DEF Count
  <2>2. /\ new = [f \in Fields |-> new[f]] /\ new.step = "counted"
        /\ SameAnswer(old, new)
    BY <1>1 DEF Fields, SameAnswer
  <2> HIDE DEF new
  <2> QED
    BY <1>1, <2>1, <2>2 DEF Touches, Takes, Unwinds, SameAnswer, Steps, OpenSteps, Alive
<1>9. CASE Log(r)
  <2> DEFINE new == [old EXCEPT !.step = "done"]
  <2>1. /\ old.step = "counted" /\ requests' = [requests EXCEPT ![r] = new]
        /\ Alive /\ UNCHANGED <<config, phase, exit, counted, called>>
        /\ logged' = IF ~old.panicked THEN [logged EXCEPT ![Key(r)] = @ + 1] ELSE logged
    BY <1>1, <1>7, <1>9 DEF Log
  <2>2. /\ new = [f \in Fields |-> new[f]] /\ new.step = "done"
        /\ SameAnswer(old, new)
    BY <1>1 DEF Fields, SameAnswer
  <2> HIDE DEF new
  <2> QED
    BY <1>1, <2>1, <2>2 DEF Touches, Takes, Unwinds, SameAnswer, Steps, OpenSteps, Alive
<1> QED
  BY <1>2, <1>3, <1>4, <1>5, <1>6, <1>8, <1>9 DEF RequestNext, Progress

\* The steps of the process, among them the crash of a request.
ProcessNext ==
    \/ Boot \/ KillInBoot \/ ListenFails \/ Signal \/ Drained \/ TimedOut
    \/ \E r \in Requests : Crash(r)

\* What the end of the process leaves of the requests.
LEMMA ExitStep ==
    ASSUME Inv, NEW how \in {"ok", "error", "panic", "killed"}, Exit(how),
           phase # "exited",
           how = "ok" => \A r \in Requests : ~IsOpen(r)
    PROVE  Inv'
<1>1. /\ phase' = "exited" /\ exit' = how /\ config' = config
      /\ requests' = [r \in Requests |-> IF IsOpen(r)
                                         THEN [requests[r] EXCEPT !.step = "cut"]
                                         ELSE requests[r]]
  BY DEF Exit
<1>2. ASSUME NEW r \in Requests
      PROVE  /\ requests'[r] = [f \in Fields |-> requests'[r][f]]
             /\ requests'[r].step = IF IsOpen(r) THEN "cut" ELSE requests[r].step
             /\ requests'[r].ask = requests[r].ask
             /\ requests'[r].status = requests[r].status
             /\ requests'[r].outcome = requests[r].outcome
             /\ requests'[r].panicked = requests[r].panicked
  <2>1. requests[r] = [f \in Fields |-> requests[r][f]]
    BY DEF Inv, Shape
  <2>2. CASE IsOpen(r)
    BY <1>1, <2>1, <2>2 DEF Fields
  <2>3. CASE ~IsOpen(r)
    <3>1. requests'[r] = requests[r]
      BY <1>1, <2>3
    <3> QED
      BY <2>1, <2>3, <3>1
  <2> QED
    BY <2>2, <2>3
<1>3. TypeOK'
  BY <1>1, <1>2 DEF Inv, TypeOK, Steps
<1>4. Shape'
  BY <1>1, <1>2 DEF Inv, Shape
<1>5. OutcomeKnown'
  BY <1>1, <1>2 DEF Inv, OutcomeKnown, OpenSteps, IsOpen
<1>6. ServesValid' /\ NoneCut'
  BY <1>1 DEF ServesValid, NoneCut
<1>7. CleanExitAnswersAll'
  BY <1>1, <1>2 DEF Inv, TypeOK, NoneCut, CleanExitAnswersAll, IsOpen, Steps
<1> QED
  BY <1>3, <1>4, <1>5, <1>6, <1>7 DEF Inv

\* The invariant holds when the process starts.
LEMMA InitInv == Init => Inv
<1> SUFFICES ASSUME Init PROVE Inv
  OBVIOUS
<1>1. /\ NoRequest = [f \in Fields |-> NoRequest[f]]
      /\ NoRequest.step = "new" /\ NoRequest.status = 0
      /\ NoRequest.panicked = FALSE /\ NoRequest.outcome = "none"
  BY DEF NoRequest, Fields
<1>2. /\ requests = [r \in Requests |-> NoRequest]
      /\ \A r \in Requests : requests[r] = NoRequest
  BY DEF Init
<1>3. Shape
  BY <1>1, <1>2 DEF Shape
<1>4. TypeOK /\ OutcomeKnown /\ NoneCut
  BY <1>1, <1>2 DEF Init, TypeOK, OutcomeKnown, NoneCut, Steps, OpenSteps
<1> QED
  BY <1>3, <1>4 DEF Init, Inv, ServesValid, CleanExitAnswersAll

\* The steps of the process keep it.
LEMMA ProcessInv ==
    ASSUME Inv, ProcessNext
    PROVE  Inv'
<1>1. CASE Boot /\ Valid(config)
  BY <1>1 DEF Boot, Inv, TypeOK, Shape, OutcomeKnown, ServesValid, NoneCut, CleanExitAnswersAll
<1>2. CASE Boot /\ ~Valid(config)
  BY <1>2, ExitStep DEF Boot
<1>3. CASE KillInBoot
  BY <1>3, ExitStep DEF KillInBoot
<1>4. CASE ListenFails
  BY <1>4, ExitStep DEF ListenFails
<1>5. CASE Signal
  BY <1>5 DEF Signal, Inv, TypeOK, Shape, OutcomeKnown, ServesValid, NoneCut, CleanExitAnswersAll
<1>6. CASE Drained
  BY <1>6, ExitStep DEF Drained
<1>7. CASE TimedOut
  BY <1>7, ExitStep DEF TimedOut
<1>8. CASE \E r \in Requests : Crash(r)
  BY <1>8, ExitStep DEF Crash, Alive
<1> QED
  BY <1>1, <1>2, <1>3, <1>4, <1>5, <1>6, <1>7, <1>8 DEF ProcessNext

\* The steps of a request keep it.
LEMMA RequestInv ==
    ASSUME Inv, NEW r \in Requests, Touches(r)
    PROVE  Inv'
<1>1. /\ phase \in {"serving", "draining"} /\ phase' = phase
      /\ exit' = exit /\ config' = config
  BY DEF Touches
<1>2. PICK new :
           /\ requests' = [requests EXCEPT ![r] = new]
           /\ new = [f \in Fields |-> new[f]]
           /\ new.step \in Steps \ {"cut"}
           /\ new.ask \in Asks
           /\ new.status \in Statuses \cup {0}
           /\ new.panicked \in BOOLEAN
           /\ new.step \in {"new", "reading", "handling"} =>
                  new.outcome = "none" /\ ~new.panicked
           /\ new.step \in {"handled", "counted", "done"} => new.status \in Statuses
  BY DEF Touches, Takes, Answers, Unwinds, SameAnswer, Inv, OutcomeKnown
<1>3. /\ requests' = [s \in Requests |-> requests'[s]]
      /\ requests'[r] = new
      /\ \A s \in Requests \ {r} : requests'[s] = requests[s]
  BY <1>2 DEF Inv, Shape
<1>4. TypeOK'
  BY <1>1, <1>2, <1>3 DEF Inv, TypeOK
<1>5. Shape'
  BY <1>1, <1>2, <1>3 DEF Inv, Shape
<1>6. OutcomeKnown'
  BY <1>1, <1>2, <1>3 DEF Inv, OutcomeKnown
<1>7. ServesValid' /\ NoneCut' /\ CleanExitAnswersAll'
  BY <1>1, <1>2, <1>3 DEF Inv, TypeOK, ServesValid, NoneCut, CleanExitAnswersAll
<1> QED
  BY <1>4, <1>5, <1>6, <1>7 DEF Inv

\* Every step keeps the invariant.
LEMMA NextInv == Inv /\ [Next]_vars => Inv'
<1> SUFFICES ASSUME Inv, [Next]_vars PROVE Inv'
  OBVIOUS
<1>1. CASE ProcessNext
  BY <1>1, ProcessInv
<1>2. CASE \E r \in Requests : RequestNext(r)
  BY <1>2, RequestStep, RequestInv
<1>3. CASE UNCHANGED vars
  BY <1>3 DEF vars, Inv, TypeOK, Shape, OutcomeKnown, ServesValid, NoneCut, CleanExitAnswersAll
<1> QED
  BY <1>1, <1>2, <1>3 DEF Next, ProcessNext, RequestNext

-----------------------------------------------------------------------------
(* The accounts.                                                           *)

CountersType ==
    /\ logged \in [Routes \X Statuses -> Nat]
    /\ counted \in [Routes \X Statuses -> Nat]
    /\ called \in [Tools \X {"ok", "error"} -> Nat]

\* Nothing was counted under a key that is not a request's.
Accounts == CountersType /\ RequestsAccounted

\* A set that gains one element has one more.
LEMMA OneMore ==
    ASSUME NEW S, IsFiniteSet(S), NEW x, x \notin S
    PROVE  Cardinality(S \cup {x}) = Cardinality(S) + 1
  BY FS_AddElement

\* The requests that are counted are finitely many.
LEMMA FiniteAccounts ==
    \A k : IsFiniteSet(Logged(k)) /\ IsFiniteSet(Counted(k)) /\ IsFiniteSet(Called(k))
  BY RequestsAssumption, FS_Subset DEF Logged, Counted, Called

\* Before the first request nothing is counted.
LEMMA InitAccounts == Init => Accounts
<1> SUFFICES ASSUME Init PROVE Accounts
  OBVIOUS
<1>1. \A r \in Requests : requests[r].step = "new" /\ requests[r].outcome = "none"
  BY DEF Init, NoRequest
<1>2. \A k : Logged(k) = {} /\ Counted(k) = {}
  BY <1>1 DEF Logged, Counted
<1>3. \A k \in Tools \X {"ok", "error"} : Called(k) = {}
  BY <1>1 DEF Called
<1> QED
  BY <1>2, <1>3, FS_EmptySet DEF Init, Accounts, CountersType, RequestsAccounted

\* A step of a request moves it into the sets of what it counts.
LEMMA RequestAccounts ==
    ASSUME Inv, Accounts, NEW r \in Requests, Touches(r)
    PROVE  Accounts'
<1> DEFINE old == requests[r]
<1>1. PICK new :
           /\ requests' = [requests EXCEPT ![r] = new]
           /\ new.ask \in Asks
           /\ Takes(r, new)
  BY DEF Touches
<1>2. /\ requests'[r] = new
      /\ \A s \in Requests \ {r} : requests'[s] = requests[s]
      /\ \A s \in Requests \ {r} : Key(s)' = Key(s)
      /\ Key(r)' = <<new.ask.route, new.status>>
  BY <1>1 DEF Inv, Shape, Key
<1>3. exit' = exit /\ exit = "none"
  BY DEF Touches, Inv, TypeOK
<1>4. CASE Answers(r, new)
  <2>1. \A k : Logged(k)' = Logged(k) /\ Counted(k)' = Counted(k)
    BY <1>2, <1>4 DEF Answers, Logged, Counted
  <2>2. old.outcome = "none"
    BY <1>4 DEF Answers, Inv, OutcomeKnown
  <2>3. CASE called' = called /\ (new.outcome \notin {"ok", "error"} \/ new.ask.tool \notin Tools)
    <3>1. \A k \in Tools \X {"ok", "error"} : Called(k)' = Called(k)
      BY <1>2, <2>2, <2>3 DEF Called
    <3> QED
      BY <1>3, <1>4, <2>1, <2>3, <3>1 DEF Answers, Accounts, CountersType, RequestsAccounted
  <2>4. CASE /\ new.ask.tool \in Tools /\ new.outcome \in {"ok", "error"}
             /\ called' = [called EXCEPT ![<<new.ask.tool, new.outcome>>] = @ + 1]
    <3> DEFINE mine == <<new.ask.tool, new.outcome>>
    <3>1. mine \in Tools \X {"ok", "error"}
      BY <2>4
    <3>2. \A k \in Tools \X {"ok", "error"} :
              Called(k)' = IF k = mine THEN Called(k) \cup {r} ELSE Called(k)
      BY <1>2, <2>2 DEF Called
    <3>3. r \notin Called(mine)
      BY <2>2, <2>4 DEF Called
    <3>4. \A k \in Tools \X {"ok", "error"} :
              called'[k] = Cardinality(Called(k)')
      BY <2>4, <3>1, <3>2, <3>3, OneMore, FiniteAccounts
         DEF Accounts, CountersType, RequestsAccounted
    <3>5. called' \in [Tools \X {"ok", "error"} -> Nat]
      BY <2>4, <3>1 DEF Accounts, CountersType
    <3> QED
      BY <1>3, <1>4, <2>1, <3>4, <3>5 DEF Answers, Accounts, CountersType, RequestsAccounted
  <2> QED
    BY <1>4, <2>3, <2>4 DEF Answers
<1>5. CASE Unwinds(r, new)
  <2>1. /\ Key(r)' = Key(r) /\ Key(r) \in Routes \X Statuses
        /\ old.panicked \in BOOLEAN /\ new.panicked = old.panicked /\ new.ask = old.ask
    BY <1>2, <1>5, AskAssumption DEF Unwinds, SameAnswer, Inv, TypeOK, OutcomeKnown, Key, Routes
  <2>2. \A k : Called(k)' = Called(k)
    BY <1>2, <1>5 DEF Unwinds, SameAnswer, Called
  <2>3. CASE old.step = "handled" /\ new.step = "counted"
    <3>1. /\ logged' = logged /\ called' = called
          /\ counted' = IF ~old.panicked /\ ~old.ask.scrape
                        THEN [counted EXCEPT ![Key(r)] = @ + 1] ELSE counted
      BY <1>5, <2>3 DEF Unwinds
    <3>2. \A k : Logged(k)' = Logged(k)
      BY <1>2, <2>3 DEF Logged
    <3>3. \A k : Counted(k)' = IF ~old.panicked /\ ~old.ask.scrape /\ k = Key(r)
                               THEN Counted(k) \cup {r} ELSE Counted(k)
      BY <1>2, <2>1, <2>3 DEF Counted
    <3>4. \A k : r \notin Counted(k)
      BY <2>3 DEF Counted
    <3>5. \A k \in Routes \X Statuses : counted'[k] = Cardinality(Counted(k)')
      BY <1>3, <2>1, <3>1, <3>3, <3>4, OneMore, FiniteAccounts
         DEF Accounts, CountersType, RequestsAccounted
    <3>6. counted' \in [Routes \X Statuses -> Nat]
      BY <2>1, <3>1 DEF Accounts, CountersType
    <3> QED
      BY <2>2, <3>1, <3>2, <3>5, <3>6 DEF Accounts, CountersType, RequestsAccounted
  <2>4. CASE old.step = "counted" /\ new.step = "done"
    <3>1. /\ counted' = counted /\ called' = called
          /\ logged' = IF ~old.panicked THEN [logged EXCEPT ![Key(r)] = @ + 1] ELSE logged
      BY <1>5, <2>4 DEF Unwinds
    <3>2. \A k : Counted(k)' = Counted(k)
      BY <1>2, <2>1, <2>4 DEF Counted
    <3>3. \A k : Logged(k)' = IF ~old.panicked /\ k = Key(r)
                              THEN Logged(k) \cup {r} ELSE Logged(k)
      BY <1>2, <2>1, <2>4 DEF Logged
    <3>4. \A k : r \notin Logged(k)
      BY <2>4 DEF Logged
    <3>5. \A k \in Routes \X Statuses : logged'[k] = Cardinality(Logged(k)')
      BY <2>1, <3>1, <3>3, <3>4, OneMore, FiniteAccounts
         DEF Accounts, CountersType, RequestsAccounted
    <3>6. logged' \in [Routes \X Statuses -> Nat]
      BY <2>1, <3>1 DEF Accounts, CountersType
    <3> QED
      BY <1>3, <2>2, <3>1, <3>2, <3>5, <3>6 DEF Accounts, CountersType, RequestsAccounted
  <2> QED
    BY <1>5, <2>3, <2>4 DEF Unwinds
<1> QED
  BY <1>1, <1>4, <1>5 DEF Takes

\* A step of the process counts nothing. When it ends cleanly no request is
\* open, so none is on its way between its count and its log line.
LEMMA ProcessAccounts ==
    ASSUME Inv, Accounts, ProcessNext
    PROVE  Accounts'
<1>1. UNCHANGED counters
  BY DEF ProcessNext, Boot, KillInBoot, ListenFails, Signal, Drained, TimedOut, Crash, Exit
<1>2. CASE UNCHANGED <<requests, exit>>
  <2>1. \A k : Logged(k)' = Logged(k) /\ Counted(k)' = Counted(k) /\ Called(k)' = Called(k)
    BY <1>2 DEF Logged, Counted, Called, Key
  <2> QED
    BY <1>1, <1>2, <2>1 DEF Accounts, CountersType, RequestsAccounted, counters
<1>3. CASE \E how : Exit(how) /\ how # "none" /\ (how = "ok" => \A r \in Requests : ~IsOpen(r))
  <2>1. PICK how : Exit(how) /\ how # "none" /\ (how = "ok" => \A r \in Requests : ~IsOpen(r))
    BY <1>3
  <2>2. ASSUME NEW r \in Requests
        PROVE  /\ requests'[r].step = IF IsOpen(r) THEN "cut" ELSE requests[r].step
               /\ requests'[r].ask = requests[r].ask
               /\ requests'[r].status = requests[r].status
               /\ requests'[r].outcome = requests[r].outcome
               /\ requests'[r].panicked = requests[r].panicked
    <3>1. requests[r] = [f \in Fields |-> requests[r][f]]
      BY DEF Inv, Shape
    <3>2. requests'[r] = IF IsOpen(r) THEN [requests[r] EXCEPT !.step = "cut"] ELSE requests[r]
      BY <2>1 DEF Exit
    <3>3. CASE IsOpen(r)
      BY <3>1, <3>2, <3>3 DEF Fields
    <3>4. CASE ~IsOpen(r)
      BY <3>2, <3>4
    <3> QED
      BY <3>3, <3>4
  <2>3. \A k : Logged(k)' = Logged(k) /\ Called(k)' = Called(k)
    BY <2>2 DEF Logged, Called, Key, IsOpen, OpenSteps
  <2>4. exit' = how
    BY <2>1 DEF Exit
  <2>5. CASE how = "ok"
    <3>1. \A k : Counted(k)' = Counted(k)
      BY <2>1, <2>2, <2>5 DEF Counted, Key
    <3>2. exit = "none"
      BY DEF ProcessNext, Boot, KillInBoot, ListenFails, Signal, Drained, TimedOut, Crash,
         Alive, Inv, TypeOK
    <3> QED
      BY <1>1, <2>3, <3>1, <3>2 DEF Accounts, CountersType, RequestsAccounted, counters
  <2>6. CASE how # "ok"
    BY <1>1, <2>1, <2>3, <2>4, <2>6 DEF Accounts, CountersType, RequestsAccounted, counters
  <2> QED
    BY <2>5, <2>6
<1> QED
  <2>1. CASE (Boot /\ Valid(config)) \/ Signal
    BY <1>2, <2>1 DEF Boot, Signal
  <2>2. CASE (Boot /\ ~Valid(config)) \/ KillInBoot
    BY <1>3, <2>2 DEF Boot, KillInBoot
  <2>3. CASE ListenFails \/ Drained \/ TimedOut
    BY <1>3, <2>3 DEF ListenFails, Drained, TimedOut
  <2>4. CASE \E r \in Requests : Crash(r)
    BY <1>3, <2>4 DEF Crash
  <2> QED
    BY <2>1, <2>2, <2>3, <2>4 DEF ProcessNext

\* Every step keeps the accounts.
LEMMA NextAccounts == Inv /\ Accounts /\ [Next]_vars => Accounts'
<1> SUFFICES ASSUME Inv, Accounts, [Next]_vars PROVE Accounts'
  OBVIOUS
<1>1. CASE ProcessNext
  BY <1>1, ProcessAccounts
<1>2. CASE \E r \in Requests : RequestNext(r)
  BY <1>2, RequestStep, RequestAccounts
<1>3. CASE UNCHANGED vars
  <2>1. \A k : Logged(k)' = Logged(k) /\ Counted(k)' = Counted(k) /\ Called(k)' = Called(k)
    BY <1>3 DEF vars, Logged, Counted, Called, Key
  <2> QED
    BY <1>3, <2>1 DEF vars, counters, Accounts, CountersType, RequestsAccounted
<1> QED
  BY <1>1, <1>2, <1>3 DEF Next, ProcessNext, RequestNext

-----------------------------------------------------------------------------
\* The types of the process and its requests are kept for ever.
THEOREM TypeCorrect == Spec => []TypeOK
<1>1. Inv => TypeOK
  BY DEF Inv
<1> QED
  BY <1>1, InitInv, NextInv, PTL DEF Spec

\* For any requests and configurations: a process that ends with code 0 has
\* finished every request it accepted.
THEOREM CleanExit == Spec => []CleanExitAnswersAll
<1>1. Inv => CleanExitAnswersAll
  BY DEF Inv
<1> QED
  BY <1>1, InitInv, NextInv, PTL DEF Spec

\* For any configuration the environment may give: a provider that serves has
\* what it needs.
THEOREM Configured == Spec => []ProvidersAreConfigured
<1>1. Inv => ProvidersAreConfigured
  BY DEF Inv, ServesValid, ProvidersAreConfigured, Alive, Valid, SignalProviders
<1> QED
  BY <1>1, InitInv, NextInv, PTL DEF Spec

\* For any number of requests, scrapes with any method among them: log lines
\* and counters are what the finished requests add up to whose handler did not
\* panic, and the tool counters what the calls of tools add up to.
THEOREM Accounted == Spec => []RequestsAccounted
<1>1. Accounts => RequestsAccounted
  BY DEF Accounts
<1> QED
  BY <1>1, InitInv, NextInv, InitAccounts, NextAccounts, PTL DEF Spec

-----------------------------------------------------------------------------
(* get_recent_deployments shows the newest deployments, for any            *)
(* connectors, whatever they hold, whichever of their pages are full and   *)
(* whichever of them fail. The invariant says what a request has gathered: *)
(* an answer of every connector that has answered it so far, and at the    *)
(* end the newest of it.                                                   *)

\* What a request has gathered, at each of its steps.
Gathered(request) ==
    /\ IsFiniteSet(request.found) /\ request.at \in Nat \ {0}
    /\ request.step = "new" => request.served = {}
    /\ \A c \in request.served :
           /\ c \in Names /\ request.ask.input.service # NoName
           /\ \E answer \in FetchDeployments(c, DeploymentQuery(request.ask.input)) :
                  answer \subseteq request.found
    /\ request.ask.tool = "get_recent_deployments" /\ request.outcome = "ok" =>
           request.shown \in NewestFew(request.found, Limit(request.ask.input))

AllGathered == \A r \in Requests : Gathered(requests[r])

-----------------------------------------------------------------------------
(* The connectors.                                                         *)

\* What a finite set is mapped to is finite.
LEMMA ImageIsFinite ==
    ASSUME NEW S, IsFiniteSet(S), NEW f, f = [x \in S |-> f[x]]
    PROVE  IsFiniteSet({f[x] : x \in S})
<1> DEFINE T == {f[x] : x \in S}
<1>1. f \in Surjection(S, T)
  BY DEF Surjection
<1> QED
  BY <1>1, FS_Surjection

\* A page holds some of the records asked for: all if they fit on it.
LEMMA PageOfMatches ==
    ASSUME NEW c, NEW matches, NEW page \in FirstPages(c, matches)
    PROVE  /\ page \subseteq matches
           /\ Cardinality(matches) <= Pages[c] => page = matches
  BY DEF FirstPages

\* Every connector returns finitely many deployments.
LEMMA FetchIsFinite ==
    ASSUME NEW c \in Names, NEW q, NEW answer \in FetchDeployments(c, q)
    PROVE  IsFiniteSet(answer)
<1>1. PICK f : /\ f = [x \in Held[c] |-> f[x]]
               /\ answer \subseteq {f[x] : x \in Held[c]}
  <2>1. CASE c = "github"
    <3> DEFINE f == [x \in Held[c] |-> MapGitHub(x)]
    <3>1. PICK page \in FirstPages(c, GitHubMatches(q)) : answer \subseteq {MapGitHub(x) : x \in page}
      BY <2>1 DEF FetchDeployments, FetchGitHub
    <3>2. page \subseteq Held[c]
      BY <2>1, <3>1, PageOfMatches DEF GitHubMatches
    <3>3. answer \subseteq {f[x] : x \in Held[c]}
      BY <3>1, <3>2
    <3> QED
      BY <3>3
  <2>2. CASE c = "gitlab"
    <3> DEFINE f == [x \in Held[c] |-> MapGitLab(x)]
    <3>1. answer \subseteq {f[x] : x \in Held[c]}
      BY <2>2 DEF FetchDeployments, FetchGitLab
    <3> QED
      BY <3>1
  <2>3. CASE c = "gerrit"
    <3> DEFINE f == [x \in Held[c] |-> MapChange(x)]
    <3>1. PICK page \in FirstPages(c, Held[c]) : answer \subseteq {MapChange(x) : x \in page}
      BY <2>3 DEF FetchDeployments, FetchGerrit
    <3>2. page \subseteq Held[c]
      BY <2>3, <3>1, PageOfMatches
    <3>3. answer \subseteq {f[x] : x \in Held[c]}
      BY <3>1, <3>2
    <3> QED
      BY <3>3
  <2>4. CASE c = "jenkins"
    <3> DEFINE f == [x \in Held[c] |-> MapBuild(x)]
    <3>1. PICK page \in FirstPages(c, JenkinsMatches(q)) : answer \subseteq {MapBuild(x) : x \in page}
      BY <2>4 DEF FetchDeployments, FetchJenkins
    <3>2. page \subseteq Held[c]
      BY <2>4, <3>1, PageOfMatches DEF JenkinsMatches
    <3>3. answer \subseteq {f[x] : x \in Held[c]}
      BY <3>1, <3>2
    <3> QED
      BY <3>3
  <2>5. CASE c = "argocd"
    <3> DEFINE f == [x \in Held[c] |-> MapOperation(x)]
    <3>1. answer \subseteq {f[x] : x \in Held[c]}
      BY <2>5 DEF FetchDeployments, FetchArgoCD
    <3> QED
      BY <3>1
  <2>6. CASE c = "kubernetes"
    <3> DEFINE f == [x \in Held[c] |-> MapReplicaSet(x)]
    <3>1. answer \subseteq {f[x] : x \in Held[c]}
      BY <2>6 DEF FetchDeployments, FetchKubernetes
    <3> QED
      BY <3>1
  <2> QED
    BY <2>1, <2>2, <2>3, <2>4, <2>5, <2>6 DEF Names
<1>2. IsFiniteSet({f[x] : x \in Held[c]})
  BY <1>1, ImageIsFinite, HeldAssumption
<1> QED
  BY <1>1, <1>2, FS_Subset

\* The connectors of a configuration are among those there are.
LEMMA ConnectorsAreNamed == Connectors \in Seq(Names)
<1>1. \A c \in Names : IfEnabled(c) \in Seq(Names)
  BY DEF IfEnabled
<1>2. \A s, t \in Seq(Names) : s \o t \in Seq(Names)
  BY ConcatProperties
<1>3. IfEnabled("github") \o IfEnabled("gitlab") \in Seq(Names)
  BY <1>1, <1>2 DEF Names
<1>4. IfEnabled("github") \o IfEnabled("gitlab") \o IfEnabled("gerrit") \in Seq(Names)
  BY <1>1, <1>2, <1>3 DEF Names
<1>5. IfEnabled("github") \o IfEnabled("gitlab") \o IfEnabled("gerrit")
          \o IfEnabled("jenkins") \in Seq(Names)
  BY <1>1, <1>2, <1>4 DEF Names
<1>6. IfEnabled("github") \o IfEnabled("gitlab") \o IfEnabled("gerrit")
          \o IfEnabled("jenkins") \o IfEnabled("argocd") \in Seq(Names)
  BY <1>1, <1>2, <1>5 DEF Names
<1> QED
  BY <1>1, <1>2, <1>6 DEF Connectors, Names

\* A deployment of the service, the environment and the window asked for, and
\* for GitLab a successful one.
Due(d, input) ==
    LET q == DeploymentQuery(input)
    IN  /\ d.service = input.service
        /\ IsAsked(input.environment, d.environment)
        /\ q.since <= d.startedAt /\ d.startedAt <= q.until
        /\ d.source = "gitlab" => d.status = "success"

\* A connector that answers leaves out none that is due, if all it is asked for
\* fits on a page.
LEMMA ConnectorReturnsDue ==
    ASSUME NEW c \in Names, NEW input, input.service # NoName,
           FitsPage(c, DeploymentQuery(input)),
           NEW d \in Everything(c), Due(d, input),
           NEW answer \in FetchDeployments(c, DeploymentQuery(input))
    PROVE  d \in answer
<1> DEFINE q == DeploymentQuery(input)
<1>1. /\ q.service = input.service /\ q.environment = input.environment
      /\ InWindow(q, d) /\ q.since = Now - Lookback
  BY DEF Due, InWindow, DeploymentQuery
<1>2. d.startedAt # 0
  <2> SUFFICES ASSUME d.startedAt = 0 PROVE FALSE
    OBVIOUS
  <2>1. Now - Lookback <= 0
    BY <1>1 DEF InWindow
  <2> QED
    BY <2>1, LookbackAssumption
<1>3. /\ d.service = q.service /\ IsAsked(q.service, d.service)
      /\ IsAsked(q.environment, d.environment) /\ q.service # NoName
      /\ d.source = "gitlab" => d.status = "success"
  BY <1>1 DEF Due, IsAsked
<1>0. FitsPage(c, q) /\ answer \in FetchDeployments(c, q)
  OBVIOUS
<1> HIDE DEF q
<1>4. CASE c = "github"
  <2>1. PICK x \in Held[c] : d = MapGitHub(x)
    BY <1>4 DEF Everything
  <2>2. d.service = x.task /\ d.environment = x.environment
    BY <2>1 DEF MapGitHub, Deployment
  <2>3. x \in GitHubMatches(q) /\ Cardinality(GitHubMatches(q)) <= Pages[c]
    BY <1>3, <1>4, <1>0, <2>2 DEF GitHubMatches, FitsPage
  <2>4. PICK page \in FirstPages(c, GitHubMatches(q)) :
            answer = {e \in {MapGitHub(y) : y \in page} : InWindow(q, e) /\ IsAsked(q.service, e.service)}
    BY <1>4, <1>0 DEF FetchDeployments, FetchGitHub
  <2>5. x \in page
    BY <2>3, PageOfMatches
  <2> QED
    BY <1>1, <1>3, <2>1, <2>4, <2>5
<1>5. CASE c = "gitlab"
  <2>1. PICK x \in Held[c] : d = MapGitLab(x)
    BY <1>5 DEF Everything
  <2>2. /\ d.environment = x.environment /\ d.source = "gitlab"
        /\ d.status = GitLabStatus(x.status) /\ d.service = x.project
    BY <2>1 DEF MapGitLab, Deployment
  <2>3. x.status = "success"
    BY <1>3, <2>2 DEF GitLabStatus
  <2>4. /\ x \in GitLabMatches(q, q.service) /\ q.service \in Projects
        /\ Cardinality(GitLabMatches(q, q.service)) <= Pages[c]
    BY <1>3, <1>5, <1>0, <2>2, <2>3 DEF GitLabMatches, Projects, FitsPage
  <2>5. PICK some \in SUBSET Held[c] :
            /\ {y \in some : y.project = q.service} \in FirstPages(c, GitLabMatches(q, q.service))
            /\ answer = {e \in {MapGitLab(y) : y \in some} : InWindow(q, e)}
    BY <1>5, <1>0, <2>4 DEF FetchDeployments, FetchGitLab
  <2>6. x \in some
    BY <2>4, <2>5, PageOfMatches
  <2> QED
    BY <1>1, <2>1, <2>5, <2>6
<1>6. CASE c = "gerrit"
  <2>1. PICK page \in FirstPages(c, Held[c]) :
            answer = {e \in {MapChange(y) : y \in page} : e.startedAt # 0 /\ InWindow(q, e)}
    BY <1>6, <1>0 DEF FetchDeployments, FetchGerrit
  <2>2. page = Held[c]
    BY <1>6, <1>0, <2>1, PageOfMatches DEF FitsPage
  <2> QED
    BY <1>1, <1>2, <1>6, <2>1, <2>2 DEF Everything
<1>7. CASE c = "jenkins"
  <2>1. PICK x \in Held[c] : d = MapBuild(x)
    BY <1>7 DEF Everything
  <2>2. d.service = x.job
    BY <2>1 DEF MapBuild, Deployment
  <2>3. x \in JenkinsMatches(q) /\ Cardinality(JenkinsMatches(q)) <= Pages[c]
    BY <1>3, <1>7, <1>0, <2>2 DEF JenkinsMatches, FitsPage
  <2>4. PICK page \in FirstPages(c, JenkinsMatches(q)) :
            answer = {e \in {MapBuild(y) : y \in page} : q.service # NoName /\ InWindow(q, e)}
    BY <1>7, <1>0 DEF FetchDeployments, FetchJenkins
  <2>5. x \in page
    BY <2>3, PageOfMatches
  <2> QED
    BY <1>1, <1>3, <2>1, <2>4, <2>5
<1>8. CASE c = "argocd"
  <2>1. PICK x \in Held[c] : d = MapOperation(x)
    BY <1>8 DEF Everything
  <2>2. /\ d.service = x.application /\ d.environment = x.namespace
        /\ d.startedAt = x.deployedAt
    BY <2>1 DEF MapOperation, Deployment
  <2> QED
    BY <1>1, <1>2, <1>3, <1>8, <1>0, <2>1, <2>2 DEF FetchDeployments, FetchArgoCD
<1>9. CASE c = "kubernetes"
  <2>1. PICK x \in Held[c] : d = MapReplicaSet(x) /\ x.app # NoName /\ x.replicas # 0
    BY <1>9 DEF Everything
  <2>2. d.service = x.app
    BY <2>1 DEF MapReplicaSet, Deployment
  <2> QED
    BY <1>1, <1>3, <1>9, <1>0, <2>1, <2>2 DEF FetchDeployments, FetchKubernetes
<1> QED
  BY <1>4, <1>5, <1>6, <1>7, <1>8, <1>9 DEF Names

-----------------------------------------------------------------------------
(* The requests.                                                           *)

\* A request that has asked nobody has gathered what it should.
LEMMA InitGathered == Init => AllGathered
<1> SUFFICES ASSUME Init, NEW r \in Requests PROVE Gathered(requests[r])
  BY DEF AllGathered
<1>1. requests[r] = NoRequest
  BY DEF Init
<1> QED
  BY <1>1, FS_EmptySet DEF Gathered, NoRequest

\* A step of a request gathers what the connector returned that answers, loses
\* nothing, and shows the newest of it.
LEMMA RequestGathers ==
    ASSUME Inv, AllGathered, NEW r \in Requests, RequestNext(r)
    PROVE  Gathered(requests'[r])
<1> DEFINE old == requests[r]
<1>1. /\ Gathered(old) /\ old = [f \in Fields |-> old[f]] /\ r \in DOMAIN requests
      /\ old.step \in {"new", "reading", "handling"} => old.outcome = "none"
  BY DEF AllGathered, Inv, Shape, OutcomeKnown
<1>2. CASE Accept(r)
  <2>1. PICK ask \in Asks :
            requests'[r] = [old EXCEPT !.ask = ask,
                                !.step = IF ask.route \in BodyRoutes THEN "reading" ELSE "handling"]
    BY <1>1, <1>2 DEF Accept
  <2>2. /\ requests'[r].found = old.found /\ requests'[r].served = old.served
        /\ requests'[r].at = old.at /\ requests'[r].outcome = old.outcome
        /\ requests'[r].step # "new"
    BY <1>1, <2>1 DEF Fields
  <2>3. old.served = {} /\ old.outcome = "none"
    BY <1>1, <1>2 DEF Accept, Gathered
  <2> QED
    BY <1>1, <2>2, <2>3 DEF Gathered
<1>3. CASE ReadBody(r) \/ Panic(r) \/ Count(r) \/ Log(r)
  <2>1. /\ requests'[r].found = old.found /\ requests'[r].served = old.served
        /\ requests'[r].at = old.at /\ requests'[r].outcome = old.outcome
        /\ requests'[r].ask = old.ask /\ requests'[r].shown = old.shown
        /\ requests'[r].step # "new"
    BY <1>1, <1>3 DEF ReadBody, Panic, Count, Log, Fields
  <2> QED
    BY <1>1, <2>1 DEF Gathered
<1>4. CASE RejectBody(r) \/ Handle(r) \/ RefuseDeployments(r)
  <2>1. PICK outcome :
            /\ requests'[r] = Handled(old, outcome)
            /\ old.ask.tool = "get_recent_deployments" => outcome # "ok"
    <3>1. CASE RejectBody(r)
      BY <1>1, <3>1 DEF RejectBody
    <3>2. CASE Handle(r)
      <4>1. PICK outcome \in OutcomesOf(old.ask) : requests'[r] = Handled(old, outcome)
        BY <1>1, <3>2 DEF Handle, FinishTool
      <4> QED
        BY <3>2, <4>1 DEF Handle, AsksDeployments
    <3>3. CASE RefuseDeployments(r)
      BY <1>1, <3>3 DEF RefuseDeployments, FinishTool
    <3> QED
      BY <1>4, <3>1, <3>2, <3>3
  <2>2. /\ requests'[r].found = old.found /\ requests'[r].served = old.served
        /\ requests'[r].at = old.at /\ requests'[r].outcome = outcome
        /\ requests'[r].ask = old.ask /\ requests'[r].step # "new"
    BY <1>1, <2>1 DEF Handled, Fields
  <2> QED
    BY <1>1, <2>1, <2>2 DEF Gathered
<1>5. CASE ShowDeployments(r)
  <2>1. PICK shown \in NewestFew(old.found, Limit(old.ask.input)) :
            requests'[r] = Handled([old EXCEPT !.shown = shown], "ok")
    BY <1>1, <1>5 DEF ShowDeployments, FinishTool
  <2>2. /\ requests'[r].found = old.found /\ requests'[r].served = old.served
        /\ requests'[r].at = old.at /\ requests'[r].shown = shown
        /\ requests'[r].ask = old.ask /\ requests'[r].step # "new"
    BY <1>1, <2>1 DEF Handled, Fields
  <2> QED
    BY <1>1, <2>1, <2>2 DEF Gathered
<1>6. CASE ConnectorFails(r)
  <2>1. /\ requests'[r].found = old.found /\ requests'[r].served = old.served
        /\ requests'[r].at = old.at + 1 /\ requests'[r].outcome = old.outcome
        /\ requests'[r].ask = old.ask /\ requests'[r].step = "handling"
        /\ old.outcome = "none"
    BY <1>1, <1>6 DEF ConnectorFails, Asking, Fields
  <2> QED
    BY <1>1, <2>1 DEF Gathered
<1>7. CASE ConnectorAnswers(r)
  <2> DEFINE c == Connectors[old.at]
             q == DeploymentQuery(old.ask.input)
  <2>0. PICK answer \in FetchDeployments(c, q) :
            requests' = [requests EXCEPT ![r].at = @ + 1, ![r].served = @ \cup {c},
                                         ![r].found = @ \cup answer]
    BY <1>7 DEF ConnectorAnswers
  <2>1. /\ old.step = "handling" /\ old.ask.input.service # NoName
        /\ old.at <= Len(Connectors)
    BY <1>7 DEF ConnectorAnswers, Asking
  <2>2. c \in Names
    <3>1. Len(Connectors) \in Nat
      BY ConnectorsAreNamed
    <3>2. old.at \in Nat \ {0}
      BY <1>1 DEF Gathered
    <3>3. old.at \in 1..Len(Connectors)
      BY <2>1, <3>1, <3>2
    <3> QED
      BY <3>3, ConnectorsAreNamed, ElementOfSeq
  <2>3. IsFiniteSet(old.found \cup answer)
    BY <1>1, <2>0, <2>2, FetchIsFinite, FS_Union DEF Gathered
  <2> HIDE DEF c, q
  <2>4. /\ requests'[r].found = old.found \cup answer
        /\ requests'[r].served = old.served \cup {c}
        /\ requests'[r].at = old.at + 1 /\ requests'[r].outcome = old.outcome
        /\ requests'[r].ask = old.ask /\ requests'[r].step = old.step
    BY <1>1, <2>0 DEF Fields
  <2>5. \A b \in requests'[r].served :
            /\ b \in Names /\ requests'[r].ask.input.service # NoName
            /\ \E some \in FetchDeployments(b, DeploymentQuery(requests'[r].ask.input)) :
                   some \subseteq requests'[r].found
    <3> SUFFICES ASSUME NEW b \in old.served \cup {c}
                 PROVE  /\ b \in Names
                        /\ \E some \in FetchDeployments(b, q) : some \subseteq old.found \cup answer
      BY <2>1, <2>4 DEF q
    <3>1. CASE b \in old.served
      <4>1. PICK some \in FetchDeployments(b, q) : some \subseteq old.found
        BY <1>1, <3>1 DEF Gathered, q
      <4> QED
        BY <1>1, <3>1, <4>1 DEF Gathered
    <3>2. CASE b = c
      BY <2>0, <2>2, <3>2
    <3> QED
      BY <3>1, <3>2
  <2> QED
    <3>1. IsFiniteSet(requests'[r].found)
      BY <2>3, <2>4
    <3>2. requests'[r].at \in Nat \ {0}
      BY <1>1, <2>4 DEF Gathered
    <3>3. requests'[r].step # "new" /\ requests'[r].outcome # "ok"
      BY <1>1, <2>1, <2>4
    <3> QED
      BY <2>5, <3>1, <3>2, <3>3 DEF Gathered
<1> QED
  BY <1>2, <1>3, <1>4, <1>5, <1>6, <1>7 DEF RequestNext, Progress

\* Every step keeps what the requests have gathered.
LEMMA NextGathered == Inv /\ AllGathered /\ [Next]_vars => AllGathered'
<1> SUFFICES ASSUME Inv, AllGathered, [Next]_vars, NEW s \in Requests
             PROVE  Gathered(requests'[s])
  BY DEF AllGathered
<1>1. Gathered(requests[s]) /\ requests[s] = [f \in Fields |-> requests[s][f]]
  BY DEF AllGathered, Inv, Shape
<1>2. CASE requests'[s] = requests[s]
  BY <1>1, <1>2
<1>3. CASE ProcessNext
  <2>1. requests'[s] \in {requests[s], [requests[s] EXCEPT !.step = "cut"]}
    BY <1>3 DEF ProcessNext, Boot, KillInBoot, ListenFails, Signal, Drained, TimedOut, Crash, Exit
  <2>2. CASE requests'[s] = [requests[s] EXCEPT !.step = "cut"]
    <3>1. /\ requests'[s].found = requests[s].found /\ requests'[s].served = requests[s].served
          /\ requests'[s].at = requests[s].at /\ requests'[s].outcome = requests[s].outcome
          /\ requests'[s].ask = requests[s].ask /\ requests'[s].shown = requests[s].shown
          /\ requests'[s].step # "new"
      BY <1>1, <2>2 DEF Fields
    <3> QED
      BY <1>1, <3>1 DEF Gathered
  <2> QED
    BY <1>2, <2>1, <2>2
<1>4. CASE \E r \in Requests : RequestNext(r)
  <2>1. PICK r \in Requests : RequestNext(r)
    BY <1>4
  <2>2. CASE s = r
    BY <2>1, <2>2, RequestGathers
  <2>3. CASE s # r
    <3>1. \E new : requests' = [requests EXCEPT ![r] = new]
      BY <2>1, RequestStep DEF Touches
    <3>2. requests'[s] = requests[s]
      BY <2>3, <3>1 DEF Inv, Shape
    <3> QED
      BY <1>2, <3>2
  <2> QED
    BY <2>2, <2>3
<1>5. CASE UNCHANGED vars
  BY <1>2, <1>5 DEF vars
<1> QED
  BY <1>3, <1>4, <1>5 DEF Next, ProcessNext, RequestNext

-----------------------------------------------------------------------------
(* What is shown.                                                          *)

\* The newest few are no more than the limit, and leave out only what is no
\* newer, when they are as many as the limit.
LEMMA NewestFewFill ==
    ASSUME NEW all, IsFiniteSet(all), NEW limit \in Nat, NEW shown \in NewestFew(all, limit)
    PROVE  /\ Cardinality(shown) <= limit
           /\ \A d \in all \ shown :
                  /\ Cardinality(shown) = limit
                  /\ \A e \in shown : e.startedAt >= d.startedAt
<1>1. /\ shown \subseteq all
      /\ Cardinality(shown) = (IF Cardinality(all) < limit THEN Cardinality(all) ELSE limit)
      /\ \A d \in shown, e \in all \ shown : d.startedAt >= e.startedAt
  BY DEF NewestFew
<1>2. Cardinality(all) \in Nat
  BY FS_CardinalityType
<1>3. Cardinality(shown) = Cardinality(all) => shown = all
  BY <1>1, FS_Subset
<1> QED
  BY <1>1, <1>2, <1>3

\* The invariant is what get_recent_deployments promises.
LEMMA GatheredShowsNewest == Inv /\ AllGathered => NewestUnderLimit
<1> SUFFICES ASSUME Inv, AllGathered, NEW r \in Requests,
                    AsksDeployments(r), requests[r].outcome = "ok"
             PROVE  LET request == requests[r]
                        input == request.ask.input
                    IN  /\ Cardinality(request.shown) <= Limit(input)
                        /\ \A c \in request.served : \A d \in Everything(c) :
                               /\ FitsPage(c, DeploymentQuery(input))
                               /\ Due(d, input) /\ d \notin request.shown
                               =>
                                   /\ Cardinality(request.shown) = Limit(input)
                                   /\ \A e \in request.shown : e.startedAt >= d.startedAt
  BY DEF NewestUnderLimit, Due
<1> DEFINE request == requests[r]
           input == request.ask.input
<1>1. /\ Gathered(request) /\ request.ask \in Asks
      /\ request.ask.tool = "get_recent_deployments"
  BY DEF AllGathered, AsksDeployments, Inv, Shape, NoRequest
<1>2. Limit(input) \in Nat
  BY <1>1, AskAssumption, LimitAssumption DEF Limit
<1>3. IsFiniteSet(request.found) /\ request.shown \in NewestFew(request.found, Limit(input))
  BY <1>1 DEF Gathered
<1>4. ASSUME NEW c \in request.served, FitsPage(c, DeploymentQuery(input)),
             NEW d \in Everything(c), Due(d, input)
      PROVE  d \in request.found
  <2>1. c \in Names /\ input.service # NoName
    BY <1>1 DEF Gathered
  <2>2. PICK answer \in FetchDeployments(c, DeploymentQuery(input)) : answer \subseteq request.found
    BY <1>1 DEF Gathered
  <2>3. d \in answer
    BY <1>4, <2>1, ConnectorReturnsDue
  <2> QED
    BY <2>2, <2>3
<1> QED
  BY <1>2, <1>3, <1>4, NewestFewFill

\* get_recent_deployments, for any connectors, whatever they hold, whatever part
\* of it their pages show and whichever fail: of those that answered with all
\* they were asked for, no deployment that is due is left out in favour of an
\* older one.
THEOREM NewestShown == Spec => []NewestUnderLimit
  BY InitInv, NextInv, InitGathered, NextGathered, GatheredShowsNewest, PTL DEF Spec

=============================================================================
