------------------------- MODULE SignalProviderPort -------------------------
(***************************************************************************)
(* What a caller of SignalProvider.CollectSignals may rely on: the call    *)
(* ends, once, in an error or in signals that match the query, whatever    *)
(* the systems behind the adapter do. AnalyzeIncident takes its providers  *)
(* to be of this kind.                                                     *)
(***************************************************************************)
EXTENDS SignalPipeline

VARIABLES query, result

Calling == [status |-> "calling", signals |-> <<>>]

Init == result = Calling

Fail == result = Calling /\ result' = [status |-> "failed", signals |-> <<>>]

Answer ==
    /\ result = Calling
    /\ result'.status = "ok"
    /\ \A k \in DOMAIN result'.signals : Matches(query, result'.signals[k])

Next == (Fail \/ Answer) /\ UNCHANGED query

Ends == <>(result.status # "calling")

\* The promise without its liveness, and all of it.
Safe == Init /\ [][Next]_<<query, result>>

Spec == Safe /\ Ends

=============================================================================
