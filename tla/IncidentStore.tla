--------------------------- MODULE IncidentStore ----------------------------
(***************************************************************************)
(* What the repository port promises to its callers, with no lock, ID or   *)
(* index: each call takes effect in one instant between its invocation and *)
(* its return, a Save of a known fingerprint counts one more recurrence    *)
(* and keeps the first analysis, and a read returns exactly the incidents  *)
(* it selects, as they are at that instant.                                *)
(***************************************************************************)
EXTENDS IncidentRepositoryPort

VARIABLES
    request,    \* what each caller has asked and not yet been answered
    response,   \* the incidents each caller was last given
    stored      \* fingerprint -> the analysis kept and its recurrence count

vars == <<request, response, stored>>

Entries == [analysis : Analyses, recurrence : Nat \ {0}]

Shown == [fingerprint : Fingerprints, analysis : Analyses, recurrence : Nat \ {0}]

TypeOK ==
    /\ request \in [Callers -> Requests \cup {NoRequest}]
    /\ response \in [Callers -> SUBSET Shown]
    /\ DOMAIN stored \subseteq Fingerprints
    /\ \A fp \in DOMAIN stored : stored[fp] \in Entries

Init ==
    /\ request = [c \in Callers |-> NoRequest]
    /\ response = [c \in Callers |-> {}]
    /\ stored = [fp \in {} |-> [analysis |-> fp, recurrence |-> 1]]

Show(fp, entry) ==
    [fingerprint |-> fp, analysis |-> entry.analysis, recurrence |-> entry.recurrence]

Invoke(c, q) ==
    /\ request[c] = NoRequest
    /\ request' = [request EXCEPT ![c] = q]
    /\ response' = [response EXCEPT ![c] = {}]
    /\ UNCHANGED stored

AfterSave(q) ==
    IF q.fingerprint \in DOMAIN stored
    THEN [stored[q.fingerprint] EXCEPT !.recurrence = @ + 1]
    ELSE [analysis |-> q.analysis, recurrence |-> 1]

ServeSave(c) ==
    /\ request[c].op = "Save"
    /\ LET fp == request[c].fingerprint
           entry == AfterSave(request[c])
       IN  /\ stored' = Put(stored, fp, entry)
           /\ response' = [response EXCEPT ![c] = {Show(fp, entry)}]
    /\ request' = [request EXCEPT ![c] = NoRequest]

ServeRead(c) ==
    /\ request[c] \in ReadRequests
    /\ response' = [response EXCEPT ![c] =
           {Show(fp, stored[fp]) : fp \in {f \in DOMAIN stored : Selects(request[c], f)}}]
    /\ request' = [request EXCEPT ![c] = NoRequest]
    /\ UNCHANGED stored

Next ==
    \E c \in Callers :
        \/ \E q \in Requests : Invoke(c, q)
        \/ ServeSave(c)
        \/ ServeRead(c)

Spec == Init /\ [][Next]_vars

=============================================================================
