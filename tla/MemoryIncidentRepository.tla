---------------------- MODULE MemoryIncidentRepository ----------------------
(***************************************************************************)
(* src/internal/storage/memory_incident_repository.go: two Go maps and a   *)
(* counter behind one sync.RWMutex, called by concurrent request handlers. *)
(*                                                                         *)
(* Every statement of a method that touches shared state is a step of its  *)
(* own, so that what keeps callers apart is the lock and nothing else. The *)
(* ID "inc-N" is the number N; the clock is `now`, which may stand still   *)
(* between two creations. Contexts are ignored by the code: a call, once   *)
(* made, always runs to its end.                                           *)
(***************************************************************************)
EXTENDS IncidentRepositoryPort, FiniteSets, Sequences

CONSTANTS
    NoCaller,   \* the lock has no writer
    MaxSaves,   \* bound on the Save calls of a behaviour
    MaxClock    \* bound on the clock

ASSUME NoCallerAssumption == NoCaller \notin Callers
ASSUME BoundsAssumption == MaxSaves \in Nat /\ MaxClock \in Nat

VARIABLES
    byID,           \* ID -> stored incident
    byFingerprint,  \* fingerprint -> ID
    counter,        \* the last ID handed out
    now,            \* the clock
    writer,         \* who holds, or has announced itself for, the write lock
    readers,        \* who holds the read lock
    pc,             \* where each caller is
    req,            \* the request each caller is executing
    inc,            \* Save's local incident
    todo,           \* a reader's IDs still to look at
    out,            \* a reader's incidents copied so far
    ret,            \* what each caller's last call returned
    issued          \* Save calls made so far

shared == <<byID, byFingerprint, counter>>
lock == <<writer, readers>>
vars == <<byID, byFingerprint, counter, now, writer, readers,
          pc, req, inc, todo, out, ret, issued>>

Incidents ==
    [id : Nat, fingerprint : Fingerprints, analysis : Analyses,
     createdAt : Nat, recurrence : Nat]

\* The zero StoredIncident: the local of a caller that is not in Save.
NoIncident == [id |-> 0]

Init ==
    /\ byID = [i \in {} |-> NoIncident]
    /\ byFingerprint = [fp \in {} |-> 0]
    /\ counter = 0
    /\ now = 1
    /\ writer = NoCaller
    /\ readers = {}
    /\ pc = [c \in Callers |-> "idle"]
    /\ req = [c \in Callers |-> NoRequest]
    /\ inc = [c \in Callers |-> NoIncident]
    /\ todo = [c \in Callers |-> {}]
    /\ out = [c \in Callers |-> {}]
    /\ ret = [c \in Callers |-> <<>>]
    /\ issued = 0

-----------------------------------------------------------------------------
(* Callers and the clock.                                                  *)

Call(c, q) ==
    /\ pc[c] = "idle"
    /\ q \in SaveRequests => issued < MaxSaves
    /\ issued' = IF q \in SaveRequests THEN issued + 1 ELSE issued
    /\ req' = [req EXCEPT ![c] = q]
    /\ ret' = [ret EXCEPT ![c] = <<>>]
    /\ pc' = [pc EXCEPT ![c] = "wait"]
    /\ UNCHANGED <<shared, now, lock, inc, todo, out>>

Tick ==
    /\ now < MaxClock
    /\ now' = now + 1
    /\ UNCHANGED <<shared, lock, pc, req, inc, todo, out, ret, issued>>

-----------------------------------------------------------------------------
(* Save. RWMutex.Lock first announces the writer, which keeps new readers  *)
(* out, and then waits for the readers inside to leave.                    *)

\* Mutant: Save without the lock keeping a second writer out.
AnnounceToo(c) ==
    /\ pc[c] = "wait" /\ req[c] \in SaveRequests
    /\ writer' = c
    /\ pc' = [pc EXCEPT ![c] = "drain"]
    /\ UNCHANGED <<shared, now, readers, req, inc, todo, out, ret, issued>>

Announce(c) ==
    /\ pc[c] = "wait" /\ req[c] \in SaveRequests
    /\ writer = NoCaller
    /\ writer' = c
    /\ pc' = [pc EXCEPT ![c] = "drain"]
    /\ UNCHANGED <<shared, now, readers, req, inc, todo, out, ret, issued>>

\* Mutant: the writer does not wait for the readers inside.
LockDespiteReaders(c) ==
    /\ pc[c] = "drain"
    /\ pc' = [pc EXCEPT ![c] = "lookup"]
    /\ UNCHANGED <<shared, now, lock, req, inc, todo, out, ret, issued>>

Lock(c) ==
    /\ pc[c] = "drain"
    /\ readers = {}
    /\ pc' = [pc EXCEPT ![c] = "lookup"]
    /\ UNCHANGED <<shared, now, lock, req, inc, todo, out, ret, issued>>

\* The fingerprint is known: copy the incident out of byID.
LookupHit(c) ==
    /\ pc[c] = "lookup"
    /\ req[c].fingerprint \in DOMAIN byFingerprint
    /\ inc' = [inc EXCEPT ![c] = byID[byFingerprint[req[c].fingerprint]]]
    /\ pc' = [pc EXCEPT ![c] = "bump"]
    /\ UNCHANGED <<shared, now, lock, req, todo, out, ret, issued>>

\* Mutant: the ID is computed from the counter without advancing it.
LookupMissUncounted(c) ==
    /\ pc[c] = "lookup"
    /\ req[c].fingerprint \notin DOMAIN byFingerprint
    /\ inc' = [inc EXCEPT ![c] =
           [id |-> counter + 1, fingerprint |-> req[c].fingerprint,
            analysis |-> req[c].analysis, createdAt |-> 0, recurrence |-> 0]]
    /\ pc' = [pc EXCEPT ![c] = "insert"]
    /\ UNCHANGED <<shared, now, lock, req, todo, out, ret, issued>>

\* The fingerprint is new: take the next ID.
LookupMiss(c) ==
    /\ pc[c] = "lookup"
    /\ req[c].fingerprint \notin DOMAIN byFingerprint
    /\ counter' = counter + 1
    /\ inc' = [inc EXCEPT ![c] =
           [id |-> counter', fingerprint |-> req[c].fingerprint,
            analysis |-> req[c].analysis, createdAt |-> 0, recurrence |-> 0]]
    /\ pc' = [pc EXCEPT ![c] = "insert"]
    /\ UNCHANGED <<byID, byFingerprint, now, lock, req, todo, out, ret, issued>>

\* Mutant: Save returns without unlocking.
ReturnSaveLocked(c, saved) ==
    /\ ret' = [ret EXCEPT ![c] = <<saved>>]
    /\ req' = [req EXCEPT ![c] = NoRequest]
    /\ inc' = [inc EXCEPT ![c] = NoIncident]
    /\ pc' = [pc EXCEPT ![c] = "idle"]
    /\ UNCHANGED writer

\* Save returns `saved`; its deferred Unlock lets the next caller in.
ReturnSave(c, saved) ==
    /\ ret' = [ret EXCEPT ![c] = <<saved>>]
    /\ req' = [req EXCEPT ![c] = NoRequest]
    /\ inc' = [inc EXCEPT ![c] = NoIncident]
    /\ pc' = [pc EXCEPT ![c] = "idle"]
    /\ writer' = NoCaller

Recurred(old) == [old EXCEPT !.recurrence = @ + 1]

\* Mutant: the recurrence replaces the first analysis by the latest.
BumpLatest(c) ==
    /\ pc[c] = "bump"
    /\ LET new == [Recurred(inc[c]) EXCEPT !.analysis = req[c].analysis]
       IN  byID' = Put(byID, inc[c].id, new) /\ ReturnSave(c, new)
    /\ UNCHANGED <<byFingerprint, counter, now, readers, todo, out, issued>>

\* Write the copy back with one more recurrence.
Bump(c) ==
    /\ pc[c] = "bump"
    /\ byID' = Put(byID, inc[c].id, Recurred(inc[c]))
    /\ ReturnSave(c, Recurred(inc[c]))
    /\ UNCHANGED <<byFingerprint, counter, now, readers, todo, out, issued>>

\* Stamp the new incident and store it under its ID.
Insert(c) ==
    /\ pc[c] = "insert"
    /\ inc' = [inc EXCEPT ![c].createdAt = now, ![c].recurrence = 1]
    /\ byID' = Put(byID, inc[c].id, inc'[c])
    /\ pc' = [pc EXCEPT ![c] = "index"]
    /\ UNCHANGED <<byFingerprint, counter, now, lock, req, todo, out, ret, issued>>

\* Make the new incident findable by its fingerprint.
Index(c) ==
    /\ pc[c] = "index"
    /\ byFingerprint' = Put(byFingerprint, inc[c].fingerprint, inc[c].id)
    /\ ReturnSave(c, inc[c])
    /\ UNCHANGED <<byID, counter, now, readers, todo, out, issued>>

-----------------------------------------------------------------------------
(* FindByFingerprint, ListByService and ListAll, under the read lock.      *)

\* The IDs a read looks at: one index lookup, or every key of byID.
Candidates(q) ==
    IF q \in FindRequests
    THEN {byFingerprint[fp] : fp \in {q.fingerprint} \cap DOMAIN byFingerprint}
    ELSE DOMAIN byID

RLock(c) ==
    /\ pc[c] = "wait" /\ req[c] \in ReadRequests
    /\ writer = NoCaller
    /\ readers' = readers \cup {c}
    /\ todo' = [todo EXCEPT ![c] = Candidates(req[c])]
    /\ pc' = [pc EXCEPT ![c] = "scan"]
    /\ UNCHANGED <<shared, now, writer, req, inc, out, ret, issued>>

\* One iteration of the range loop, in the map's arbitrary order.
Visit(c, i) ==
    /\ pc[c] = "scan"
    /\ i \in todo[c]
    /\ todo' = [todo EXCEPT ![c] = @ \ {i}]
    /\ out' = [out EXCEPT ![c] =
           IF Selects(req[c], byID[i].fingerprint) THEN @ \cup {byID[i]} ELSE @]
    /\ UNCHANGED <<shared, now, lock, pc, req, inc, ret, issued>>

\* The orders sort.Slice may leave: newest first, ties in any order.
NewestFirst(S) ==
    {s \in [1..Cardinality(S) -> S] :
        /\ \A x \in S : \E k \in DOMAIN s : s[k] = x
        /\ \A i, j \in DOMAIN s : i < j => s[i].createdAt >= s[j].createdAt}

ReturnRead(c) ==
    /\ pc[c] = "scan"
    /\ todo[c] = {}
    /\ \E s \in NewestFirst(out[c]) : ret' = [ret EXCEPT ![c] = s]
    /\ readers' = readers \ {c}
    /\ req' = [req EXCEPT ![c] = NoRequest]
    /\ out' = [out EXCEPT ![c] = {}]
    /\ pc' = [pc EXCEPT ![c] = "idle"]
    /\ UNCHANGED <<shared, now, writer, inc, todo, issued>>

-----------------------------------------------------------------------------

SaveStep(c) ==
    \/ Lock(c) \/ LookupHit(c) \/ LookupMiss(c)
    \/ Bump(c) \/ Insert(c) \/ Index(c)

ReadStep(c) == (\E i \in todo[c] : Visit(c, i)) \/ ReturnRead(c)

Next ==
    \/ Tick
    \/ \E c \in Callers :
        \/ \E q \in Requests : Call(c, q)
        \/ Announce(c) \/ SaveStep(c)
        \/ RLock(c) \/ ReadStep(c)

(***************************************************************************)
(* A goroutine inside a method keeps running. sync.RWMutex starves nobody: *)
(* its writers queue on a fair mutex, and the readers that wait behind a   *)
(* writer are let in when it unlocks, so an acquisition that is possible   *)
(* again and again happens.                                                *)
(***************************************************************************)
Fairness ==
    \A c \in Callers :
        /\ WF_vars(SaveStep(c)) /\ WF_vars(ReadStep(c))
        /\ SF_vars(Announce(c)) /\ SF_vars(RLock(c))

Spec == Init /\ [][Next]_vars /\ Fairness

-----------------------------------------------------------------------------
(* Properties.                                                             *)

\* Every variable keeps its type; IDs never exceed the counter.
TypeOK ==
    /\ DOMAIN byID \subseteq 1..counter
    /\ \A i \in DOMAIN byID : byID[i] \in Incidents
    /\ DOMAIN byFingerprint \subseteq Fingerprints
    /\ \A fp \in DOMAIN byFingerprint : byFingerprint[fp] \in 1..counter
    /\ counter \in Nat
    /\ now \in Nat
    /\ writer \in Callers \cup {NoCaller}
    /\ readers \subseteq Callers
    /\ pc \in [Callers -> {"idle", "wait", "drain", "lookup", "bump",
                           "insert", "index", "scan"}]
    /\ req \in [Callers -> Requests \cup {NoRequest}]
    /\ inc \in [Callers -> Incidents \cup {NoIncident}]
    /\ todo \in [Callers -> SUBSET Nat]
    /\ out \in [Callers -> SUBSET Incidents]
    /\ DOMAIN ret = Callers
    /\ \A c \in Callers : \A k \in DOMAIN ret[c] : ret[c][k] \in Incidents
    /\ issued \in Nat

\* No Save is between storing an incident and indexing it.
Settled == \A c \in Callers : pc[c] \notin {"insert", "index"}

\* The two maps of memory_incident_repository.go name each other one to one:
\* between two Saves every stored incident is found under its own fingerprint,
\* the index never names an incident that is missing or is somebody else's, and
\* the IDs handed out are exactly the incidents stored.
IndexConsistent ==
    Settled =>
        /\ DOMAIN byID = 1..counter
        /\ \A fp \in DOMAIN byFingerprint :
               byID[byFingerprint[fp]].fingerprint = fp
        /\ \A i \in DOMAIN byID :
               /\ byID[i].id = i
               /\ byID[i].fingerprint \in DOMAIN byFingerprint
               /\ byFingerprint[byID[i].fingerprint] = i

\* CreatedAt is read under the lock (line 45), so the numbering of the IDs
\* agrees with the creation times the lists are sorted by.
IdsFollowCreation ==
    \A i, j \in DOMAIN byID : i < j => byID[i].createdAt <= byID[j].createdAt

\* A stored incident is never removed and nothing of it ever changes but its
\* recurrence count, which grows by one: a later analysis of the same
\* fingerprint does not replace the first (lines 36-41).
OnlyRecurrenceGrows ==
    [][\A i \in DOMAIN byID :
           /\ i \in DOMAIN byID'
           /\ byID'[i] \in {byID[i], Recurred(byID[i])}]_vars

\* Every call that waits for the lock returns.
CallsReturn == \A c \in Callers : pc[c] = "wait" ~> pc[c] = "idle"

-----------------------------------------------------------------------------
(***************************************************************************)
(* The inductive invariant behind the properties: what the lock excludes,  *)
(* and what a Save in progress has already done to the two maps.           *)
(***************************************************************************)

Saving == {"drain", "lookup", "bump", "insert", "index"}

Writing == Saving \ {"drain"}

LockInv ==
    \A c \in Callers :
        /\ pc[c] \in Saving <=> writer = c
        /\ pc[c] \in Writing => readers = {}
        /\ pc[c] = "scan" <=> c \in readers
        /\ pc[c] = "idle" <=> req[c] = NoRequest
        /\ pc[c] \in Saving => req[c] \in SaveRequests
        /\ pc[c] = "scan" => req[c] \in ReadRequests
        /\ pc[c] # "scan" => todo[c] = {} /\ out[c] = {}

\* The incident of a Save that has taken an ID and not stored it yet.
Unstored(i) == \E c \in Callers : pc[c] = "insert" /\ inc[c].id = i

\* The incident of a Save that has stored it and not indexed it yet.
Unindexed(i) == \E c \in Callers : pc[c] = "index" /\ inc[c].id = i

MapInv ==
    /\ \A fp \in DOMAIN byFingerprint :
           /\ byFingerprint[fp] \in DOMAIN byID
           /\ byID[byFingerprint[fp]].fingerprint = fp
    /\ \A i \in DOMAIN byID :
           /\ byID[i].id = i
           /\ byID[i].createdAt <= now
           /\ byID[i].recurrence > 0
           /\ \/ /\ byID[i].fingerprint \in DOMAIN byFingerprint
                 /\ byFingerprint[byID[i].fingerprint] = i
              \/ Unindexed(i)
    /\ \A i \in 1..counter : i \in DOMAIN byID \/ Unstored(i)

SaveInv ==
    \A c \in Callers :
        /\ pc[c] \in {"bump", "insert", "index"} =>
               /\ inc[c] \in Incidents
               /\ inc[c].fingerprint = req[c].fingerprint
        /\ pc[c] = "bump" =>
               /\ inc[c].fingerprint \in DOMAIN byFingerprint
               /\ inc[c] = byID[byFingerprint[inc[c].fingerprint]]
        /\ pc[c] = "insert" =>
               /\ inc[c].id = counter
               /\ inc[c].analysis = req[c].analysis
               /\ counter \in Nat \ {0}
               /\ counter \notin DOMAIN byID
               /\ inc[c].fingerprint \notin DOMAIN byFingerprint
        /\ pc[c] = "index" =>
               /\ inc[c].id \in DOMAIN byID
               /\ inc[c] = byID[inc[c].id]
               /\ inc[c].analysis = req[c].analysis
               /\ inc[c].recurrence = 1
               /\ inc[c].fingerprint \notin DOMAIN byFingerprint

\* A reader has copied what it selects among the IDs it has looked at.
ScanInv ==
    \A c \in Callers : pc[c] = "scan" =>
        /\ todo[c] \subseteq Candidates(req[c])
        /\ out[c] = {byID[i] : i \in {j \in Candidates(req[c]) \ todo[c] :
                                       Selects(req[c], byID[j].fingerprint)}}

IInv == TypeOK /\ LockInv /\ MapInv /\ SaveInv /\ ScanInv /\ IdsFollowCreation

-----------------------------------------------------------------------------
(* Refinement of the port's contract.                                      *)

EntryOf(incident) ==
    [analysis |-> incident.analysis, recurrence |-> incident.recurrence]

ShownOf(incident) ==
    [fingerprint |-> incident.fingerprint, analysis |-> incident.analysis,
     recurrence |-> incident.recurrence]

Store == INSTANCE IncidentStore WITH
    request <- req,
    response <- [c \in Callers |-> {ShownOf(ret[c][k]) : k \in DOMAIN ret[c]}],
    stored <- [fp \in DOMAIN byFingerprint |-> EntryOf(byID[byFingerprint[fp]])]

\* The adapter keeps the promise of outbound.IncidentRepository: with any
\* interleaving of callers, each call behaves as one atomic operation of
\* IncidentStore. A lost recurrence, a read of a half-made Save, or two
\* incidents for one fingerprint would break it.
ImplementsStore == Store!Spec

=============================================================================
