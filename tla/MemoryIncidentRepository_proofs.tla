------------------- MODULE MemoryIncidentRepository_proofs ------------------
(***************************************************************************)
(* Proofs about MemoryIncidentRepository for any number of callers,        *)
(* fingerprints, services and analyses, and any bounds.                    *)
(***************************************************************************)
EXTENDS MemoryIncidentRepository, TLAPS

\* The kinds of request are told apart by their op.
LEMMA RequestKinds ==
    /\ \A q \in SaveRequests : q.op = "Save" /\ q.fingerprint \in Fingerprints
                               /\ q.analysis \in Analyses
    /\ \A q \in ReadRequests : q.op # "Save"
    /\ NoRequest \notin Requests
    /\ SaveRequests \cap ReadRequests = {}
BY DEF SaveRequests, ReadRequests, FindRequests, ListRequests, Requests, NoRequest

\* The local of a caller outside Save is not an incident.
LEMMA NoIncidentIsNone == NoIncident \notin Incidents
BY DEF NoIncident, Incidents

\* What a read looks at is stored.
LEMMA CandidatesStored ==
    ASSUME TypeOK, MapInv, NEW q \in ReadRequests
    PROVE  Candidates(q) \subseteq DOMAIN byID
BY DEF Candidates, MapInv

-----------------------------------------------------------------------------

\* The empty repository satisfies the invariant.
LEMMA InitInv == Init => IInv
BY RequestKinds, NoCallerAssumption
   DEF Init, IInv, TypeOK, LockInv, MapInv, SaveInv, ScanInv, IdsFollowCreation,
       Saving, Writing, Unindexed, Unstored

-----------------------------------------------------------------------------
(* Type correctness of each step.                                          *)

\* A step keeps the types, and so the bounds that the counter puts on the IDs.
LEMMA TypeStep == IInv /\ [Next]_vars => TypeOK'
<1> SUFFICES ASSUME IInv, [Next]_vars PROVE TypeOK'
  OBVIOUS
<1> USE DEF IInv, TypeOK
<1>1. CASE Tick
  BY <1>1 DEF Tick, shared, lock
<1>2. ASSUME NEW c \in Callers, NEW q \in Requests, Call(c, q) PROVE TypeOK'
  BY <1>2 DEF Call, shared, lock
<1>3. ASSUME NEW c \in Callers, Announce(c) PROVE TypeOK'
  BY <1>3 DEF Announce, shared
<1>4. ASSUME NEW c \in Callers, Lock(c) PROVE TypeOK'
  BY <1>4 DEF Lock, shared, lock
<1>5. ASSUME NEW c \in Callers, LookupHit(c) PROVE TypeOK'
  BY <1>5 DEF LookupHit, shared, lock, MapInv
<1>6. ASSUME NEW c \in Callers, LookupMiss(c) PROVE TypeOK'
  <2>1. req[c] \in SaveRequests
    BY <1>6 DEF LookupMiss, LockInv, Saving
  <2>2. inc'[c] \in Incidents
    BY <1>6, <2>1, RequestKinds DEF LookupMiss, Incidents
  <2>3. QED
    BY <1>6, <2>2 DEF LookupMiss, shared, lock
<1>7. ASSUME NEW c \in Callers, Bump(c) PROVE TypeOK'
  <2>1. inc[c] \in Incidents /\ inc[c].id \in DOMAIN byID
    BY <1>7 DEF Bump, SaveInv, MapInv
  <2>2. Recurred(inc[c]) \in Incidents
    BY <2>1 DEF Recurred, Incidents
  <2>3. DOMAIN byID' = DOMAIN byID /\ \A i \in DOMAIN byID' : byID'[i] \in Incidents
    BY <1>7, <2>1, <2>2 DEF Bump, Put
  <2>4. \A d \in Callers : \A k \in DOMAIN ret'[d] : ret'[d][k] \in Incidents
    BY <1>7, <2>2 DEF Bump, ReturnSave
  <2>5. QED
    BY <1>7, <2>3, <2>4 DEF Bump, ReturnSave, shared, lock
<1>8. ASSUME NEW c \in Callers, Insert(c) PROVE TypeOK'
  <2>1. inc[c] \in Incidents /\ inc[c].id \in 1..counter
    BY <1>8 DEF Insert, SaveInv
  <2>2. inc'[c] \in Incidents
    BY <1>8, <2>1 DEF Insert, Incidents
  <2>3. /\ DOMAIN byID' \subseteq 1..counter
        /\ \A i \in DOMAIN byID' : byID'[i] \in Incidents
    BY <1>8, <2>1, <2>2 DEF Insert, Put
  <2>4. QED
    BY <1>8, <2>2, <2>3 DEF Insert, lock
<1>9. ASSUME NEW c \in Callers, Index(c) PROVE TypeOK'
  <2>1. /\ inc[c] \in Incidents /\ inc[c].id \in 1..counter
        /\ inc[c].fingerprint \in Fingerprints
    BY <1>9 DEF Index, SaveInv, Incidents
  <2>2. /\ DOMAIN byFingerprint' \subseteq Fingerprints
        /\ \A fp \in DOMAIN byFingerprint' : byFingerprint'[fp] \in 1..counter
    BY <1>9, <2>1 DEF Index, Put
  <2>3. \A d \in Callers : \A k \in DOMAIN ret'[d] : ret'[d][k] \in Incidents
    BY <1>9, <2>1 DEF Index, ReturnSave
  <2>4. QED
    BY <1>9, <2>2, <2>3 DEF Index, ReturnSave
<1>10. ASSUME NEW c \in Callers, RLock(c) PROVE TypeOK'
  <2>1. Candidates(req[c]) \subseteq Nat
    BY DEF Candidates
  <2>2. QED
    BY <1>10, <2>1 DEF RLock, shared
<1>11. ASSUME NEW c \in Callers, NEW i \in todo[c], Visit(c, i) PROVE TypeOK'
  <2>1. byID[i] \in Incidents
    <3>1. req[c] \in ReadRequests /\ i \in Candidates(req[c])
      BY <1>11 DEF Visit, ScanInv, LockInv
    <3>2. QED
      BY <3>1, CandidatesStored
  <2>2. QED
    BY <1>11, <2>1 DEF Visit, shared, lock
<1>12. ASSUME NEW c \in Callers, ReturnRead(c) PROVE TypeOK'
  <2>1. \A s \in NewestFirst(out[c]) : \A k \in DOMAIN s : s[k] \in Incidents
    BY DEF NewestFirst
  <2>2. QED
    BY <1>12, <2>1 DEF ReturnRead, shared
<1>13. CASE UNCHANGED vars
  BY <1>13 DEF vars
<1>14. QED
  BY <1>1, <1>2, <1>3, <1>4, <1>5, <1>6, <1>7, <1>8, <1>9, <1>10, <1>11,
     <1>12, <1>13 DEF Next, SaveStep, ReadStep

-----------------------------------------------------------------------------
(* Exclusion: who is where in the lock.                                    *)

\* A step keeps what the lock excludes: one writer, and no reader with it.
LEMMA LockStep == IInv /\ [Next]_vars => LockInv'
<1> SUFFICES ASSUME IInv, [Next]_vars PROVE LockInv'
  OBVIOUS
<1> USE RequestKinds, NoCallerAssumption DEF IInv, TypeOK, LockInv, Saving, Writing
<1>1. CASE Tick
  BY <1>1 DEF Tick, lock
<1>2. ASSUME NEW c \in Callers, NEW q \in Requests, Call(c, q) PROVE LockInv'
  BY <1>2 DEF Call, lock
<1>3. ASSUME NEW c \in Callers, Announce(c) PROVE LockInv'
  BY <1>3 DEF Announce
<1>4. ASSUME NEW c \in Callers, Lock(c) PROVE LockInv'
  BY <1>4 DEF Lock, lock
<1>5. ASSUME NEW c \in Callers, LookupHit(c) PROVE LockInv'
  BY <1>5 DEF LookupHit, lock
<1>6. ASSUME NEW c \in Callers, LookupMiss(c) PROVE LockInv'
  BY <1>6 DEF LookupMiss, lock
<1>7. ASSUME NEW c \in Callers, Bump(c) PROVE LockInv'
  BY <1>7 DEF Bump, ReturnSave
<1>8. ASSUME NEW c \in Callers, Insert(c) PROVE LockInv'
  BY <1>8 DEF Insert, lock
<1>9. ASSUME NEW c \in Callers, Index(c) PROVE LockInv'
  BY <1>9 DEF Index, ReturnSave
<1>10. ASSUME NEW c \in Callers, RLock(c) PROVE LockInv'
  BY <1>10 DEF RLock
<1>11. ASSUME NEW c \in Callers, NEW i \in todo[c], Visit(c, i) PROVE LockInv'
  BY <1>11 DEF Visit, lock
<1>12. ASSUME NEW c \in Callers, ReturnRead(c) PROVE LockInv'
  BY <1>12 DEF ReturnRead
<1>13. CASE UNCHANGED vars
  BY <1>13 DEF vars
<1>14. QED
  BY <1>1, <1>2, <1>3, <1>4, <1>5, <1>6, <1>7, <1>8, <1>9, <1>10, <1>11,
     <1>12, <1>13 DEF Next, SaveStep, ReadStep

-----------------------------------------------------------------------------
(***************************************************************************)
(* The maps. A step of the writer happens while nobody else is inside the  *)
(* lock; every other step leaves the maps alone.                           *)
(***************************************************************************)

\* While c writes, nobody else saves and nobody reads.
LEMMA Alone ==
    ASSUME LockInv, NEW c \in Callers, pc[c] \in Writing
    PROVE  /\ readers = {}
           /\ \A d \in Callers : d # c => pc[d] \notin Saving
           /\ \A d \in Callers : pc[d] # "scan"
BY DEF LockInv, Saving, Writing

\* The steps outside the critical section of Save.
Outside ==
    \/ Tick
    \/ \E c \in Callers :
        \/ \E q \in Requests : Call(c, q)
        \/ Announce(c) \/ Lock(c) \/ RLock(c)
        \/ (\E i \in todo[c] : Visit(c, i)) \/ ReturnRead(c)
    \/ UNCHANGED vars

\* They leave the maps, and the place and local of a caller in Save, alone.
LEMMA OutsideSteps ==
    ASSUME TypeOK, Outside
    PROVE  /\ UNCHANGED <<byID, byFingerprint, counter, inc>>
           /\ now \in Nat /\ now' \in Nat /\ now <= now'
           /\ \A c \in Callers, p \in {"bump", "insert", "index"} :
                  /\ pc'[c] = p <=> pc[c] = p
                  /\ pc[c] = p => req'[c] = req[c]
<1> USE DEF TypeOK, shared
<1>1. CASE Tick
  BY <1>1 DEF Tick
<1>2. CASE \E c \in Callers, q \in Requests : Call(c, q)
  BY <1>2 DEF Call
<1>3. CASE \E c \in Callers : Announce(c) \/ Lock(c) \/ RLock(c)
  BY <1>3 DEF Announce, Lock, RLock
<1>4. CASE \E c \in Callers : \E i \in todo[c] : Visit(c, i)
  BY <1>4 DEF Visit
<1>5. CASE \E c \in Callers : ReturnRead(c)
  BY <1>5 DEF ReturnRead
<1>6. CASE UNCHANGED vars
  BY <1>6 DEF vars
<1>7. QED
  BY <1>1, <1>2, <1>3, <1>4, <1>5, <1>6 DEF Outside

DataInv == MapInv /\ SaveInv /\ IdsFollowCreation

\* A step outside the critical section leaves the maps and the Saves consistent.
LEMMA OutsideData ==
    ASSUME IInv, Outside
    PROVE  DataInv'
<1> USE OutsideSteps DEF IInv
<1>1. \A i : (Unindexed(i))' <=> Unindexed(i)
  BY DEF Unindexed
<1>2. \A i : (Unstored(i))' <=> Unstored(i)
  BY DEF Unstored
<1>3. \A i \in DOMAIN byID : byID[i].createdAt \in Nat
  BY DEF TypeOK, Incidents
<1>4. MapInv'
  BY <1>1, <1>2, <1>3 DEF MapInv
<1>5. SaveInv'
  BY DEF SaveInv
<1>6. IdsFollowCreation'
  BY DEF IdsFollowCreation
<1>7. QED
  BY <1>4, <1>5, <1>6 DEF DataInv

\* A hit copies the incident that the index names.
LEMMA LookupHitData ==
    ASSUME IInv, NEW c \in Callers, LookupHit(c)
    PROVE  DataInv'
<1> USE DEF IInv, LookupHit, shared, TypeOK
<1>1. \A d \in Callers : d # c => pc[d] \notin Saving
  BY Alone DEF Writing, Saving
<1>2. \A i : (Unindexed(i))' <=> Unindexed(i)
  BY DEF Unindexed
<1>3. \A i : (Unstored(i))' <=> Unstored(i)
  BY DEF Unstored
<1>4. MapInv'
  BY <1>2, <1>3 DEF MapInv
<1>5. SaveInv'
  BY ZenonT(30), <1>1 DEF SaveInv, MapInv, Saving
<1>6. IdsFollowCreation'
  BY DEF IdsFollowCreation
<1>7. QED
  BY <1>4, <1>5, <1>6 DEF DataInv

\* A miss takes an ID that no incident has.
LEMMA LookupMissData ==
    ASSUME IInv, NEW c \in Callers, LookupMiss(c)
    PROVE  DataInv'
<1> USE DEF IInv, LookupMiss, lock, TypeOK
<1>1. \A d \in Callers : d # c => pc[d] \notin Saving
  BY Alone DEF Writing, Saving
<1>2. \A i : ~Unindexed(i) /\ ~Unstored(i)
  BY <1>1 DEF Unindexed, Unstored, Saving
<1>3. /\ counter' = counter + 1
      /\ \E d \in Callers : pc'[d] = "insert" /\ inc'[d].id = counter + 1
  OBVIOUS
<1>4. req[c] \in SaveRequests
  BY DEF LockInv, Saving
<1>5. MapInv'
  <2>1. \A i \in 1..counter : i \in DOMAIN byID
    BY <1>2 DEF MapInv
  <2>2. \A i \in 1..counter' : i \in 1..counter \/ i = counter + 1
    BY <1>3
  <2>3. (\A i \in 1..counter : i \in DOMAIN byID \/ Unstored(i))'
    BY <1>3, <2>1, <2>2 DEF Unstored
  <2>4. QED
    BY <1>2, <2>3 DEF MapInv
<1>6. inc'[c] \in Incidents
  BY <1>4, RequestKinds DEF Incidents
<1>7. SaveInv'
  BY <1>1, <1>6 DEF SaveInv, Saving
<1>8. IdsFollowCreation'
  BY DEF IdsFollowCreation
<1>9. QED
  BY <1>5, <1>7, <1>8 DEF DataInv

\* Writing the copy back changes no key of the two maps.
LEMMA BumpData ==
    ASSUME IInv, NEW c \in Callers, Bump(c)
    PROVE  DataInv'
<1> DEFINE old == inc[c]
<1> USE DEF IInv, Bump, ReturnSave, TypeOK
<1>1. \A d \in Callers : d # c => pc[d] \notin Saving
  BY Alone DEF Writing, Saving
<1>2. \A i : ~Unindexed(i) /\ ~Unstored(i) /\ ~(Unindexed(i))' /\ ~(Unstored(i))'
  BY <1>1 DEF Unindexed, Unstored, Saving
<1>3. old \in Incidents /\ old.id \in DOMAIN byID /\ old = byID[old.id]
  BY DEF SaveInv, MapInv
<1>4. /\ Recurred(old).id = old.id
      /\ Recurred(old).fingerprint = old.fingerprint
      /\ Recurred(old).createdAt = old.createdAt
      /\ Recurred(old).recurrence > 0
  BY <1>3 DEF Recurred, Incidents
<1>5. /\ DOMAIN byID' = DOMAIN byID
      /\ byID'[old.id] = Recurred(old)
      /\ \A i \in DOMAIN byID : i # old.id => byID'[i] = byID[i]
  BY <1>3 DEF Put
<1>6. \A i \in DOMAIN byID :
        /\ byID'[i].id = byID[i].id
        /\ byID'[i].fingerprint = byID[i].fingerprint
        /\ byID'[i].createdAt = byID[i].createdAt
  BY <1>3, <1>4, <1>5
<1>7. \A i \in DOMAIN byID : byID'[i].recurrence > 0
  BY <1>4, <1>5 DEF MapInv
<1>8. MapInv'
  BY <1>2, <1>5, <1>6, <1>7 DEF MapInv
<1>9. SaveInv'
  BY <1>1 DEF SaveInv, Saving
<1>10. IdsFollowCreation'
  BY <1>5, <1>6 DEF IdsFollowCreation
<1>11. QED
  BY <1>8, <1>9, <1>10 DEF DataInv

\* The new incident is stored under its own ID, not older than the others.
LEMMA InsertData ==
    ASSUME IInv, NEW c \in Callers, Insert(c)
    PROVE  DataInv'
<1> DEFINE new == inc'[c]
<1> USE DEF IInv, Insert, lock, TypeOK
<1>1. \A d \in Callers : d # c => pc[d] \notin Saving
  BY Alone DEF Writing, Saving
<1>2. inc[c] \in Incidents /\ inc[c].id = counter /\ counter \notin DOMAIN byID
  BY DEF SaveInv
<1>3. /\ new \in Incidents /\ new.id = counter /\ new.createdAt = now
      /\ new.fingerprint = inc[c].fingerprint /\ new.recurrence = 1
      /\ new.analysis = inc[c].analysis
  BY <1>2 DEF Incidents
<1>4. /\ DOMAIN byID' = DOMAIN byID \cup {counter}
      /\ byID'[counter] = new
      /\ \A i \in DOMAIN byID : byID'[i] = byID[i]
  BY <1>2 DEF Put
<1>5. \A i : ~Unindexed(i) /\ (Unstored(i) => i = counter)
  BY <1>1, <1>2 DEF Unindexed, Unstored, Saving
<1>7. MapInv'
  <2>1. (\A f \in DOMAIN byFingerprint :
            /\ byFingerprint[f] \in DOMAIN byID
            /\ byID[byFingerprint[f]].fingerprint = f)'
    BY <1>4 DEF MapInv
  <2>2. ASSUME NEW i \in DOMAIN byID'
        PROVE  /\ byID'[i].id = i
               /\ byID'[i].createdAt <= now'
               /\ byID'[i].recurrence > 0
               /\ \/ /\ byID'[i].fingerprint \in DOMAIN byFingerprint'
                     /\ byFingerprint'[byID'[i].fingerprint] = i
                  \/ (Unindexed(i))'
    <3>1. CASE i = counter
      <4>1. (Unindexed(i))'
        BY <1>3, <3>1 DEF Unindexed
      <4>2. now' = now /\ now <= now
        OBVIOUS
      <4>3. byID'[i] = new /\ new.id = i
        BY <1>3, <1>4, <3>1
      <4>4. new.createdAt <= now' /\ new.recurrence > 0
        BY <1>3, <4>2
      <4>5. QED
        BY <4>1, <4>3, <4>4
    <3>2. CASE i \in DOMAIN byID
      BY <1>2, <1>4, <1>5, <3>2 DEF MapInv
    <3>3. QED
      BY <1>4, <3>1, <3>2
  <2>3. (\A i \in 1..counter : i \in DOMAIN byID \/ Unstored(i))'
    BY <1>4, <1>5 DEF MapInv
  <2>4. QED
    BY <2>1, <2>2, <2>3 DEF MapInv
<1>8. SaveInv'
  BY <1>1, <1>3, <1>4 DEF SaveInv, Saving
<1>9. IdsFollowCreation'
  <2>1. \A i \in DOMAIN byID : i < counter /\ byID[i].createdAt <= now
    BY <1>2 DEF MapInv
  <2>2. SUFFICES ASSUME NEW i \in DOMAIN byID', NEW j \in DOMAIN byID', i < j
                 PROVE  byID'[i].createdAt <= byID'[j].createdAt
    BY DEF IdsFollowCreation
  <2>3. i \in DOMAIN byID
    BY <1>4, <2>1, <2>2
  <2>4. CASE j = counter
    BY <1>3, <1>4, <2>1, <2>3, <2>4
  <2>5. CASE j \in DOMAIN byID
    BY <1>4, <2>2, <2>3, <2>5 DEF IdsFollowCreation
  <2>6. QED
    BY <1>4, <2>4, <2>5
<1>10. QED
  BY <1>7, <1>8, <1>9 DEF DataInv

\* Indexing ends the one difference between the two maps.
LEMMA IndexData ==
    ASSUME IInv, NEW c \in Callers, Index(c)
    PROVE  DataInv'
<1> DEFINE fp == inc[c].fingerprint
<1> USE DEF IInv, Index, ReturnSave, TypeOK
<1>1. \A d \in Callers : d # c => pc[d] \notin Saving
  BY Alone DEF Writing, Saving
<1>2. /\ inc[c].id \in DOMAIN byID /\ inc[c] = byID[inc[c].id]
      /\ fp \notin DOMAIN byFingerprint
  BY DEF SaveInv
<1>3. \A i : (Unindexed(i) => i = inc[c].id) /\ ~Unstored(i)
  BY <1>1 DEF Unindexed, Unstored, Saving
<1>4. /\ DOMAIN byFingerprint' = DOMAIN byFingerprint \cup {fp}
      /\ byFingerprint'[fp] = inc[c].id
      /\ \A f \in DOMAIN byFingerprint : byFingerprint'[f] = byFingerprint[f]
  BY <1>2 DEF Put
<1>5. MapInv'
  BY <1>2, <1>3, <1>4 DEF MapInv
<1>6. SaveInv'
  BY <1>1 DEF SaveInv, Saving
<1>7. IdsFollowCreation'
  BY DEF IdsFollowCreation
<1>8. QED
  BY <1>5, <1>6, <1>7 DEF DataInv

\* A step is outside the critical section, or is one of its five steps.
LEMMA StepKinds ==
    ASSUME [Next]_vars
    PROVE  \/ Outside
           \/ \E c \in Callers : \/ LookupHit(c) \/ LookupMiss(c)
                                 \/ Bump(c) \/ Insert(c) \/ Index(c)
BY DEF Next, SaveStep, ReadStep, Outside

\* A step keeps what relates the maps and the Saves in progress.
LEMMA DataStep == IInv /\ [Next]_vars => DataInv'
BY StepKinds, OutsideData, LookupHitData, LookupMissData, BumpData, InsertData,
   IndexData

-----------------------------------------------------------------------------
(* What a reader has copied.                                               *)

\* The copies a reader c should hold.
Copies(c) ==
    {byID[i] : i \in {j \in Candidates(req[c]) \ todo[c] :
                         Selects(req[c], byID[j].fingerprint)}}

\* A step that leaves the maps and the reader alone leaves its copies right.
LEMMA CopiesKept ==
    ASSUME ScanInv, NEW c \in Callers, pc[c] = "scan",
           UNCHANGED <<byID, byFingerprint>>,
           req'[c] = req[c], todo'[c] = todo[c], out'[c] = out[c]
    PROVE  /\ todo'[c] \subseteq (Candidates(req[c]))'
           /\ out'[c] = (Copies(c))'
BY DEF ScanInv, Candidates, Selects, Copies

\* A step keeps what a reader has copied up to date: nobody writes meanwhile.
LEMMA ScanStep == IInv /\ [Next]_vars => ScanInv'
<1> SUFFICES ASSUME IInv, [Next]_vars, NEW c \in Callers, pc'[c] = "scan"
             PROVE  /\ todo'[c] \subseteq (Candidates(req[c]))'
                    /\ out'[c] = (Copies(c))'
  BY DEF ScanInv, Copies
<1> USE DEF IInv, TypeOK
<1> DEFINE Still == /\ pc[c] = "scan" /\ UNCHANGED <<byID, byFingerprint>>
                    /\ req'[c] = req[c] /\ todo'[c] = todo[c] /\ out'[c] = out[c]
<1>1. CASE Still
  BY <1>1, CopiesKept
<1>2. CASE RLock(c)
  <2>1. todo'[c] = Candidates(req[c]) /\ out'[c] = out[c] /\ out[c] = {}
    BY <1>2 DEF RLock, LockInv
  <2>2. UNCHANGED <<byID, byFingerprint, req>>
    BY <1>2 DEF RLock, shared
  <2>3. (Candidates(req[c]))' = Candidates(req[c])
    BY <2>2 DEF Candidates
  <2>4. (Copies(c))' = {}
    BY <2>1, <2>3 DEF Copies
  <2>5. QED
    BY <2>1, <2>3, <2>4
<1>3. ASSUME NEW i \in todo[c], Visit(c, i)
      PROVE  /\ todo'[c] \subseteq (Candidates(req[c]))'
             /\ out'[c] = (Copies(c))'
  <2>1. UNCHANGED <<byID, byFingerprint, req>> /\ pc[c] = "scan"
    BY <1>3 DEF Visit, shared
  <2>2. /\ (Candidates(req[c]))' = Candidates(req[c])
        /\ \A j : Selects(req[c], byID[j].fingerprint)'
                  <=> Selects(req[c], byID[j].fingerprint)
    BY <2>1 DEF Candidates, Selects
  <2>3. todo'[c] = todo[c] \ {i} /\ todo[c] \subseteq Candidates(req[c])
    BY <1>3, <2>1 DEF Visit, ScanInv
  <2>4. out[c] = Copies(c)
    BY <2>1 DEF ScanInv, Copies
  <2>5. out'[c] = IF Selects(req[c], byID[i].fingerprint)
                  THEN out[c] \cup {byID[i]} ELSE out[c]
    BY <1>3 DEF Visit
  <2>6. (Copies(c))' = {byID[k] : k \in {j \in Candidates(req[c]) \ (todo[c] \ {i}) :
                                           Selects(req[c], byID[j].fingerprint)}}
    BY <2>1, <2>2, <2>3 DEF Copies
  <2>7. out'[c] = (Copies(c))'
    <3>1. Candidates(req[c]) \ (todo[c] \ {i})
             = (Candidates(req[c]) \ todo[c]) \cup {i}
      BY <1>3, <2>3
    <3>2. QED
      BY ZenonT(30), <2>4, <2>5, <2>6, <3>1 DEF Copies
  <2>8. QED
    BY <2>2, <2>3, <2>7
<1>4. ASSUME NEW d \in Callers,
             LookupHit(d) \/ LookupMiss(d) \/ Bump(d) \/ Insert(d) \/ Index(d)
      PROVE  FALSE
  <2>1. pc[d] \in Writing /\ pc[c] # "scan"
    BY <1>4, Alone DEF LookupHit, LookupMiss, Bump, Insert, Index, Writing, Saving
  <2>2. pc'[c] # "scan"
    BY <1>4, <2>1 DEF LookupHit, LookupMiss, Bump, Insert, Index, ReturnSave
  <2>3. QED
    BY <2>2
<1>5. ASSUME Outside, ~RLock(c), ~(\E i \in todo[c] : Visit(c, i))
      PROVE  Still
  <2> USE DEF shared
  <2>1. CASE Tick \/ UNCHANGED vars
    BY <2>1 DEF Tick, vars
  <2>2. ASSUME NEW d \in Callers, NEW q \in Requests, Call(d, q)
        PROVE  Still
    BY <2>2 DEF Call
  <2>3. ASSUME NEW d \in Callers, Announce(d) \/ Lock(d) \/ ReturnRead(d)
        PROVE  Still
    BY <2>3 DEF Announce, Lock, ReturnRead
  <2>4. ASSUME NEW d \in Callers, d # c, RLock(d)
        PROVE  Still
    BY <2>4 DEF RLock
  <2>5. ASSUME NEW d \in Callers, d # c, NEW i \in todo[d], Visit(d, i)
        PROVE  Still
    BY <2>5 DEF Visit
  <2>6. QED
    BY <1>5, <2>1, <2>2, <2>3, <2>4, <2>5 DEF Outside
<1>6. QED
  BY <1>1, <1>2, <1>3, <1>4, <1>5, StepKinds

-----------------------------------------------------------------------------
(* The theorems.                                                           *)

\* The invariant holds in every reachable state.
LEMMA Inductive == Spec => []IInv
<1>1. IInv /\ [Next]_vars => IInv'
  BY TypeStep, LockStep, DataStep, ScanStep DEF IInv, DataInv
<1>2. QED
  BY InitInv, <1>1, PTL DEF Spec

\* Every variable keeps its type and no ID exceeds the counter, whatever the
\* callers do.
THEOREM TypeCorrect == Spec => []TypeOK
<1>1. IInv => TypeOK
  BY DEF IInv
<1>2. QED
  BY Inductive, <1>1, PTL

\* Between two Saves the index and the incidents name each other one to one,
\* for any number of concurrent callers of memory_incident_repository.go.
THEOREM IndexIsConsistent == Spec => []IndexConsistent
<1>1. IInv => IndexConsistent
  <2> SUFFICES ASSUME IInv, Settled PROVE IndexConsistent
    BY DEF IndexConsistent
  <2>1. \A i : ~Unindexed(i) /\ ~Unstored(i)
    BY DEF Settled, Unindexed, Unstored
  <2>2. DOMAIN byID = 1..counter
    BY <2>1 DEF IInv, TypeOK, MapInv
  <2>3. QED
    BY <2>1, <2>2 DEF IInv, MapInv, IndexConsistent
<1>2. QED
  BY Inductive, <1>1, PTL

\* The order of the IDs is the order of the creation times.
THEOREM IdsInCreationOrder == Spec => []IdsFollowCreation
<1>1. IInv => IdsFollowCreation
  BY DEF IInv
<1>2. QED
  BY Inductive, <1>1, PTL

\* A stored incident never disappears and only its recurrence count changes.
THEOREM IncidentsOnlyRecur == Spec => OnlyRecurrenceGrows
<1> DEFINE Grows == \A i \in DOMAIN byID :
                       /\ i \in DOMAIN byID'
                       /\ byID'[i] \in {byID[i], Recurred(byID[i])}
<1>1. IInv /\ [Next]_vars => [Grows]_vars
  <2> SUFFICES ASSUME IInv, [Next]_vars PROVE Grows
    OBVIOUS
  <2> USE DEF IInv
  <2>1. CASE UNCHANGED byID
    BY <2>1
  <2>2. ASSUME NEW c \in Callers, Bump(c) PROVE Grows
    <3>1. inc[c].id \in DOMAIN byID /\ inc[c] = byID[inc[c].id]
      BY <2>2 DEF Bump, SaveInv, MapInv
    <3>2. QED
      BY <2>2, <3>1 DEF Bump, Put
  <2>3. ASSUME NEW c \in Callers, Insert(c) PROVE Grows
    <3>1. inc[c].id \notin DOMAIN byID
      BY <2>3 DEF Insert, SaveInv
    <3>2. QED
      BY <2>3, <3>1 DEF Insert, Put
  <2>4. ASSUME NEW c \in Callers, LookupHit(c) \/ LookupMiss(c) \/ Index(c)
        PROVE  UNCHANGED byID
    BY <2>4 DEF LookupHit, LookupMiss, Index, shared
  <2>5. QED
    BY <2>1, <2>2, <2>3, <2>4, StepKinds, OutsideSteps
<1>2. QED
  BY <1>1, Inductive, PTL DEF Spec, OnlyRecurrenceGrows

-----------------------------------------------------------------------------
(***************************************************************************)
(* The refinement. Bump and Index are the instant at which a Save takes    *)
(* effect, ReturnRead the instant of a read; every other step stutters.    *)
(***************************************************************************)

ResponseBar == [c \in Callers |-> {ShownOf(ret[c][k]) : k \in DOMAIN ret[c]}]

StoredBar == [fp \in DOMAIN byFingerprint |-> EntryOf(byID[byFingerprint[fp]])]

\* The instance speaks of the same requests.
LEMMA SameVocabulary ==
    /\ Store!SaveRequests = SaveRequests
    /\ Store!ReadRequests = ReadRequests
    /\ Store!Requests = Requests
    /\ Store!NoRequest = NoRequest
    /\ \A q, fp : Store!Selects(q, fp) <=> Selects(q, fp)
    /\ \A f, k, v : Store!Put(f, k, v) = Put(f, k, v)
BY DEF Store!SaveRequests, SaveRequests, Store!ReadRequests, ReadRequests,
       Store!FindRequests, FindRequests, Store!ListRequests, ListRequests,
       Store!Requests, Requests, Store!NoRequest, NoRequest, Store!Selects, Selects,
       Store!Put, Put

\* The empty repository is the empty abstract store.
LEMMA InitRefines == Init => Store!Init
<1> SUFFICES ASSUME Init PROVE Store!Init
  OBVIOUS
<1>1. ResponseBar = [c \in Callers |-> {}]
  BY DEF Init, ResponseBar
<1>2. DOMAIN byFingerprint = {}
  BY DEF Init
<1>3. StoredBar = [fp \in {} |-> [analysis |-> fp, recurrence |-> 1]]
  BY <1>2 DEF StoredBar
<1>4. req = [c \in Callers |-> NoRequest]
  BY DEF Init
<1>5. QED
  BY <1>1, <1>3, <1>4, SameVocabulary DEF Store!Init, ResponseBar, StoredBar

\* Assigning one caller's return value assigns its abstract response.
LEMMA ResponseUpdate ==
    ASSUME DOMAIN ret = Callers, NEW c \in Callers
    PROVE  \A r : ret' = [ret EXCEPT ![c] = r] =>
             ResponseBar' =
               [ResponseBar EXCEPT ![c] = {ShownOf(r[k]) : k \in DOMAIN r}]
<1> TAKE r
<1> HAVE ret' = [ret EXCEPT ![c] = r]
<1>1. \A d \in Callers : ret'[d] = IF d = c THEN r ELSE ret[d]
  OBVIOUS
<1>2. \A d \in Callers : {ShownOf(ret'[d][k]) : k \in DOMAIN ret'[d]}
         = IF d = c THEN {ShownOf(r[k]) : k \in DOMAIN r}
                    ELSE {ShownOf(ret[d][k]) : k \in DOMAIN ret[d]}
  BY <1>1
<1>3. QED
  BY <1>2 DEF ResponseBar

\* What the abstract store answers to the read c is executing.
SelectedBar(c) ==
    {Store!Show(fp, StoredBar[fp]) :
        fp \in {f \in DOMAIN StoredBar : Store!Selects(req[c], f)}}

\* A reader that has looked at everything, with no Save half done, holds
\* exactly what the abstract store would answer.
LEMMA CopiesAreSelected ==
    ASSUME IInv, NEW c \in Callers, pc[c] = "scan", todo[c] = {}
    PROVE  {ShownOf(x) : x \in Copies(c)} = SelectedBar(c)
<1> USE DEF IInv, TypeOK
<1>1. req[c] \in ReadRequests /\ readers # {}
  BY DEF LockInv
<1>2. \A i : ~Unindexed(i)
  BY <1>1 DEF LockInv, Writing, Saving, Unindexed
<1>3. \A i \in DOMAIN byID : /\ byID[i].fingerprint \in DOMAIN byFingerprint
                             /\ byFingerprint[byID[i].fingerprint] = i
  BY <1>2 DEF MapInv
<1>4. \A fp \in DOMAIN byFingerprint : /\ byFingerprint[fp] \in DOMAIN byID
                                       /\ byID[byFingerprint[fp]].fingerprint = fp
  BY DEF MapInv
<1>5. \A fp \in DOMAIN byFingerprint :
        Store!Show(fp, StoredBar[fp]) = ShownOf(byID[byFingerprint[fp]])
  BY <1>4 DEF Store!Show, StoredBar, EntryOf, ShownOf
<1>6. ASSUME NEW fp \in DOMAIN byFingerprint, Selects(req[c], fp)
      PROVE  byFingerprint[fp] \in Candidates(req[c])
  BY <1>1, <1>4, <1>6 DEF Candidates, Selects, ReadRequests, FindRequests, ListRequests
<1>7. Candidates(req[c]) \subseteq DOMAIN byID
  BY <1>1, CandidatesStored
<1>8. DOMAIN StoredBar = DOMAIN byFingerprint
  BY DEF StoredBar
<1>9. \A fp : Store!Selects(req[c], fp) <=> Selects(req[c], fp)
  BY SameVocabulary
<1>10. \A x \in Copies(c) : ShownOf(x) \in SelectedBar(c)
  <2> TAKE x \in Copies(c)
  <2>1. PICK i \in Candidates(req[c]) : x = byID[i] /\ Selects(req[c], byID[i].fingerprint)
    BY DEF Copies
  <2>2. x.fingerprint \in DOMAIN byFingerprint /\ byFingerprint[x.fingerprint] = i
    BY <1>3, <1>7, <2>1
  <2>3. ShownOf(x) = Store!Show(x.fingerprint, StoredBar[x.fingerprint])
    BY <1>5, <2>1, <2>2
  <2>4. QED
    BY <1>8, <1>9, <2>1, <2>2, <2>3 DEF SelectedBar
<1>11. ASSUME NEW fp \in DOMAIN byFingerprint, Selects(req[c], fp)
       PROVE  \E x \in Copies(c) : ShownOf(x) = Store!Show(fp, StoredBar[fp])
  <2>1. byID[byFingerprint[fp]] \in Copies(c)
    BY <1>4, <1>6, <1>11 DEF Copies
  <2>2. QED
    BY <1>5, <2>1
<1>12. QED
  BY <1>8, <1>9, <1>10, <1>11 DEF SelectedBar

\* Outside the steps that return, an answer is only cleared by a Call.
LEMMA OutsideRefines ==
    ASSUME IInv, Outside
    PROVE  [Store!Next]_(Store!vars)
<1> USE OutsideSteps DEF IInv, TypeOK
<1>1. StoredBar' = StoredBar
  BY DEF StoredBar
<1>2. CASE UNCHANGED <<req, ret>>
  <2>1. ResponseBar' = ResponseBar
    BY <1>2 DEF ResponseBar
  <2>2. QED
    BY <1>1, <1>2, <2>1 DEF Store!vars, ResponseBar, StoredBar
<1>3. ASSUME NEW c \in Callers, NEW q \in Requests, Call(c, q)
      PROVE  Store!Invoke(c, q)
  <2>1. req[c] = NoRequest /\ req' = [req EXCEPT ![c] = q]
    BY <1>3 DEF Call, LockInv
  <2>2. ret' = [ret EXCEPT ![c] = <<>>] /\ {ShownOf(<<>>[k]) : k \in DOMAIN <<>>} = {}
    BY <1>3 DEF Call
  <2>3. ResponseBar' = [ResponseBar EXCEPT ![c] = {}]
    <3>1. DOMAIN ret = Callers
      OBVIOUS
    <3>2. ResponseBar' = [ResponseBar EXCEPT ![c] = {ShownOf(<<>>[k]) : k \in DOMAIN <<>>}]
      BY <2>2, <3>1, ResponseUpdate
    <3>3. QED
      BY <2>2, <3>2
  <2>4. QED
    BY <1>1, <2>1, <2>3, SameVocabulary DEF Store!Invoke, ResponseBar, StoredBar
<1>4. ASSUME NEW c \in Callers, ReturnRead(c)
      PROVE  Store!ServeRead(c)
  <2>1. req[c] \in ReadRequests /\ out[c] = Copies(c)
        /\ Copies(c) = {byID[i] : i \in {j \in Candidates(req[c]) :
                                          Selects(req[c], byID[j].fingerprint)}}
    BY <1>4 DEF ReturnRead, LockInv, ScanInv, Copies
  <2>2. {ShownOf(x) : x \in out[c]} = SelectedBar(c)
    BY <1>4, <2>1, CopiesAreSelected DEF ReturnRead
  <2>3. PICK s \in NewestFirst(out[c]) : ret' = [ret EXCEPT ![c] = s]
    BY <1>4 DEF ReturnRead
  <2>4. {ShownOf(s[k]) : k \in DOMAIN s} = {ShownOf(x) : x \in out[c]}
    BY <2>3 DEF NewestFirst
  <2>5. ResponseBar' = [ResponseBar EXCEPT ![c] = SelectedBar(c)]
    <3>1. DOMAIN ret = Callers
      OBVIOUS
    <3>2. ResponseBar' = [ResponseBar EXCEPT ![c] = {ShownOf(s[k]) : k \in DOMAIN s}]
      BY <2>3, <3>1, ResponseUpdate
    <3>3. QED
      BY <2>2, <2>4, <3>2
  <2>6. req' = [req EXCEPT ![c] = NoRequest]
    BY <1>4 DEF ReturnRead
  <2>7. QED
    BY <1>1, <2>1, <2>5, <2>6, SameVocabulary
       DEF Store!ServeRead, ResponseBar, StoredBar, SelectedBar
<1>5. CASE \/ Tick \/ UNCHANGED vars
           \/ \E c \in Callers : \/ Announce(c) \/ Lock(c) \/ RLock(c)
                                 \/ \E i \in todo[c] : Visit(c, i)
  <2>1. UNCHANGED <<req, ret>>
    BY <1>5 DEF Tick, Announce, Lock, RLock, Visit, vars
  <2>2. QED
    BY <1>2, <2>1
<1>6. QED
  BY <1>3, <1>4, <1>5, SameVocabulary DEF Outside, Store!Next

\* A Save answers its caller with one incident.
LEMMA SaveResponse ==
    ASSUME IInv, NEW c \in Callers
    PROVE  \A x : ret' = [ret EXCEPT ![c] = <<x>>] =>
                  ResponseBar' = [ResponseBar EXCEPT ![c] = {ShownOf(x)}]
<1> TAKE x
<1> HAVE ret' = [ret EXCEPT ![c] = <<x>>]
<1>1. DOMAIN ret = Callers
  BY DEF IInv, TypeOK
<1>2. ResponseBar' =
        [ResponseBar EXCEPT ![c] = {ShownOf(<<x>>[k]) : k \in DOMAIN <<x>>}]
  BY <1>1, ResponseUpdate
<1>3. {ShownOf(<<x>>[k]) : k \in DOMAIN <<x>>} = {ShownOf(x)}
  OBVIOUS
<1>4. QED
  BY <1>2, <1>3

\* A hit that is written back is the abstract Save of a known fingerprint.
LEMMA BumpRefines ==
    ASSUME IInv, NEW c \in Callers, Bump(c)
    PROVE  Store!ServeSave(c)
<1> DEFINE old == inc[c]
           fp == req[c].fingerprint
<1> USE DEF IInv, TypeOK
<1>1. /\ req[c] \in SaveRequests
      /\ old \in Incidents /\ old.fingerprint = fp
      /\ fp \in DOMAIN byFingerprint /\ old = byID[byFingerprint[fp]]
  BY DEF Bump, LockInv, SaveInv, Saving
<1>1a. req[c].op = "Save"
  BY <1>1, RequestKinds
<1>2. old.id = byFingerprint[fp] /\ old.id \in DOMAIN byID
  BY <1>1 DEF MapInv
<1>3. /\ byFingerprint' = byFingerprint
      /\ byID'[old.id] = Recurred(old)
      /\ \A i \in DOMAIN byID : i # old.id => byID'[i] = byID[i]
  BY <1>2 DEF Bump, Put
<1>4. EntryOf(Recurred(old)) = [StoredBar[fp] EXCEPT !.recurrence = @ + 1]
  BY <1>1 DEF EntryOf, Recurred, StoredBar, Incidents
<1>5. DOMAIN StoredBar = DOMAIN byFingerprint
  BY DEF StoredBar
<1>6. StoredBar' = Put(StoredBar, fp, EntryOf(Recurred(old)))
  <2>1. \A f \in DOMAIN byFingerprint : f # fp => byFingerprint[f] # old.id
    BY <1>1, <1>2 DEF MapInv
  <2>2. \A f \in DOMAIN byFingerprint :
          EntryOf(byID'[byFingerprint[f]])
            = IF f = fp THEN EntryOf(Recurred(old)) ELSE StoredBar[f]
    BY <1>2, <1>3, <2>1 DEF StoredBar, MapInv
  <2>3. StoredBar' = [f \in DOMAIN byFingerprint |-> EntryOf(byID'[byFingerprint[f]])]
    BY <1>3 DEF StoredBar
  <2>4. DOMAIN byFingerprint \cup {fp} = DOMAIN byFingerprint
    BY <1>1
  <2>5. QED
    BY <1>5, <2>2, <2>3, <2>4 DEF Put
<1>7. ShownOf(Recurred(old)) = Store!Show(fp, EntryOf(Recurred(old)))
  BY <1>1 DEF ShownOf, EntryOf, Recurred, Store!Show, Incidents
<1>8. ResponseBar' = [ResponseBar EXCEPT ![c] = {ShownOf(Recurred(old))}]
  BY SaveResponse DEF Bump, ReturnSave
<1>9. req' = [req EXCEPT ![c] = NoRequest]
  BY DEF Bump, ReturnSave
<1>10. QED
  BY <1>1, <1>1a, <1>4, <1>5, <1>6, <1>7, <1>8, <1>9, SameVocabulary
     DEF Store!ServeSave, Store!AfterSave, ResponseBar, StoredBar

\* Indexing a new incident is the abstract Save of an unknown fingerprint.
LEMMA IndexRefines ==
    ASSUME IInv, NEW c \in Callers, Index(c)
    PROVE  Store!ServeSave(c)
<1> DEFINE new == inc[c]
           fp == req[c].fingerprint
<1> USE DEF IInv, TypeOK
<1>1. /\ req[c] \in SaveRequests
      /\ new \in Incidents /\ new.fingerprint = fp
      /\ new.analysis = req[c].analysis /\ new.recurrence = 1
      /\ fp \notin DOMAIN byFingerprint /\ new = byID[new.id]
  BY DEF Index, LockInv, SaveInv, Saving
<1>1a. req[c].op = "Save"
  BY <1>1, RequestKinds
<1>2. /\ byID' = byID
      /\ DOMAIN byFingerprint' = DOMAIN byFingerprint \cup {fp}
      /\ byFingerprint'[fp] = new.id
      /\ \A f \in DOMAIN byFingerprint : byFingerprint'[f] = byFingerprint[f]
  BY <1>1 DEF Index, Put
<1>3. EntryOf(new) = [analysis |-> req[c].analysis, recurrence |-> 1]
  BY <1>1 DEF EntryOf
<1>4. DOMAIN StoredBar = DOMAIN byFingerprint
  BY DEF StoredBar
<1>5. StoredBar' = Put(StoredBar, fp, EntryOf(new))
  <2>1. \A f \in DOMAIN byFingerprint' :
          EntryOf(byID'[byFingerprint'[f]])
            = IF f = fp THEN EntryOf(new) ELSE StoredBar[f]
    BY <1>1, <1>2 DEF StoredBar
  <2>2. StoredBar' = [f \in DOMAIN byFingerprint' |-> EntryOf(byID'[byFingerprint'[f]])]
    BY DEF StoredBar
  <2>3. QED
    BY <1>2, <1>4, <2>1, <2>2 DEF Put
<1>6. ShownOf(new) = Store!Show(fp, EntryOf(new))
  BY <1>1 DEF ShownOf, EntryOf, Store!Show
<1>7. ResponseBar' = [ResponseBar EXCEPT ![c] = {ShownOf(new)}]
  BY SaveResponse DEF Index, ReturnSave
<1>8. req' = [req EXCEPT ![c] = NoRequest]
  BY DEF Index, ReturnSave
<1>9. QED
  BY <1>1, <1>1a, <1>3, <1>4, <1>5, <1>6, <1>7, <1>8, SameVocabulary
     DEF Store!ServeSave, Store!AfterSave, ResponseBar, StoredBar

\* The two lookups are invisible through the refinement, and so is Insert: the
\* new incident has no index entry yet.
LEMMA HiddenRefines ==
    ASSUME IInv, NEW c \in Callers, LookupHit(c) \/ LookupMiss(c) \/ Insert(c)
    PROVE  UNCHANGED (Store!vars)
<1> USE DEF IInv, TypeOK
<1>1. UNCHANGED <<byFingerprint, req, ret>>
  BY DEF LookupHit, LookupMiss, Insert, shared
<1>2. \A i \in DOMAIN byID : byID'[i] = byID[i]
  <2>1. CASE Insert(c)
    BY <2>1 DEF Insert, SaveInv, Put
  <2>2. CASE LookupHit(c) \/ LookupMiss(c)
    BY <2>2 DEF LookupHit, LookupMiss, shared
  <2>3. QED
    BY <2>1, <2>2
<1>3. \A fp \in DOMAIN byFingerprint : byID'[byFingerprint[fp]] = byID[byFingerprint[fp]]
  BY <1>2 DEF MapInv
<1>4. StoredBar' = StoredBar
  BY <1>1, <1>3 DEF StoredBar
<1>5. ResponseBar' = ResponseBar
  BY <1>1 DEF ResponseBar
<1>6. QED
  BY <1>1, <1>4, <1>5 DEF Store!vars, ResponseBar, StoredBar

\* Every behaviour of the mutex-protected maps is a behaviour of the atomic
\* store the port promises.
THEOREM RepositoryImplementsStore == Spec => ImplementsStore
<1>1. IInv /\ [Next]_vars => [Store!Next]_(Store!vars)
  <2> SUFFICES ASSUME IInv, [Next]_vars PROVE [Store!Next]_(Store!vars)
    OBVIOUS
  <2>1. CASE Outside
    BY <2>1, OutsideRefines
  <2>2. ASSUME NEW c \in Callers, Bump(c) \/ Index(c)
        PROVE  Store!Next
    BY <2>2, BumpRefines, IndexRefines DEF Store!Next
  <2>3. ASSUME NEW c \in Callers, LookupHit(c) \/ LookupMiss(c) \/ Insert(c)
        PROVE  UNCHANGED (Store!vars)
    BY <2>3, HiddenRefines
  <2>4. QED
    BY <2>1, <2>2, <2>3, StepKinds
<1>2. QED
  BY <1>1, InitRefines, Inductive, PTL DEF Spec, ImplementsStore, Store!Spec

=============================================================================
