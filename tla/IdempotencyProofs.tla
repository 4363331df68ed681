-------------------------- MODULE IdempotencyProofs --------------------------
(***************************************************************************)
(* The safety properties of Idempotency for every number of requests and   *)
(* every choice of the durations.                                          *)
(***************************************************************************)
EXTENDS Idempotency, FiniteSetTheorems, TLAPS

\* Nobody knows a time that is still to come.
ClockInv == \A r \in Requests : now[r] <= clock /\ claimedAt[r] <= clock

\* A request that has found or taken a record knows its id, and the record with that id,
\* as long as it exists, is one of the request's own payload.
KnowsItsRecord(r) ==
    /\ pc[r] \in OwnerStates => /\ recordId[r] # 0
                                /\ recordId[r] = row.id => row.fingerprint = Fingerprint[r]
    /\ pc[r] \in {"reclaim", "reclaim_expired"} =>
           /\ seen[r].id # 0
           /\ seen[r].id = row.id => row.fingerprint = Fingerprint[r]
PayloadInv == \A r \in Requests : KnowsItsRecord(r)

\* The handler of a request has succeeded exactly when the request is about to mark, or
\* has left, its record; a stored response is the one of a handler that succeeded.
EffectInv ==
    /\ \A r \in Requests : /\ pc[r] = "mark_succeeded" => r \in effects
                           /\ r \in effects => pc[r] \in {"mark_succeeded", "done"}
    /\ row.status = "succeeded" =>
           row.body \in effects /\ Fingerprint[row.body] = row.fingerprint

\* What an owner can rely on as long as no request is late: the record is as the owner
\* wrote it, it is the only owner and the last one that claimed the record, and whoever
\* still is about to reclaim an expired record started before the owner's claim.
OwnsAlone(o) ==
    /\ row.id = recordId[o] /\ row.status = "processing"
    /\ row.lockedUntil = LockedUntil(o) /\ row.expiresAt = ExpiresAt(o)
    /\ clock < ExpiresAt(o) /\ claimedAt[o] < LockedUntil(o)
    /\ \A p \in Owners : p = o
    /\ \A r \in Requests : pc[r] = "reclaim_expired" => now[r] <= claimedAt[o]
    /\ \A s \in effects : claimedAt[s] <= claimedAt[o]
OwnerInv == ~late => \A o \in Owners : OwnsAlone(o)

\* A stored response is the one of the last request that claimed the record.
StoredIsLatest ==
    row.status = "succeeded" => \A s \in effects : claimedAt[s] <= claimedAt[row.body]
LatestInv == ~late => StoredIsLatest

\* A handler that succeeded occupies the record until the life it gave it is over, and
\* whoever claims the record afterwards does so after that.
LivesOn(r) ==
    \/ ExpiresAt(r) <= clock
    \/ Exists(row) /\ row.expiresAt = ExpiresAt(r) /\ row.status # "failed_retryable"
OneLife ==
    /\ \A r \in effects : LivesOn(r)
    /\ \A o \in Owners, r \in effects : r # o => ExpiresAt(r) <= claimedAt[o]
    /\ AllTTLApart
LifeInv == ~late /\ ~overtaken => OneLife

IInv == TypeOK /\ ClockInv /\ PayloadInv /\ EffectInv /\ OwnerInv /\ LatestInv /\ LifeInv

-----------------------------------------------------------------------------
(* Types                                                                   *)

PCs == Running \union {"idle", "done"}

\* The part of TypeOK about the local variables of the requests.
LocalsOK ==
    /\ pc \in [Requests -> PCs]
    /\ now \in [Requests -> 0..MaxClock]
    /\ recordId \in [Requests -> 0..lastId]
    /\ seen \in [Requests -> [id : 0..lastId, status : RecordStatuses \union {"none"}]]
    /\ until \in [Requests -> Nat]
    /\ answer \in [Requests -> [kind : Kinds, body : Requests \union {NoBody}]]
    /\ claimedAt \in [Requests -> 0..MaxClock]

\* The record after any statement has the columns of a record.
LEMMA CreateType ==
    ASSUME NEW w \in Rows, NEW id \in Nat, NEW fp \in Fingerprints, NEW t \in Nat, NEW u \in Nat
    PROVE  CreateProcessing(w, id, fp, t, u) \in Rows
BY DEF Rows, RecordStatuses, CreateProcessing

\* ... also after TryReclaim,
LEMMA ReclaimType ==
    ASSUME NEW w \in Rows, NEW t \in Nat, NEW u \in Nat
    PROVE  TryReclaim(w, t, u) \in Rows
BY DEF Rows, RecordStatuses, TryReclaim

\* ... after MarkSucceeded,
LEMMA SucceededType ==
    ASSUME NEW w \in Rows, NEW id \in Nat, NEW body \in Bodies, NEW u \in Nat
    PROVE  MarkSucceeded(w, id, body, u) \in Rows
BY DEF Rows, RecordStatuses, MarkSucceeded

\* ... and after MarkFailedRetryable.
LEMMA FailedType ==
    ASSUME NEW w \in Rows, NEW id \in Nat, NEW t \in Nat, NEW u \in Nat
    PROVE  MarkFailedRetryable(w, id, t, u) \in Rows
BY DEF Rows, RecordStatuses, MarkFailedRetryable

\* Each way in which a statement of a request ends keeps the types of the locals.
LEMMA ReturnType ==
    ASSUME LocalsOK, NEW r \in Requests, NEW kind \in Kinds, NEW body \in Requests \union {NoBody},
           Return(r, Answer(kind, body)), UNCHANGED lastId, lastId \in Nat, MaxClock \in Nat
    PROVE  LocalsOK'
<1>1. pc' \in [Requests -> PCs]
  BY DEF LocalsOK, Return, PCs
<1>2. now' \in [Requests -> 0..MaxClock] /\ claimedAt' \in [Requests -> 0..MaxClock]
  <2>1. /\ now' = now \/ now' = [now EXCEPT ![r] = 0]
        /\ claimedAt' = claimedAt \/ claimedAt' = [claimedAt EXCEPT ![r] = 0]
    BY DEF Return
  <2> QED
    BY <2>1 DEF LocalsOK
<1>3. recordId' \in [Requests -> 0..lastId']
  BY DEF LocalsOK, Return
<1>4. seen' \in [Requests -> [id : 0..lastId', status : RecordStatuses \union {"none"}]]
  BY DEF LocalsOK, Return, NothingSeen
<1>5. until' \in [Requests -> Nat]
  BY DEF LocalsOK, Return
<1>6. answer' \in [Requests -> [kind : Kinds, body : Requests \union {NoBody}]]
  BY DEF LocalsOK, Return, Answer
<1> QED
  BY <1>1, <1>2, <1>3, <1>4, <1>5, <1>6 DEF LocalsOK

\* A request that goes on to its next statement keeps the types of the locals.
LEMMA ContinueType ==
    ASSUME LocalsOK, NEW r \in Requests, NEW where \in PCs, Continue(r, where), UNCHANGED lastId
    PROVE  LocalsOK'
BY DEF LocalsOK, Continue

\* So does one that goes on with the record it has just read.
LEMMA ContinueWithType ==
    ASSUME LocalsOK, NEW r \in Requests, NEW where \in PCs, ContinueWith(r, where, row),
           row \in Rows, row.id \in 0..lastId, UNCHANGED lastId
    PROVE  LocalsOK'
<1>1. seen' \in [Requests -> [id : 0..lastId', status : RecordStatuses \union {"none"}]]
  BY DEF LocalsOK, ContinueWith, Rows
<1> QED
  BY <1>1 DEF LocalsOK, ContinueWith

\* So does one that has become the owner of the record.
LEMMA TakeOwnershipType ==
    ASSUME LocalsOK, NEW r \in Requests, NEW id \in Nat, TakeOwnership(r, id), id <= lastId',
           lastId \in Nat, lastId' \in Nat, lastId <= lastId', clock \in 0..MaxClock
    PROVE  LocalsOK'
<1>1. pc' \in [Requests -> PCs] /\ claimedAt' \in [Requests -> 0..MaxClock]
  BY DEF LocalsOK, TakeOwnership, PCs, Running, OwnerStates
<1>2. recordId' \in [Requests -> 0..lastId']
  BY DEF LocalsOK, TakeOwnership
<1>3. seen' \in [Requests -> [id : 0..lastId', status : RecordStatuses \union {"none"}]]
  BY DEF LocalsOK, TakeOwnership, NothingSeen
<1> QED
  BY <1>1, <1>2, <1>3 DEF LocalsOK, TakeOwnership

\* A request dispatches on the status of the record it has read.
LEMMA DispatchType ==
    ASSUME LocalsOK, NEW r \in Requests, Dispatch(r, row), row \in Rows, row.id \in 0..lastId,
           UNCHANGED lastId, lastId \in Nat
    PROVE  LocalsOK'
<1> USE DurationAssumption, BodiesAssumption
<1>1. ASSUME NEW a \in {"unavailable", "in_progress", "backoff"}, Fail(r, a) PROVE LocalsOK'
  <2>1. a \in Kinds
    BY DEF Kinds
  <2> QED
    BY <1>1, <2>1, ReturnType DEF Fail
<1>2. CASE Return(r, Replay(row.body))
  <2>1. "replayed" \in Kinds /\ row.body \in Requests \union {NoBody}
    BY DEF Kinds, Rows
  <2> QED
    BY <1>2, <2>1, ReturnType DEF Replay
<1>3. CASE ContinueWith(r, "reclaim", row)
  <2>1. "reclaim" \in PCs
    BY DEF PCs, Running
  <2> QED
    BY <1>3, <2>1, ContinueWithType
<1> QED
  BY <1>1, <1>2, <1>3 DEF Dispatch

\* One step of a request, of the cleanup job or of the clock keeps the types.
LEMMA TypeStep ==
    ASSUME TypeOK, ClockInv, [Next]_vars
    PROVE  TypeOK'
<1> USE DurationAssumption
<1>0. /\ row \in Rows /\ row.id \in 0..lastId /\ lastId \in Nat /\ clock \in 0..MaxClock
      /\ clock \in Nat /\ LocalsOK /\ effects \subseteq Requests
      /\ row.expiresAt \in Nat /\ row.expiresAt <= clock + TTL
  BY DEF TypeOK, LocalsOK, PCs, Rows
<1>a. \A r \in Requests : /\ now[r] \in Nat /\ now[r] <= clock
                          /\ LockedUntil(r) \in Nat /\ ExpiresAt(r) \in Nat
                          /\ ExpiresAt(r) <= clock + TTL
  BY <1>0 DEF TypeOK, ClockInv, LockedUntil, ExpiresAt
<1>b. \A r \in Requests : recordId[r] \in Nat /\ until[r] \in Nat
                          /\ Fingerprint[r] \in Fingerprints /\ r \in Bodies
  BY RequestsAssumption, BodiesAssumption DEF TypeOK
<1>c. late' \in BOOLEAN
  BY DEF Next, RequestStep, Begin, Create, GetExisting, ReclaimExpired, GetLatest, ReclaimFailed,
         Execute, ExecuteSucceeded, ExecuteFailed, Abort, CleanupOnce, Tick, TakeOwnership,
         TypeOK, vars
<1>d. overtaken' \in BOOLEAN
  BY DEF Next, RequestStep, Begin, Create, GetExisting, ReclaimExpired, GetLatest, ReclaimFailed,
         Execute, ExecuteSucceeded, ExecuteFailed, Abort, CleanupOnce, Tick, TypeOK, vars
<1>e. SUFFICES /\ LocalsOK' /\ row' \in Rows /\ row'.id \in 0..lastId' /\ lastId' \in Nat
               /\ clock' \in 0..MaxClock /\ effects' \subseteq Requests
               /\ row'.expiresAt <= clock' + TTL
  BY <1>c, <1>d DEF TypeOK, LocalsOK, PCs
<1>f. ASSUME NEW r \in Requests, NEW kind \in Kinds, Fail(r, kind), UNCHANGED lastId
      PROVE  LocalsOK'
  BY <1>0, <1>f, ReturnType DEF Fail
<1>g. {"in_progress", "conflict", "unavailable", "failed", "executed"} \subseteq Kinds
      /\ {"get", "get_latest", "reclaim_expired", "mark_succeeded", "mark_failed"} \subseteq PCs
  BY DEF Kinds, PCs, Running, OwnerStates
<1>h. ASSUME NEW r \in Requests, row' = TryReclaim(row, LockedUntil(r), ExpiresAt(r))
      PROVE  row' \in Rows /\ row'.id = row.id /\ row'.expiresAt <= clock + TTL
  <2>1. row' \in Rows
    BY <1>0, <1>a, <1>h, ReclaimType
  <2>2. row'.id = row.id /\ row'.expiresAt = ExpiresAt(r)
    BY <1>0, <1>h DEF TryReclaim, Rows
  <2> QED
    BY <2>1, <2>2, <1>a
<1>1. ASSUME NEW r \in Requests, Begin(r)
      PROVE  LocalsOK' /\ UNCHANGED <<row, lastId, clock, effects>>
  <2>1. pc' = [pc EXCEPT ![r] = "create"] /\ now' = [now EXCEPT ![r] = clock]
        /\ UNCHANGED <<row, lastId, clock, recordId, seen, until, answer, claimedAt, effects>>
    BY <1>1 DEF Begin
  <2>2. "create" \in PCs
    BY DEF PCs, Running
  <2> QED
    BY <1>0, <2>1, <2>2 DEF LocalsOK
<1>2. ASSUME NEW r \in Requests, Create(r)
      PROVE  /\ LocalsOK' /\ row' \in Rows /\ row'.id \in 0..lastId' /\ lastId' \in Nat
             /\ UNCHANGED <<clock, effects>> /\ row'.expiresAt <= clock + TTL
  <2>1. row' \in Rows
    BY <1>2, <1>0, <1>a, <1>b, CreateType DEF Create
  <2>2. CASE Exists(row)
    <3>1. row' = row /\ lastId' = lastId /\ Continue(r, "get") /\ UNCHANGED <<clock, effects>>
      BY <1>2, <2>2 DEF Create, CreateProcessing
    <3> QED
      BY <3>1, <1>0, <1>g, ContinueType
  <2>3. CASE ~Exists(row)
    <3>1. TakeOwnership(r, lastId + 1) /\ lastId' = lastId + 1 /\ UNCHANGED <<clock, effects>>
      BY <1>2, <2>3 DEF Create
    <3>2. row'.id = lastId + 1 /\ row'.expiresAt = ExpiresAt(r)
      BY <1>2, <2>3 DEF Create, CreateProcessing
    <3>3. LocalsOK'
      BY <3>1, <1>0, TakeOwnershipType
    <3> QED
      BY <2>1, <3>1, <3>2, <3>3, <1>0, <1>a
  <2> QED  BY <2>2, <2>3
<1>3. ASSUME NEW r \in Requests, GetExisting(r) \/ GetLatest(r)
      PROVE  LocalsOK' /\ UNCHANGED <<row, lastId, clock, effects>>
  <2>1. UNCHANGED <<row, lastId, clock, effects>>
    BY <1>3 DEF GetExisting, GetLatest
  <2>2. \/ Fail(r, "unavailable") \/ Fail(r, "conflict") \/ ContinueWith(r, "reclaim_expired", row)
        \/ Dispatch(r, row)
    BY <1>3 DEF GetExisting, GetLatest
  <2>3. CASE Fail(r, "unavailable") \/ Fail(r, "conflict")
    BY <2>1, <2>3, <1>f, <1>g
  <2>4. CASE ContinueWith(r, "reclaim_expired", row)
    BY <2>1, <2>4, <1>0, <1>g, ContinueWithType
  <2>5. CASE Dispatch(r, row)
    BY <2>1, <2>5, <1>0, DispatchType
  <2> QED
    BY <2>1, <2>2, <2>3, <2>4, <2>5
<1>4. ASSUME NEW r \in Requests, ReclaimExpired(r) \/ ReclaimFailed(r)
      PROVE  /\ LocalsOK' /\ row' \in Rows /\ row'.id = row.id
             /\ UNCHANGED <<lastId, clock, effects>> /\ row'.expiresAt <= clock + TTL
  <2>1. UNCHANGED <<lastId, clock, effects>>
    BY <1>4 DEF ReclaimExpired, ReclaimFailed
  <2>2. \/ /\ row' = TryReclaim(row, LockedUntil(r), ExpiresAt(r))
           /\ TakeOwnership(r, seen[r].id) /\ seen[r].id = row.id
        \/ row' = row /\ (Continue(r, "get_latest") \/ Fail(r, "in_progress"))
    BY <1>4 DEF ReclaimExpired, ReclaimFailed, Reclaimable
  <2>3. CASE row' = TryReclaim(row, LockedUntil(r), ExpiresAt(r)) /\ TakeOwnership(r, row.id)
    BY <2>1, <2>3, <1>0, <1>h, TakeOwnershipType
  <2>4. CASE row' = row /\ Continue(r, "get_latest")
    BY <2>1, <2>4, <1>0, <1>g, ContinueType
  <2>5. CASE row' = row /\ Fail(r, "in_progress")
    BY <2>1, <2>5, <1>0, <1>f, <1>g
  <2> QED
    BY <2>2, <2>3, <2>4, <2>5
<1>5. ASSUME NEW r \in Requests, Execute(r)
      PROVE  LocalsOK' /\ effects' \subseteq Requests /\ UNCHANGED <<row, lastId, clock>>
  <2>1. effects' \subseteq Requests /\ UNCHANGED <<row, lastId, clock>>
    BY <1>5, <1>0 DEF Execute
  <2>2. CASE Continue(r, "mark_succeeded")
    BY <2>1, <2>2, <1>0, <1>g, ContinueType
  <2>3. CASE /\ pc' = [pc EXCEPT ![r] = "mark_failed"]
             /\ until' = [until EXCEPT ![r] = clock + FailedRetryBackoff]
             /\ UNCHANGED <<now, recordId, seen, answer, claimedAt>>
    <3>1. until' \in [Requests -> Nat]
      BY <2>3, <1>0 DEF LocalsOK
    <3>2. pc' \in [Requests -> PCs]
      BY <2>3, <1>0, <1>g DEF LocalsOK
    <3> QED
      BY <2>1, <2>3, <3>1, <3>2, <1>0 DEF LocalsOK
  <2> QED
    BY <1>5, <2>1, <2>2, <2>3 DEF Execute
<1>6. ASSUME NEW r \in Requests, ExecuteSucceeded(r) \/ ExecuteFailed(r)
      PROVE  /\ LocalsOK' /\ row' \in Rows /\ row'.id = row.id
             /\ UNCHANGED <<lastId, clock, effects>> /\ row'.expiresAt <= clock + TTL
  <2>1. UNCHANGED <<lastId, clock, effects>>
    BY <1>6 DEF ExecuteSucceeded, ExecuteFailed
  <2>2. CASE row' = MarkSucceeded(row, recordId[r], r, ExpiresAt(r)) /\ Return(r, Answer("executed", r))
    <3>1. LocalsOK'
      BY <2>1, <2>2, <1>0, <1>g, ReturnType
    <3>2. row' \in Rows
      BY <2>2, <1>0, <1>a, <1>b, SucceededType
    <3>3. row'.id = row.id /\ row'.expiresAt \in {row.expiresAt, ExpiresAt(r)}
      BY <2>2, <1>0 DEF MarkSucceeded, Rows
    <3> QED
      BY <2>1, <3>1, <3>2, <3>3, <1>0, <1>a
  <2>3. CASE row' = MarkFailedRetryable(row, recordId[r], until[r], ExpiresAt(r)) /\ Fail(r, "failed")
    <3>1. LocalsOK'
      BY <2>1, <2>3, <1>f, <1>g
    <3>2. row' \in Rows
      BY <2>3, <1>0, <1>a, <1>b, FailedType
    <3>3. row'.id = row.id /\ row'.expiresAt \in {row.expiresAt, ExpiresAt(r)}
      BY <2>3, <1>0 DEF MarkFailedRetryable, Rows
    <3> QED
      BY <2>1, <3>1, <3>2, <3>3, <1>0, <1>a
  <2> QED
    BY <1>6, <2>2, <2>3 DEF ExecuteSucceeded, ExecuteFailed
<1>7. ASSUME NEW r \in Requests, Abort(r)
      PROVE  LocalsOK' /\ UNCHANGED <<row, lastId, clock, effects>>
  <2>1. UNCHANGED <<row, lastId, clock, effects>> /\ (Fail(r, "failed") \/ Fail(r, "unavailable"))
    BY <1>7 DEF Abort
  <2> QED
    BY <2>1, <1>f, <1>g
<1>8. CASE CleanupOnce
  <2>1. row' = NoRow /\ UNCHANGED <<lastId, clock, locals, claimedAt, effects>>
    BY <1>8 DEF CleanupOnce, DeleteExpired
  <2>2. row' \in Rows /\ row'.id = 0 /\ row'.expiresAt = 0
    BY <2>1 DEF NoRow, Rows, RecordStatuses
  <2> QED
    BY <2>1, <2>2, <1>0 DEF LocalsOK, locals
<1>9. CASE Tick
  BY <1>0, <1>9 DEF Tick, LocalsOK, locals
<1>10. CASE UNCHANGED vars
  BY <1>0, <1>10 DEF vars, LocalsOK, locals
<1> QED
  BY <1>0, <1>1, <1>2, <1>3, <1>4, <1>5, <1>6, <1>7, <1>8, <1>9, <1>10 DEF Next, RequestStep

-----------------------------------------------------------------------------
(* What the steps of a request amount to                                   *)

\* The other requests notice nothing.
Others(r) ==
    \A q \in Requests \ {r} :
        /\ pc'[q] = pc[q] /\ now'[q] = now[q] /\ claimedAt'[q] = claimedAt[q]
        /\ recordId'[q] = recordId[q] /\ seen'[q] = seen[q]

\* A request that does not own the record, or no longer does, moves on and leaves the
\* record alone.
Quiet(r) ==
    /\ UNCHANGED <<row, lastId, clock, effects, late, overtaken>>
    /\ Others(r)
    /\ pc'[r] \in PCs \ OwnerStates
    /\ now'[r] \in {0, now[r], clock} /\ claimedAt'[r] \in {0, claimedAt[r]}
    /\ r \in effects => pc'[r] = "done" /\ now'[r] = now[r] /\ claimedAt'[r] = claimedAt[r]
    /\ pc'[r] \in {"reclaim", "reclaim_expired"} =>
           seen'[r].id = row.id /\ Exists(row) /\ row.fingerprint = Fingerprint[r]
    /\ pc'[r] = "reclaim_expired" => row.expiresAt <= now'[r]

\* A request takes the record: it inserts it, or retakes the one it has read.
Retakes(r) ==
    /\ pc[r] \in {"reclaim", "reclaim_expired"} /\ row.id = seen[r].id
    /\ row'.id = row.id /\ row'.fingerprint = row.fingerprint
    /\ row.lockedUntil <= now[r]
    /\ pc[r] = "reclaim" => row.status = "failed_retryable"
    /\ pc[r] = "reclaim_expired" /\ ~overtaken' => row.expiresAt <= now[r]
Inserts(r) ==
    /\ pc[r] = "create" /\ ~Exists(row)
    /\ row'.id = lastId + 1 /\ row'.fingerprint = Fingerprint[r]
Claims(r) ==
    /\ UNCHANGED <<clock, effects>>
    /\ Others(r)
    /\ pc'[r] = "execute" /\ now'[r] = now[r] /\ claimedAt'[r] = clock /\ recordId'[r] = row'.id
    /\ row'.status = "processing"
    /\ row'.lockedUntil = LockedUntil(r) /\ row'.expiresAt = ExpiresAt(r)
    /\ Inserts(r) \/ Retakes(r)
    /\ ~late' => ~late /\ ~(clock >= LockedUntil(r))
    /\ ~overtaken' => ~overtaken

\* The handler of an owner ends.
Runs(r) ==
    /\ UNCHANGED <<row, lastId, clock, late, overtaken>>
    /\ Others(r)
    /\ pc[r] = "execute"
    /\ UNCHANGED <<now, claimedAt, recordId>>
    /\ \/ pc'[r] = "mark_succeeded" /\ effects' = effects \union {r}
       \/ pc'[r] = "mark_failed" /\ effects' = effects

\* An owner marks the record, if it is still there, and returns.
Marks(r) ==
    /\ UNCHANGED <<lastId, clock, effects, late, overtaken>>
    /\ Others(r)
    /\ pc[r] \in {"mark_succeeded", "mark_failed"} /\ pc'[r] = "done"
    /\ now'[r] \in {0, now[r]} /\ claimedAt'[r] \in {0, claimedAt[r]}
    /\ r \in effects => now'[r] = now[r] /\ claimedAt'[r] = claimedAt[r]
    /\ \/ row' = row /\ (~Exists(row) \/ row.id # recordId[r])
       \/ /\ row.id = recordId[r] /\ row'.id = row.id /\ row'.fingerprint = row.fingerprint
          /\ row'.expiresAt = ExpiresAt(r)
          /\ \/ pc[r] = "mark_succeeded" /\ row'.status = "succeeded" /\ row'.body = r
             \/ pc[r] = "mark_failed" /\ row'.status = "failed_retryable"

\* Return ends the request and touches nobody else; it keeps the times of a request that had
\* an effect.
LEMMA ReturnIsQuiet ==
    ASSUME LocalsOK, NEW r \in Requests, NEW a, Return(r, a)
    PROVE  /\ Others(r) /\ pc'[r] = "done"
           /\ now'[r] \in {0, now[r]} /\ claimedAt'[r] \in {0, claimedAt[r]}
           /\ r \in effects => now'[r] = now[r] /\ claimedAt'[r] = claimedAt[r]
<1>1. /\ pc' = [pc EXCEPT ![r] = "done"]
      /\ recordId' = [recordId EXCEPT ![r] = 0]
      /\ seen' = [seen EXCEPT ![r] = NothingSeen]
  BY DEF Return
<1>2. CASE r \in effects
  <2>1. now' = now /\ claimedAt' = claimedAt
    BY <1>2 DEF Return
  <2> QED
    BY <1>1, <2>1 DEF LocalsOK, Others
<1>3. CASE r \notin effects
  <2>1. now' = [now EXCEPT ![r] = 0] /\ claimedAt' = [claimedAt EXCEPT ![r] = 0]
    BY <1>3 DEF Return
  <2> QED
    BY <1>1, <1>3, <2>1 DEF LocalsOK, Others
<1> QED  BY <1>2, <1>3

\* An answer without a statement is a quiet step.
LEMMA FailIsQuiet ==
    ASSUME LocalsOK, NEW r \in Requests, NEW a, Return(r, a),
           UNCHANGED <<row, lastId, clock, effects, late, overtaken>>
    PROVE  Quiet(r)
BY ReturnIsQuiet DEF Quiet, PCs, OwnerStates

\* Going on to read the record is a quiet step.
LEMMA ContinueIsQuiet ==
    ASSUME LocalsOK, NEW r \in Requests, NEW where \in {"get", "get_latest"}, Continue(r, where),
           r \notin effects, UNCHANGED <<row, lastId, clock, effects, late, overtaken>>
    PROVE  Quiet(r)
<1>1. /\ pc' = [pc EXCEPT ![r] = where] /\ now' = now /\ claimedAt' = claimedAt
      /\ recordId' = recordId /\ seen' = seen
  BY DEF Continue
<1>2. Others(r) /\ pc'[r] = where
  BY <1>1 DEF Others, LocalsOK
<1>3. where \in PCs \ OwnerStates
  BY DEF PCs, Running, OwnerStates
<1> QED
  BY <1>1, <1>2, <1>3 DEF Quiet

\* Going on to reclaim the record that was read is a quiet step.
LEMMA ContinueWithIsQuiet ==
    ASSUME LocalsOK, NEW r \in Requests, NEW where \in {"reclaim", "reclaim_expired"},
           ContinueWith(r, where, row), r \notin effects, Exists(row),
           row.fingerprint = Fingerprint[r], where = "reclaim_expired" => row.expiresAt <= now[r],
           UNCHANGED <<row, lastId, clock, effects, late, overtaken>>
    PROVE  Quiet(r)
<1>1. /\ pc' = [pc EXCEPT ![r] = where] /\ now' = now /\ claimedAt' = claimedAt
      /\ recordId' = recordId
      /\ seen' = [seen EXCEPT ![r] = [id |-> row.id, status |-> row.status]]
  BY DEF ContinueWith
<1>2. Others(r) /\ pc'[r] = where /\ seen'[r].id = row.id
  BY <1>1 DEF Others, LocalsOK
<1>3. where \in PCs \ OwnerStates
  BY DEF PCs, Running, OwnerStates
<1> QED
  BY <1>1, <1>2, <1>3 DEF Quiet

\* What Execute does on finding a record of the same payload is quiet: it answers or goes on
\* to reclaim.
LEMMA DispatchIsQuiet ==
    ASSUME LocalsOK, NEW r \in Requests, Dispatch(r, row), r \notin effects, Exists(row),
           row.fingerprint = Fingerprint[r],
           UNCHANGED <<row, lastId, clock, effects, late, overtaken>>
    PROVE  Quiet(r)
<1>1. \/ \E a : Return(r, a)
      \/ ContinueWith(r, "reclaim", row)
  BY DEF Dispatch, Fail
<1> QED
  BY <1>1, FailIsQuiet, ContinueWithIsQuiet

\* Becoming the owner, by inserting the record or by retaking it, is a claim.
LEMMA TakeOwnershipClaims ==
    ASSUME LocalsOK, NEW r \in Requests, NEW id, TakeOwnership(r, id), row'.id = id,
           row'.status = "processing", row'.lockedUntil = LockedUntil(r),
           row'.expiresAt = ExpiresAt(r), Inserts(r) \/ Retakes(r),
           UNCHANGED <<clock, effects>>, ~overtaken' => ~overtaken
    PROVE  Claims(r)
<1>1. /\ pc' = [pc EXCEPT ![r] = "execute"] /\ recordId' = [recordId EXCEPT ![r] = id]
      /\ claimedAt' = [claimedAt EXCEPT ![r] = clock] /\ seen' = [seen EXCEPT ![r] = NothingSeen]
      /\ now' = now
  BY DEF TakeOwnership
<1>2. ~late' => ~late /\ ~(clock >= LockedUntil(r))
  BY DEF TakeOwnership
<1>3. /\ Others(r)
      /\ pc'[r] = "execute" /\ now'[r] = now[r] /\ claimedAt'[r] = clock /\ recordId'[r] = id
  BY <1>1 DEF Others, LocalsOK
<1> QED
  BY <1>2, <1>3 DEF Claims

\* Every step of a request, its abort included, is quiet, a claim, a run of the handler or a
\* mark.
LEMMA RequestSteps ==
    ASSUME TypeOK, EffectInv, NEW r \in Requests, Begin(r) \/ RequestStep(r) \/ Abort(r)
    PROVE  Quiet(r) \/ Claims(r) \/ Runs(r) \/ Marks(r)
<1>0. LocalsOK /\ row \in Rows
  BY DEF TypeOK, LocalsOK, PCs
<1>a. pc[r] \notin {"mark_succeeded", "done"} => r \notin effects
  BY DEF EffectInv
<1>1. CASE Begin(r)
  <2>1. /\ pc' = [pc EXCEPT ![r] = "create"] /\ now' = [now EXCEPT ![r] = clock]
        /\ pc[r] = "idle"
        /\ UNCHANGED <<row, lastId, clock, recordId, seen, claimedAt, effects, late, overtaken>>
    BY <1>1 DEF Begin
  <2>2. Others(r) /\ pc'[r] = "create" /\ now'[r] = clock
    BY <1>0, <2>1 DEF Others, LocalsOK
  <2>3. "create" \in PCs \ OwnerStates
    BY DEF PCs, Running, OwnerStates
  <2> QED
    BY <1>a, <2>1, <2>2, <2>3 DEF Quiet
<1>2. CASE Create(r)
  <2>1. CASE Exists(row)
    <3>1. /\ pc[r] = "create" /\ Continue(r, "get")
          /\ UNCHANGED <<row, lastId, clock, effects, late, overtaken>>
      BY <1>2, <2>1 DEF Create, CreateProcessing
    <3> QED
      BY <3>1, <1>0, <1>a, ContinueIsQuiet
  <2>2. CASE ~Exists(row)
    <3>1. /\ pc[r] = "create" /\ TakeOwnership(r, lastId + 1)
          /\ UNCHANGED <<clock, effects, overtaken>>
      BY <1>2, <2>2 DEF Create
    <3>2. /\ row'.id = lastId + 1 /\ row'.fingerprint = Fingerprint[r]
          /\ row'.status = "processing" /\ row'.lockedUntil = LockedUntil(r)
          /\ row'.expiresAt = ExpiresAt(r)
      BY <1>2, <2>2 DEF Create, CreateProcessing
    <3> QED
      BY <2>2, <3>1, <3>2, <1>0, TakeOwnershipClaims DEF Inserts
  <2> QED  BY <2>1, <2>2
<1>3. CASE GetExisting(r) \/ GetLatest(r)
  <2>1. /\ pc[r] \in {"get", "get_latest"}
        /\ UNCHANGED <<row, lastId, clock, effects, late, overtaken>>
    BY <1>3 DEF GetExisting, GetLatest
  <2>2. \/ \E a : Return(r, a)
        \/ /\ Exists(row) /\ row.fingerprint = Fingerprint[r]
           /\ \/ row.expiresAt <= now[r] /\ ContinueWith(r, "reclaim_expired", row)
              \/ Dispatch(r, row)
    BY <1>3 DEF GetExisting, GetLatest, Fail
  <2> QED
    BY <2>1, <2>2, <1>0, <1>a, FailIsQuiet, ContinueWithIsQuiet, DispatchIsQuiet
<1>4. CASE ReclaimExpired(r)
  <2>1. CASE Reclaimable(row, seen[r].id, seen[r].status, now[r])
    <3>1. /\ pc[r] = "reclaim_expired" /\ TakeOwnership(r, seen[r].id)
          /\ row' = TryReclaim(row, LockedUntil(r), ExpiresAt(r))
          /\ UNCHANGED <<clock, effects>>
      BY <1>4, <2>1 DEF ReclaimExpired
    <3>2. overtaken' = (overtaken \/ row.expiresAt > now[r])
      BY <1>4, <2>1 DEF ReclaimExpired
    <3>3. ~overtaken' => ~overtaken /\ ~(row.expiresAt > now[r])
      BY <3>2
    <3>4. row.expiresAt \in Nat /\ now[r] \in Nat
      BY <1>0 DEF LocalsOK, Rows
    <3>5. /\ row'.id = row.id /\ row'.fingerprint = row.fingerprint
          /\ row'.status = "processing" /\ row'.lockedUntil = LockedUntil(r)
          /\ row'.expiresAt = ExpiresAt(r)
      BY <1>0, <3>1 DEF TryReclaim, Rows
    <3>6. row.id = seen[r].id /\ row.lockedUntil <= now[r]
      BY <2>1 DEF Reclaimable
    <3>7. ~(row.expiresAt > now[r]) => row.expiresAt <= now[r]
      BY <3>4
    <3>8. Retakes(r)
      BY <3>1, <3>3, <3>5, <3>6, <3>7 DEF Retakes
    <3> QED
      BY <3>1, <3>3, <3>5, <3>6, <3>8, <1>0, TakeOwnershipClaims
  <2>2. CASE ~Reclaimable(row, seen[r].id, seen[r].status, now[r])
    <3>1. /\ pc[r] = "reclaim_expired" /\ Continue(r, "get_latest")
          /\ UNCHANGED <<row, lastId, clock, effects, late, overtaken>>
      BY <1>4, <2>2 DEF ReclaimExpired
    <3> QED
      BY <3>1, <1>0, <1>a, ContinueIsQuiet
  <2> QED  BY <2>1, <2>2
<1>5. CASE ReclaimFailed(r)
  <2>1. CASE Reclaimable(row, seen[r].id, "failed_retryable", now[r])
    <3>1. /\ pc[r] = "reclaim" /\ TakeOwnership(r, seen[r].id)
          /\ row' = TryReclaim(row, LockedUntil(r), ExpiresAt(r))
          /\ UNCHANGED <<clock, effects, overtaken>>
      BY <1>5, <2>1 DEF ReclaimFailed
    <3>2. /\ row'.id = row.id /\ row'.fingerprint = row.fingerprint
          /\ row'.status = "processing" /\ row'.lockedUntil = LockedUntil(r)
          /\ row'.expiresAt = ExpiresAt(r)
      BY <1>0, <3>1 DEF TryReclaim, Rows
    <3>3. row.id = seen[r].id /\ row.lockedUntil <= now[r] /\ row.status = "failed_retryable"
      BY <2>1 DEF Reclaimable
    <3>4. Retakes(r)
      BY <3>1, <3>2, <3>3 DEF Retakes
    <3> QED
      BY <3>1, <3>2, <3>3, <3>4, <1>0, TakeOwnershipClaims
  <2>2. CASE ~Reclaimable(row, seen[r].id, "failed_retryable", now[r])
    <3>1. /\ \E a : Return(r, a)
          /\ UNCHANGED <<row, lastId, clock, effects, late, overtaken>>
      BY <1>5, <2>2 DEF ReclaimFailed, Fail
    <3> QED
      BY <3>1, <1>0, FailIsQuiet
  <2> QED  BY <2>1, <2>2
<1>6. CASE Execute(r)
  <2>1. /\ UNCHANGED <<row, lastId, clock, late, overtaken, now, claimedAt, recordId, seen>>
        /\ pc[r] = "execute"
        /\ \/ pc' = [pc EXCEPT ![r] = "mark_succeeded"] /\ effects' = effects \union {r}
           \/ pc' = [pc EXCEPT ![r] = "mark_failed"] /\ effects' = effects
    BY <1>6 DEF Execute, Continue
  <2>2. Others(r)
    BY <1>0, <2>1 DEF Others, LocalsOK
  <2>3. \/ pc'[r] = "mark_succeeded" /\ effects' = effects \union {r}
        \/ pc'[r] = "mark_failed" /\ effects' = effects
    BY <1>0, <2>1 DEF LocalsOK
  <2> QED
    BY <2>1, <2>2, <2>3 DEF Runs
<1>7. CASE ExecuteSucceeded(r)
  <2>1. /\ pc[r] = "mark_succeeded" /\ Return(r, Answer("executed", r))
        /\ row' = MarkSucceeded(row, recordId[r], r, ExpiresAt(r))
        /\ UNCHANGED <<lastId, clock, effects, late, overtaken>>
    BY <1>7 DEF ExecuteSucceeded
  <2>2. \/ row' = row /\ (~Exists(row) \/ row.id # recordId[r])
        \/ /\ row.id = recordId[r] /\ row'.id = row.id /\ row'.fingerprint = row.fingerprint
           /\ row'.expiresAt = ExpiresAt(r)
           /\ row'.status = "succeeded" /\ row'.body = r
    BY <2>1, <1>0 DEF MarkSucceeded, Rows
  <2> QED
    BY <2>1, <2>2, <1>0, ReturnIsQuiet DEF Marks
<1>8. CASE ExecuteFailed(r)
  <2>1. /\ pc[r] = "mark_failed" /\ Return(r, Answer("failed", NoBody))
        /\ row' = MarkFailedRetryable(row, recordId[r], until[r], ExpiresAt(r))
        /\ UNCHANGED <<lastId, clock, effects, late, overtaken>>
    BY <1>8 DEF ExecuteFailed, Fail
  <2>2. \/ row' = row /\ (~Exists(row) \/ row.id # recordId[r])
        \/ /\ row.id = recordId[r] /\ row'.id = row.id /\ row'.fingerprint = row.fingerprint
           /\ row'.expiresAt = ExpiresAt(r) /\ row'.status = "failed_retryable"
    BY <2>1, <1>0 DEF MarkFailedRetryable, Rows
  <2> QED
    BY <2>1, <2>2, <1>0, ReturnIsQuiet DEF Marks
<1>9. CASE Abort(r)
  <2>1. /\ \E a : Return(r, a)
        /\ UNCHANGED <<row, lastId, clock, effects, late, overtaken>>
    BY <1>9 DEF Abort, Fail
  <2> QED
    BY <2>1, <1>0, FailIsQuiet
<1> QED
  BY <1>1, <1>2, <1>3, <1>4, <1>5, <1>6, <1>7, <1>8, <1>9 DEF RequestStep

-----------------------------------------------------------------------------
(* The invariant                                                           *)

\* Deletions and ticks, as the requests notice them.
Deletes ==
    /\ row' = NoRow /\ row.expiresAt <= clock
    /\ UNCHANGED <<lastId, clock, pc, now, recordId, seen, claimedAt, effects, late, overtaken>>
Ticks ==
    /\ clock' = clock + 1
    /\ UNCHANGED <<row, lastId, pc, now, recordId, seen, claimedAt, effects, overtaken>>
    /\ ~late' => ~late /\ \A r \in Requests : pc[r] \in Running => ~(clock' >= ExpiresAt(r))
Stutters ==
    UNCHANGED <<row, lastId, clock, pc, now, recordId, seen, claimedAt, effects, late, overtaken>>

\* Every step is one of seven.
LEMMA Steps ==
    ASSUME TypeOK, EffectInv, [Next]_vars
    PROVE  \/ \E r \in Requests : Quiet(r) \/ Claims(r) \/ Runs(r) \/ Marks(r)
           \/ Deletes \/ Ticks \/ Stutters
<1>1. CASE CleanupOnce
  BY <1>1 DEF CleanupOnce, DeleteExpired, Deletes, locals
<1>2. CASE Tick
  BY <1>2 DEF Tick, Ticks, locals
<1>3. CASE UNCHANGED vars
  BY <1>3 DEF vars, locals, Stutters
<1> QED
  BY <1>1, <1>2, <1>3, RequestSteps DEF Next

\* What the steps need to know of the types.
LEMMA Facts ==
    ASSUME TypeOK
    PROVE  /\ row.id \in Nat /\ row.lockedUntil \in Nat /\ row.expiresAt \in Nat
           /\ row.id <= lastId /\ lastId \in Nat /\ clock \in Nat /\ effects \subseteq Requests
           /\ \A r \in Requests : /\ now[r] \in Nat /\ claimedAt[r] \in Nat
                                  /\ recordId[r] \in Nat /\ recordId[r] <= lastId
                                  /\ seen[r].id \in Nat /\ seen[r].id <= lastId
                                  /\ LockedUntil(r) = now[r] + ProcessingTimeout
                                  /\ ExpiresAt(r) = now[r] + TTL
<1>1. row \in Rows /\ row.id \in 0..lastId /\ lastId \in Nat /\ clock \in 0..MaxClock
      /\ effects \subseteq Requests
  BY DEF TypeOK
<1>2. ASSUME NEW r \in Requests
      PROVE  /\ now[r] \in Nat /\ claimedAt[r] \in Nat
             /\ recordId[r] \in Nat /\ recordId[r] <= lastId
             /\ seen[r].id \in Nat /\ seen[r].id <= lastId
  BY <1>1, DurationAssumption DEF TypeOK
<1> QED
  BY <1>1, <1>2, DurationAssumption DEF Rows, LockedUntil, ExpiresAt

\* Clocks are read, never guessed.
LEMMA ClockStep ==
    ASSUME TypeOK, ClockInv, EffectInv, [Next]_vars
    PROVE  ClockInv'
<1>0. clock \in Nat /\ \A r \in Requests : now[r] \in Nat /\ claimedAt[r] \in Nat
                                           /\ now[r] <= clock /\ claimedAt[r] <= clock
  BY Facts DEF ClockInv
<1>1. ASSUME NEW r \in Requests, Quiet(r) \/ Claims(r) \/ Runs(r) \/ Marks(r) PROVE ClockInv'
  <2>1. clock' = clock /\ \A q \in Requests \ {r} : now'[q] = now[q] /\ claimedAt'[q] = claimedAt[q]
    BY <1>1 DEF Quiet, Claims, Runs, Marks, Others
  <2>2. now'[r] \in {0, now[r], clock} /\ claimedAt'[r] \in {0, claimedAt[r], clock}
    BY <1>1 DEF Quiet, Claims, Runs, Marks
  <2> QED
    BY <1>0, <2>1, <2>2 DEF ClockInv
<1>2. CASE Deletes \/ Stutters
  BY <1>0, <1>2 DEF Deletes, Stutters, ClockInv
<1>3. CASE Ticks
  BY <1>0, <1>3 DEF Ticks, ClockInv
<1> QED
  BY <1>1, <1>2, <1>3, Steps

\* Ids are given out once: an id that a request remembers never comes to mean another record.
LEMMA PayloadStep ==
    ASSUME TypeOK, PayloadInv, EffectInv, [Next]_vars
    PROVE  PayloadInv'
<1>0. /\ row.id \in Nat /\ row.id <= lastId /\ lastId \in Nat
      /\ \A q \in Requests : /\ recordId[q] \in Nat /\ recordId[q] <= lastId
                             /\ seen[q].id \in Nat /\ seen[q].id <= lastId
                             /\ KnowsItsRecord(q)
  BY Facts DEF PayloadInv
<1>1. ASSUME NEW r \in Requests, Quiet(r) PROVE PayloadInv'
  <2>1. ASSUME NEW q \in Requests \ {r} PROVE KnowsItsRecord(q)'
    BY <1>0, <1>1 DEF Quiet, Others, KnowsItsRecord
  <2>2. KnowsItsRecord(r)'
    BY <1>0, <1>1 DEF Quiet, KnowsItsRecord, Exists
  <2> QED
    BY <2>1, <2>2 DEF PayloadInv
<1>2. ASSUME NEW r \in Requests, Claims(r) PROVE PayloadInv'
  <2>1. row'.fingerprint = Fingerprint[r] /\ row'.id # 0
    BY <1>0, <1>2 DEF Claims, Inserts, Retakes, KnowsItsRecord
  <2>2. KnowsItsRecord(r)'
    BY <1>2, <2>1 DEF Claims, KnowsItsRecord
  <2>3. ASSUME NEW q \in Requests \ {r} PROVE KnowsItsRecord(q)'
    <3>1. pc'[q] = pc[q] /\ recordId'[q] = recordId[q] /\ seen'[q] = seen[q]
      BY <1>2 DEF Claims, Others
    <3>2. CASE Inserts(r)
      <4>1. recordId[q] # row'.id /\ seen[q].id # row'.id
        BY <1>0, <3>2 DEF Inserts
      <4> QED
        BY <1>0, <3>1, <4>1 DEF KnowsItsRecord
    <3>3. CASE Retakes(r)
      BY <1>0, <3>1, <3>3 DEF Retakes, KnowsItsRecord
    <3> QED
      BY <1>2, <3>2, <3>3 DEF Claims
  <2> QED
    BY <2>2, <2>3 DEF PayloadInv
<1>3. ASSUME NEW r \in Requests, Runs(r) PROVE PayloadInv'
  <2>1. ASSUME NEW q \in Requests \ {r} PROVE KnowsItsRecord(q)'
    BY <1>0, <1>3 DEF Runs, Others, KnowsItsRecord
  <2>2. KnowsItsRecord(r)'
    BY <1>0, <1>3 DEF Runs, KnowsItsRecord, OwnerStates
  <2> QED
    BY <2>1, <2>2 DEF PayloadInv
<1>4. ASSUME NEW r \in Requests, Marks(r) PROVE PayloadInv'
  <2>0. row'.id = row.id /\ row'.fingerprint = row.fingerprint
    BY <1>4 DEF Marks
  <2>1. ASSUME NEW q \in Requests \ {r} PROVE KnowsItsRecord(q)'
    BY <1>0, <1>4, <2>0 DEF Marks, Others, KnowsItsRecord
  <2>2. KnowsItsRecord(r)'
    BY <1>4 DEF Marks, KnowsItsRecord, OwnerStates
  <2> QED
    BY <2>1, <2>2 DEF PayloadInv
<1>5. CASE Deletes
  BY <1>0, <1>5 DEF Deletes, PayloadInv, KnowsItsRecord, NoRow
<1>6. CASE Ticks \/ Stutters
  BY <1>0, <1>6 DEF Ticks, Stutters, PayloadInv, KnowsItsRecord
<1> QED
  BY <1>1, <1>2, <1>3, <1>4, <1>5, <1>6, Steps

\* Only a request whose handler succeeded stores a response.
LEMMA EffectStep ==
    ASSUME TypeOK, PayloadInv, EffectInv, [Next]_vars
    PROVE  EffectInv'
<1> DEFINE Effective(q) == /\ pc[q] = "mark_succeeded" => q \in effects
                           /\ q \in effects => pc[q] \in {"mark_succeeded", "done"}
           Stored == row.status = "succeeded" =>
                         row.body \in effects /\ Fingerprint[row.body] = row.fingerprint
<1>0. Stored /\ \A q \in Requests : Effective(q)
  BY DEF EffectInv
<1>1. ASSUME NEW r \in Requests, Quiet(r) PROVE EffectInv'
  <2>1. \A q \in Requests \ {r} : Effective(q)'
    BY <1>0, <1>1 DEF Quiet, Others
  <2>2. Effective(r)'
    BY <1>0, <1>1 DEF Quiet, OwnerStates
  <2>3. Stored'
    BY <1>0, <1>1 DEF Quiet
  <2> QED
    BY <2>1, <2>2, <2>3 DEF EffectInv
<1>2. ASSUME NEW r \in Requests, Claims(r) PROVE EffectInv'
  <2>1. \A q \in Requests \ {r} : Effective(q)'
    BY <1>0, <1>2 DEF Claims, Others
  <2>2. Effective(r)'
    BY <1>0, <1>2 DEF Claims, Inserts, Retakes
  <2>3. Stored'
    BY <1>2 DEF Claims
  <2> QED
    BY <2>1, <2>2, <2>3 DEF EffectInv
<1>3. ASSUME NEW r \in Requests, Runs(r) PROVE EffectInv'
  <2>1. \A q \in Requests \ {r} : Effective(q)'
    BY <1>0, <1>3 DEF Runs, Others
  <2>2. Effective(r)'
    BY <1>0, <1>3 DEF Runs
  <2>3. Stored'
    BY <1>0, <1>3 DEF Runs
  <2> QED
    BY <2>1, <2>2, <2>3 DEF EffectInv
<1>4. ASSUME NEW r \in Requests, Marks(r) PROVE EffectInv'
  <2>1. \A q \in Requests \ {r} : Effective(q)'
    BY <1>0, <1>4 DEF Marks, Others
  <2>2. Effective(r)'
    BY <1>0, <1>4 DEF Marks
  <2>3. Stored'
    <3>1. CASE row' = row
      BY <1>0, <1>4, <3>1 DEF Marks
    <3>2. CASE /\ row.id = recordId[r] /\ row'.fingerprint = row.fingerprint
               /\ pc[r] = "mark_succeeded" /\ row'.body = r
      <4>1. row.fingerprint = Fingerprint[r]
        BY <3>2 DEF PayloadInv, KnowsItsRecord, OwnerStates
      <4>2. r \in effects /\ effects' = effects
        BY <1>0, <1>4, <3>2 DEF Marks
      <4> QED
        BY <3>2, <4>1, <4>2
    <3>3. CASE row'.status = "failed_retryable"
      BY <3>3
    <3> QED
      BY <1>4, <3>1, <3>2, <3>3 DEF Marks
  <2> QED
    BY <2>1, <2>2, <2>3 DEF EffectInv
<1>5. CASE Deletes
  BY <1>0, <1>5 DEF Deletes, EffectInv, NoRow
<1>6. CASE Ticks \/ Stutters
  BY <1>0, <1>6 DEF Ticks, Stutters, EffectInv
<1> QED
  BY <1>1, <1>2, <1>3, <1>4, <1>5, <1>6, Steps

\* As long as no request is late, a record with an owner is not there for the taking.
LEMMA NoClaimUnderAnOwner ==
    ASSUME TypeOK, PayloadInv, NEW r \in Requests, Claims(r), NEW o \in Owners, OwnsAlone(o)
    PROVE  FALSE
<1>0. o \in Requests /\ pc[o] \in OwnerStates
  BY DEF Owners
<1>1. CASE Inserts(r)
  BY <1>0, <1>1 DEF Inserts, PayloadInv, KnowsItsRecord, OwnsAlone, Exists
<1>2. CASE Retakes(r) /\ pc[r] = "reclaim"
  BY <1>2 DEF Retakes, OwnsAlone
<1>3. CASE Retakes(r) /\ pc[r] = "reclaim_expired"
  <2>1. /\ row.lockedUntil <= now[r] /\ now[r] <= claimedAt[o]
        /\ claimedAt[o] < LockedUntil(o) /\ row.lockedUntil = LockedUntil(o)
    BY <1>3 DEF Retakes, OwnsAlone
  <2>2. now[r] \in Nat /\ claimedAt[o] \in Nat /\ row.lockedUntil \in Nat
    BY <1>0, Facts
  <2> QED
    BY <2>1, <2>2
<1> QED
  BY <1>1, <1>2, <1>3 DEF Claims, Retakes

\* As long as no request is late, owners keep to themselves.
LEMMA OwnerStep ==
    ASSUME IInv, [Next]_vars
    PROVE  OwnerInv'
<1> SUFFICES ASSUME ~late', NEW o \in Owners' PROVE OwnsAlone(o)'
  BY DEF OwnerInv
<1> USE DurationAssumption, TimeoutAssumption
<1>0. TypeOK /\ ClockInv /\ PayloadInv /\ EffectInv
  BY DEF IInv
<1>f. /\ row.id \in Nat /\ row.lockedUntil \in Nat /\ row.expiresAt \in Nat /\ clock \in Nat
      /\ effects \subseteq Requests
      /\ \A q \in Requests : /\ now[q] \in Nat /\ claimedAt[q] \in Nat
                             /\ now[q] <= clock /\ claimedAt[q] <= clock
                             /\ LockedUntil(q) = now[q] + ProcessingTimeout
                             /\ ExpiresAt(q) = now[q] + TTL
  BY <1>0, Facts DEF ClockInv
<1>o. o \in Requests /\ pc'[o] \in OwnerStates
  BY DEF Owners
<1>l. ASSUME ~late, NEW p \in Owners PROVE OwnsAlone(p) /\ p \in Requests
  BY <1>l DEF IInv, OwnerInv, Owners
<1>1. ASSUME NEW r \in Requests, Quiet(r) PROVE OwnsAlone(o)'
  <2>1. o # r /\ o \in Owners /\ ~late
    BY <1>1, <1>o DEF Quiet, Others, Owners
  <2>2. OwnsAlone(o)
    BY <2>1, <1>l
  <2>3. Owners' \subseteq Owners
    BY <1>1 DEF Quiet, Others, Owners
  <2>4. now'[o] = now[o] /\ claimedAt'[o] = claimedAt[o] /\ recordId'[o] = recordId[o]
        /\ UNCHANGED <<row, clock, effects>>
    BY <1>1, <1>o, <2>1 DEF Quiet, Others
  <2>5. ASSUME NEW q \in Requests, pc'[q] = "reclaim_expired" PROVE now'[q] <= claimedAt'[o]
    <3>1. CASE q = r
      <4>1. row.expiresAt <= now'[r] /\ now'[r] \in {0, now[r], clock}
        BY <1>1, <2>5, <3>1 DEF Quiet
      <4>2. clock < row.expiresAt
        BY <2>2 DEF OwnsAlone
      <4> QED
        BY <4>1, <4>2, <1>f
    <3>2. CASE q # r
      <4>1. pc'[q] = pc[q] /\ now'[q] = now[q]
        BY <1>1, <3>2 DEF Quiet, Others
      <4> QED
        BY <4>1, <2>2, <2>4, <2>5 DEF OwnsAlone
    <3> QED  BY <3>1, <3>2
  <2>6. ASSUME NEW s \in effects PROVE claimedAt'[s] <= claimedAt'[o]
    <3>1. claimedAt'[s] = claimedAt[s]
      BY <1>1, <1>f DEF Quiet, Others
    <3> QED
      BY <3>1, <2>2, <2>4 DEF OwnsAlone
  <2> QED
    BY <2>2, <2>3, <2>4, <2>5, <2>6 DEF OwnsAlone, LockedUntil, ExpiresAt
<1>2. ASSUME NEW r \in Requests, Claims(r) PROVE OwnsAlone(o)'
  <2>1. ~late /\ ~(clock >= LockedUntil(r))
    BY <1>2 DEF Claims
  <2>2. Owners = {}
    BY <2>1, <1>0, <1>2, <1>l, NoClaimUnderAnOwner
  <2>3. Owners' = {r}
    BY <1>2, <2>2 DEF Claims, Others, Owners, OwnerStates
  <2>4. o = r
    BY <2>3
  <2>5. clock < LockedUntil(r) /\ clock < ExpiresAt(r)
    BY <2>1, <1>f
  <2>6. /\ now'[r] = now[r] /\ claimedAt'[r] = clock /\ recordId'[r] = row'.id
        /\ row'.status = "processing" /\ row'.lockedUntil = LockedUntil(r)
        /\ row'.expiresAt = ExpiresAt(r) /\ UNCHANGED <<clock, effects>>
    BY <1>2 DEF Claims
  <2>7. \A q \in Requests : now'[q] <= clock /\ claimedAt'[q] <= clock
    BY <1>2, <1>f DEF Claims, Others
  <2> QED
    BY <2>3, <2>4, <2>5, <2>6, <2>7, <1>f DEF OwnsAlone, LockedUntil, ExpiresAt
<1>3. ASSUME NEW r \in Requests, Runs(r) PROVE OwnsAlone(o)'
  <2>1. ~late /\ UNCHANGED <<row, clock, now, claimedAt, recordId>>
    BY <1>3 DEF Runs
  <2>2. Owners' = Owners /\ r \in Owners
    BY <1>3 DEF Runs, Others, Owners, OwnerStates
  <2>3. OwnsAlone(o)
    BY <2>1, <2>2, <1>l
  <2>4. r = o
    BY <2>2, <2>3 DEF OwnsAlone
  <2>5. effects' \subseteq effects \union {o}
    BY <1>3, <2>4 DEF Runs
  <2>6. \A q \in Requests : pc'[q] = "reclaim_expired" => pc[q] = "reclaim_expired"
    BY <1>3 DEF Runs, Others
  <2>7. claimedAt[o] <= claimedAt[o]
    BY <1>f, <1>o
  <2> QED
    BY <2>1, <2>2, <2>3, <2>5, <2>6, <2>7 DEF OwnsAlone, LockedUntil, ExpiresAt
<1>4. ASSUME NEW r \in Requests, Marks(r) PROVE OwnsAlone(o)'
  <2>1. ~late /\ r \in Owners
    BY <1>4 DEF Marks, Owners, OwnerStates
  <2>2. o \in Owners /\ o # r
    BY <1>4, <1>o DEF Marks, Others, Owners, OwnerStates
  <2> QED
    BY <2>1, <2>2, <1>l DEF OwnsAlone
<1>5. CASE Deletes
  <2>1. ~late /\ o \in Owners /\ row.expiresAt <= clock
    BY <1>5 DEF Deletes, Owners
  <2>2. clock < row.expiresAt
    BY <2>1, <1>l DEF OwnsAlone
  <2> QED
    BY <2>1, <2>2, <1>f
<1>6. CASE Ticks
  <2>1. /\ ~late /\ Owners' = Owners /\ clock' = clock + 1
        /\ UNCHANGED <<row, pc, now, claimedAt, recordId, effects>>
    BY <1>6 DEF Ticks, Owners
  <2>2. ~(clock' >= ExpiresAt(o))
    BY <1>6, <1>o, <2>1 DEF Ticks, Running
  <2>3. clock' < ExpiresAt(o)
    BY <2>1, <2>2, <1>f, <1>o
  <2> QED
    BY <2>1, <2>3, <1>l DEF OwnsAlone, LockedUntil, ExpiresAt
<1>7. CASE Stutters
  <2>1. ~late /\ o \in Owners
    BY <1>7 DEF Stutters, Owners
  <2> QED
    BY <1>7, <2>1, <1>l DEF Stutters, OwnsAlone, LockedUntil, ExpiresAt, Owners
<1> QED
  BY <1>0, <1>1, <1>2, <1>3, <1>4, <1>5, <1>6, <1>7, Steps

\* The owner that stores its response was the last to claim the record.
LEMMA LatestStep ==
    ASSUME IInv, [Next]_vars
    PROVE  LatestInv'
<1> SUFFICES ASSUME ~late', row'.status = "succeeded", NEW s \in effects'
             PROVE  claimedAt'[s] <= claimedAt'[row'.body]
  BY DEF LatestInv, StoredIsLatest
<1>0. TypeOK /\ ClockInv /\ PayloadInv /\ EffectInv
  BY DEF IInv
<1>l. ~late => StoredIsLatest /\ \A o \in Owners : OwnsAlone(o)
  BY DEF IInv, LatestInv, OwnerInv
<1>e. effects \subseteq Requests /\ (row.status = "succeeded" => row.body \in effects)
  BY <1>0 DEF TypeOK, EffectInv
<1>1. ASSUME NEW r \in Requests, Quiet(r) PROVE claimedAt'[s] <= claimedAt'[row'.body]
  <2>1. ~late /\ row' = row /\ effects' = effects
    BY <1>1 DEF Quiet
  <2>2. \A q \in effects : claimedAt'[q] = claimedAt[q]
    BY <1>1, <1>e DEF Quiet, Others
  <2> QED
    BY <2>1, <2>2, <1>l, <1>e DEF StoredIsLatest
<1>2. ASSUME NEW r \in Requests, Claims(r) PROVE FALSE
  BY <1>2 DEF Claims
<1>3. ASSUME NEW r \in Requests, Runs(r) PROVE FALSE
  <2>1. ~late /\ row' = row /\ r \in Owners
    BY <1>3 DEF Runs, Owners, OwnerStates
  <2> QED
    BY <2>1, <1>l DEF OwnsAlone
<1>4. ASSUME NEW r \in Requests, Marks(r) PROVE claimedAt'[s] <= claimedAt'[row'.body]
  <2>1. ~late /\ r \in Owners /\ effects' = effects
    BY <1>4 DEF Marks, Owners, OwnerStates
  <2>2. OwnsAlone(r)
    BY <2>1, <1>l
  <2>3. row'.body = r /\ r \in effects
    BY <1>0, <1>4, <2>2 DEF Marks, OwnsAlone, EffectInv
  <2>4. \A q \in effects : claimedAt'[q] = claimedAt[q]
    BY <1>4, <1>e DEF Marks, Others
  <2> QED
    BY <2>1, <2>2, <2>3, <2>4 DEF OwnsAlone
<1>5. CASE Deletes
  BY <1>5 DEF Deletes, NoRow
<1>6. CASE Ticks
  BY <1>6, <1>l DEF Ticks, StoredIsLatest
<1>7. CASE Stutters
  BY <1>7, <1>l DEF Stutters, StoredIsLatest
<1> QED
  BY <1>0, <1>1, <1>2, <1>3, <1>4, <1>5, <1>6, <1>7, Steps

\* A handler succeeds only when the life that every other success gave the record is over.
LEMMA LifeStep ==
    ASSUME IInv, [Next]_vars
    PROVE  LifeInv'
<1> SUFFICES ASSUME ~late', ~overtaken' PROVE OneLife'
  BY DEF LifeInv
<1> USE DurationAssumption
<1>0. TypeOK /\ ClockInv /\ PayloadInv /\ EffectInv
  BY DEF IInv
<1>f. /\ row.expiresAt \in Nat /\ clock \in Nat /\ effects \subseteq Requests
      /\ \A q \in Requests : /\ now[q] \in Nat /\ claimedAt[q] \in Nat
                             /\ now[q] <= clock /\ claimedAt[q] <= clock
                             /\ ExpiresAt(q) = now[q] + TTL
  BY <1>0, Facts DEF ClockInv
<1>l. ASSUME ~late, ~overtaken
      PROVE  OneLife /\ \A o \in Owners : OwnsAlone(o) /\ o \in Requests /\ recordId[o] # 0
  BY <1>l DEF IInv, LifeInv, OwnerInv, Owners, PayloadInv, KnowsItsRecord
<1>k. ASSUME ~late, ~overtaken, UNCHANGED <<row, clock, effects>>, Owners' \subseteq Owners,
             \A q \in effects \union Owners' : now'[q] = now[q] /\ claimedAt'[q] = claimedAt[q]
      PROVE  OneLife'
  BY <1>k, <1>l DEF OneLife, LivesOn, ExpiresAt, AllTTLApart, TTLApart
<1>1. ASSUME NEW r \in Requests, Quiet(r) PROVE OneLife'
  <2>1. ~late /\ ~overtaken /\ UNCHANGED <<row, clock, effects>>
    BY <1>1 DEF Quiet
  <2>2. Owners' \subseteq Owners \ {r}
    BY <1>1 DEF Quiet, Others, Owners
  <2>3. \A q \in effects \union Owners' : now'[q] = now[q] /\ claimedAt'[q] = claimedAt[q]
    BY <1>1, <1>f, <2>2 DEF Quiet, Others, Owners
  <2> QED
    BY <2>1, <2>2, <2>3, <1>k
<1>2. ASSUME NEW c \in Requests, Claims(c) PROVE OneLife'
  <2>1. ~late /\ ~overtaken /\ UNCHANGED <<clock, effects>>
    BY <1>2 DEF Claims
  <2>2. Owners = {}
    BY <2>1, <1>0, <1>2, <1>l, NoClaimUnderAnOwner
  <2>3. Owners' = {c} /\ claimedAt'[c] = clock
    BY <1>2, <2>2 DEF Claims, Others, Owners, OwnerStates
  <2>4. c \notin effects
    BY <1>2, <1>0 DEF Claims, Inserts, Retakes, EffectInv
  <2>5. \A q \in effects : now'[q] = now[q] /\ claimedAt'[q] = claimedAt[q]
    BY <1>2, <1>f, <2>4 DEF Claims, Others
  <2>6. ASSUME NEW q \in effects PROVE ExpiresAt(q) <= clock
    <3> SUFFICES ASSUME Exists(row), row.expiresAt = ExpiresAt(q), row.status # "failed_retryable"
                 PROVE  ExpiresAt(q) <= clock
      BY <2>1, <1>l DEF OneLife, LivesOn
    <3>1. row.expiresAt <= now[c]
      BY <1>2 DEF Claims, Inserts, Retakes
    <3> QED
      BY <3>1, <1>f
  <2>7. \A q \in effects' : LivesOn(q)'
    BY <2>1, <2>5, <2>6 DEF LivesOn, ExpiresAt
  <2>8. \A o \in Owners', q \in effects' : q # o => ExpiresAt(q)' <= claimedAt'[o]
    BY <2>1, <2>3, <2>5, <2>6 DEF ExpiresAt
  <2>9. AllTTLApart'
    BY <2>1, <2>5, <1>l DEF OneLife, AllTTLApart, TTLApart
  <2> QED
    BY <2>7, <2>8, <2>9 DEF OneLife
<1>3. ASSUME NEW c \in Requests, Runs(c) PROVE OneLife'
  <2>1. ~late /\ ~overtaken /\ UNCHANGED <<row, clock, now, claimedAt>>
    BY <1>3 DEF Runs
  <2>2. Owners' = Owners /\ c \in Owners
    BY <1>3 DEF Runs, Others, Owners, OwnerStates
  <2>3. OneLife /\ OwnsAlone(c) /\ recordId[c] # 0
    BY <2>1, <2>2, <1>l
  <2>4. Owners = {c} /\ LivesOn(c)
    BY <2>2, <2>3 DEF OwnsAlone, LivesOn, Exists
  <2>5. effects' \subseteq effects \union {c} /\ effects \subseteq effects'
    BY <1>3 DEF Runs
  <2>6. \A q \in effects \ {c} : ExpiresAt(q) <= claimedAt[c]
    BY <2>3, <2>4 DEF OneLife
  <2>7. \A q \in effects' : LivesOn(q)'
    BY <2>1, <2>3, <2>4, <2>5 DEF OneLife, LivesOn, ExpiresAt
  <2>8. \A o \in Owners', q \in effects' : q # o => ExpiresAt(q)' <= claimedAt'[o]
    BY <2>1, <2>2, <2>4, <2>5, <2>6 DEF ExpiresAt
  <2>9. AllTTLApart'
    <3>1. ASSUME NEW q \in effects', NEW t \in effects', q # t PROVE TTLApart(q, t)
      <4>1. CASE q \in effects /\ t \in effects
        BY <3>1, <4>1, <2>3 DEF OneLife, AllTTLApart
      <4>2. CASE q = c /\ t \in effects
        BY <3>1, <4>2, <2>6, <1>f DEF TTLApart
      <4>3. CASE t = c /\ q \in effects
        BY <3>1, <4>3, <2>6, <1>f DEF TTLApart
      <4> QED
        BY <3>1, <4>1, <4>2, <4>3, <2>5
    <3> QED
      BY <3>1, <2>1 DEF AllTTLApart, TTLApart
  <2> QED
    BY <2>7, <2>8, <2>9 DEF OneLife
<1>4. ASSUME NEW c \in Requests, Marks(c) PROVE OneLife'
  <2>1. ~late /\ ~overtaken /\ UNCHANGED <<clock, effects>> /\ c \in Owners
    BY <1>4 DEF Marks, Owners, OwnerStates
  <2>2. OneLife /\ OwnsAlone(c) /\ recordId[c] # 0
    BY <2>1, <1>l
  <2>3. Owners' = {}
    BY <1>4, <2>2 DEF Marks, Others, Owners, OwnerStates, OwnsAlone
  <2>4. \A q \in effects : now'[q] = now[q] /\ claimedAt'[q] = claimedAt[q]
    BY <1>4, <1>f DEF Marks, Others
  <2>5. ASSUME NEW q \in effects PROVE LivesOn(q)'
    <3>1. CASE q = c
      <4>1. row'.id = row.id /\ row'.expiresAt = ExpiresAt(c) /\ row'.status = "succeeded"
        BY <1>4, <1>0, <2>2, <3>1 DEF Marks, OwnsAlone, EffectInv, Exists
      <4> QED
        BY <2>2, <2>4, <3>1, <4>1 DEF LivesOn, OwnsAlone, Exists, ExpiresAt
    <3>2. CASE q # c
      <4>1. ExpiresAt(q) <= claimedAt[c]
        BY <2>1, <2>2, <3>2 DEF OneLife
      <4> QED
        BY <2>1, <2>4, <4>1, <1>f DEF LivesOn, ExpiresAt
    <3> QED  BY <3>1, <3>2
  <2> QED
    BY <2>1, <2>2, <2>3, <2>4, <2>5 DEF OneLife, AllTTLApart, TTLApart
<1>5. CASE Deletes
  <2>1. /\ ~late /\ ~overtaken /\ Owners' = Owners /\ row.expiresAt <= clock
        /\ UNCHANGED <<clock, now, claimedAt, effects>>
    BY <1>5 DEF Deletes, Owners
  <2>2. \A q \in effects : ExpiresAt(q) <= clock
    BY <2>1, <1>l DEF OneLife, LivesOn
  <2> QED
    BY <2>1, <2>2, <1>l DEF OneLife, LivesOn, ExpiresAt, AllTTLApart, TTLApart
<1>6. CASE Ticks
  <2>1. /\ ~late /\ ~overtaken /\ Owners' = Owners /\ clock' = clock + 1
        /\ UNCHANGED <<row, now, claimedAt, effects>>
    BY <1>6 DEF Ticks, Owners
  <2>2. ASSUME NEW q \in effects PROVE LivesOn(q)'
    <3>1. LivesOn(q) /\ ExpiresAt(q) \in Nat
      BY <2>1, <1>l, <1>f DEF OneLife
    <3> QED
      BY <2>1, <3>1, <1>f DEF LivesOn, ExpiresAt
  <2> QED
    BY <2>1, <2>2, <1>l DEF OneLife, ExpiresAt, AllTTLApart, TTLApart
<1>7. CASE Stutters
  <2>1. ~late /\ ~overtaken /\ UNCHANGED <<row, clock, effects, now, claimedAt>> /\ Owners' = Owners
    BY <1>7 DEF Stutters, Owners
  <2> QED
    BY <2>1, <1>k
<1> QED
  BY <1>0, <1>1, <1>2, <1>3, <1>4, <1>5, <1>6, <1>7, Steps

\* The invariant holds initially, when nobody has asked for anything.
LEMMA InitInv == Init => IInv
<1> SUFFICES ASSUME Init PROVE IInv  OBVIOUS
<1> USE DurationAssumption
<1>1. row \in Rows /\ row.id = 0 /\ row.status = "failed_retryable" /\ row.expiresAt = 0
  BY DEF Init, Rows, NoRow, RecordStatuses
<1>2. Owners = {} /\ effects = {}
  BY DEF Init, Owners, OwnerStates
<1>3. TypeOK
  <2>1. seen \in [Requests -> [id : 0..lastId, status : RecordStatuses \union {"none"}]]
    BY DEF Init, NothingSeen
  <2>2. answer \in [Requests -> [kind : Kinds, body : Requests \union {NoBody}]]
    BY DEF Init, NoAnswer, Answer, Kinds
  <2>3. late \in BOOLEAN /\ overtaken \in BOOLEAN
    BY DEF Init
  <2>4. /\ lastId \in Nat /\ clock \in 0..MaxClock
        /\ pc \in [Requests -> Running \union {"idle", "done"}]
        /\ now \in [Requests -> 0..MaxClock] /\ claimedAt \in [Requests -> 0..MaxClock]
        /\ recordId \in [Requests -> 0..lastId] /\ until \in [Requests -> Nat]
        /\ row.id \in 0..lastId /\ row.expiresAt <= clock + TTL
    BY <1>1 DEF Init
  <2> QED
    BY <1>1, <1>2, <2>1, <2>2, <2>3, <2>4 DEF TypeOK
<1>4. ClockInv
  BY DEF Init, ClockInv
<1>5. PayloadInv
  BY DEF Init, PayloadInv, KnowsItsRecord, OwnerStates
<1>6. EffectInv
  BY <1>1, <1>2 DEF Init, EffectInv
<1>7. OwnerInv /\ LatestInv /\ LifeInv
  BY <1>1, <1>2 DEF OwnerInv, LatestInv, StoredIsLatest, LifeInv, OneLife, AllTTLApart
<1> QED
  BY <1>3, <1>4, <1>5, <1>6, <1>7 DEF IInv

\* The invariant is inductive.
LEMMA StepInv == IInv /\ [Next]_vars => IInv'
BY TypeStep, ClockStep, PayloadStep, EffectStep, OwnerStep, LatestStep, LifeStep DEF IInv

\* Every reachable state satisfies the inductive invariant.
LEMMA Invariance == Spec => []IInv
BY InitInv, StepInv, PTL DEF Spec

-----------------------------------------------------------------------------
(* The theorems                                                            *)

\* Every reachable state has its types.
THEOREM TypeCorrect == Spec => []TypeOK
<1>1. IInv => TypeOK
  BY DEF IInv
<1> QED
  BY <1>1, Invariance, PTL

\* However many requests repeat the key, fail, stall, die or find the record expired: as
\* long as none of them is late, at most one is between winning the record and marking it.
THEOREM AtMostOneOwner == Spec => []OneOwner
<1>1. IInv => OneOwner
  <2> SUFFICES ASSUME IInv, ~late PROVE Cardinality(Owners) <= 1
    BY DEF OneOwner
  <2>1. CASE Owners = {}
    BY <2>1, FS_EmptySet
  <2>2. CASE Owners # {}
    <3>1. \A o \in Owners : OwnsAlone(o)
      BY DEF IInv, OwnerInv
    <3>2. PICK o \in Owners : OwnsAlone(o)
      BY <2>2, <3>1
    <3>3. Owners = {o}
      BY <3>2 DEF OwnsAlone
    <3>4. Cardinality({o}) = 1
      BY FS_Singleton
    <3> QED
      BY <3>3, <3>4
  <2> QED  BY <2>1, <2>2
<1> QED
  BY <1>1, Invariance, PTL

\* As long as no request is late or overtakes another in the reclaim of an expired record,
\* two requests whose handlers succeeded are at least a TTL apart.
THEOREM OncePerLife == Spec => []OneEffectPerLife
<1>1. IInv => OneEffectPerLife
  BY DEF IInv, LifeInv, OneLife, OneEffectPerLife
<1> QED
  BY <1>1, Invariance, PTL

\* A request is answered with an error, with its own data or with what the record stores
\* for its payload.
Answers(q) ==
    \/ \E kind \in Kinds \ {"replayed"}, body \in Requests \union {NoBody} :
           answer' = [answer EXCEPT ![q] = Answer(kind, body)]
    \/ /\ answer' = [answer EXCEPT ![q] = Replay(row.body)]
       /\ row.status = "succeeded" /\ row.fingerprint = Fingerprint[q]

\* A step leaves the answers alone or answers one request.
LEMMA AnswerStep ==
    ASSUME [Next]_vars
    PROVE  answer' = answer \/ \E q \in Requests : Answers(q)
<1>f. ASSUME NEW q \in Requests, NEW kind, kind \in Kinds \ {"replayed"}, Fail(q, kind)
      PROVE  Answers(q)
  BY <1>f DEF Fail, Return, Answers
<1>g. {"in_progress", "conflict", "unavailable", "failed", "executed", "backoff"}
         \subseteq Kinds \ {"replayed"}
  BY DEF Kinds
<1>d. ASSUME NEW q \in Requests, Dispatch(q, row), row.fingerprint = Fingerprint[q]
      PROVE  answer' = answer \/ Answers(q)
  <2>1. CASE row.status = "succeeded" /\ Return(q, Replay(row.body))
    BY <1>d, <2>1 DEF Return, Answers
  <2>2. CASE ContinueWith(q, "reclaim", row)
    BY <2>2 DEF ContinueWith
  <2>3. CASE Fail(q, "unavailable") \/ Fail(q, "in_progress") \/ Fail(q, "backoff")
    BY <2>3, <1>f, <1>g
  <2> QED
    BY <1>d, <2>1, <2>2, <2>3 DEF Dispatch
<1>1. ASSUME NEW q \in Requests, Begin(q) \/ Create(q) \/ Execute(q) PROVE answer' = answer
  BY <1>1 DEF Begin, Create, Execute, Continue, TakeOwnership
<1>2. ASSUME NEW q \in Requests, GetExisting(q) \/ GetLatest(q)
      PROVE  answer' = answer \/ Answers(q)
  <2>1. \/ Fail(q, "unavailable") \/ Fail(q, "conflict") \/ ContinueWith(q, "reclaim_expired", row)
        \/ row.fingerprint = Fingerprint[q] /\ Dispatch(q, row)
    BY <1>2 DEF GetExisting, GetLatest
  <2>2. CASE ContinueWith(q, "reclaim_expired", row)
    BY <2>2 DEF ContinueWith
  <2> QED
    BY <2>1, <2>2, <1>d, <1>f, <1>g
<1>3. ASSUME NEW q \in Requests, ReclaimExpired(q) \/ ReclaimFailed(q)
      PROVE  answer' = answer \/ Answers(q)
  <2>1. answer' = answer \/ Fail(q, "in_progress")
    BY <1>3 DEF ReclaimExpired, ReclaimFailed, TakeOwnership, Continue
  <2> QED
    BY <2>1, <1>f, <1>g
<1>4. ASSUME NEW q \in Requests, ExecuteSucceeded(q) PROVE Answers(q)
  <2>1. answer' = [answer EXCEPT ![q] = Answer("executed", q)]
    BY <1>4 DEF ExecuteSucceeded, Return
  <2> QED
    BY <2>1, <1>g DEF Answers
<1>5. ASSUME NEW q \in Requests, ExecuteFailed(q) \/ Abort(q) PROVE Answers(q)
  <2>1. Fail(q, "failed") \/ Fail(q, "unavailable")
    BY <1>5 DEF ExecuteFailed, Abort
  <2> QED
    BY <2>1, <1>f, <1>g
<1>6. CASE CleanupOnce \/ Tick \/ UNCHANGED vars
  BY <1>6 DEF CleanupOnce, Tick, vars, locals
<1> QED
  BY <1>1, <1>2, <1>3, <1>4, <1>5, <1>6 DEF Next, RequestStep

\* A replay returns the response of a request with the same payload whose handler really
\* ran, and of the last one that claimed the record when no request is late.
THEOREM ReplaysTheLatest == Spec => ReplaysLatest
<1>1. ASSUME IInv, [Next]_vars, NEW r \in Requests, NEW b \in Requests \union {NoBody},
             answer[r] = NoAnswer, answer'[r] = Replay(b)
      PROVE  /\ b \in effects
             /\ Fingerprint[b] = Fingerprint[r]
             /\ ~late => \A s \in effects : claimedAt[s] <= claimedAt[b]
  <2>0. answer \in [Requests -> [kind : Kinds, body : Requests \union {NoBody}]]
    BY <1>1 DEF IInv, TypeOK
  <2>1. answer'[r].kind = "replayed" /\ answer'[r].body = b /\ answer[r].kind = "none"
    BY <1>1 DEF Replay, NoAnswer, Answer
  <2>2. PICK q \in Requests : Answers(q)
    BY <1>1, <2>1, AnswerStep
  <2>3. /\ answer'[r] = Replay(row.body)
        /\ row.status = "succeeded" /\ row.fingerprint = Fingerprint[r]
    <3>1. CASE \E kind \in Kinds \ {"replayed"}, body \in Requests \union {NoBody} :
                   answer' = [answer EXCEPT ![q] = Answer(kind, body)]
      BY <2>0, <2>1, <3>1 DEF Answer
    <3>2. CASE /\ answer' = [answer EXCEPT ![q] = Replay(row.body)]
               /\ row.status = "succeeded" /\ row.fingerprint = Fingerprint[q]
      BY <2>0, <2>1, <3>2
    <3> QED
      BY <2>2, <3>1, <3>2 DEF Answers
  <2>4. b = row.body
    BY <2>1, <2>3 DEF Replay, Answer
  <2> QED
    BY <1>1, <2>3, <2>4 DEF IInv, EffectInv, LatestInv, StoredIsLatest
<1>2. IInv /\ [Next]_vars
        => [\A r \in Requests, b \in Requests \union {NoBody} :
               (answer[r] = NoAnswer /\ answer'[r] = Replay(b)) =>
                   /\ b \in effects
                   /\ Fingerprint[b] = Fingerprint[r]
                   /\ ~late => \A s \in effects : claimedAt[s] <= claimedAt[b]]_vars
  BY <1>1
<1> QED
  BY <1>2, Invariance, PTL DEF Spec, ReplaysLatest
=============================================================================
