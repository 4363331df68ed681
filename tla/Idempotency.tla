---------------------------- MODULE Idempotency -----------------------------
(***************************************************************************)
(* IdempotencyCoordinator.Execute (service/idempotency.go) for the         *)
(* requests that carry one Idempotency-Key, with the job that deletes      *)
(* expired records (idempotency_cleanup_service.go).                       *)
(*                                                                         *)
(* A request is one goroutine.  It reads the wall clock once, before its   *)
(* first statement, and computes expires_at and locked_until from that     *)
(* reading however much later they are written.  Every SQL statement is    *)
(* one step; the decisions the code takes on a row it has read belong to   *)
(* the step that reads it.                                                 *)
(***************************************************************************)
EXTENDS IdempotencyStore, FiniteSets

CONSTANTS
    Requests,            \* requests that carry the key
    Fingerprint,         \* request -> BuildIdempotencyFingerprint(...)
    TTL,                 \* opts.TTL
    ProcessingTimeout,   \* cfg.ProcessingTimeout
    FailedRetryBackoff,  \* cfg.FailedRetryBackoff
    MaxClock             \* bound: the last tick of the clock

ASSUME RequestsAssumption == Fingerprint \in [Requests -> Fingerprints]
ASSUME SentinelAssumption == NoPrint \notin Fingerprints /\ NoBody \notin Requests
ASSUME BodiesAssumption == Bodies = Requests
ASSUME DurationAssumption ==
    /\ TTL \in Nat \ {0} /\ ProcessingTimeout \in Nat
    /\ FailedRetryBackoff \in Nat /\ MaxClock \in Nat
ASSUME TimeoutAssumption == ProcessingTimeout <= TTL

VARIABLES
    row,       \* the record of the key in the database
    lastId,    \* the sequence idempotency_records_id_seq
    clock,     \* wall clock
    pc,        \* next statement of each request
    now,       \* local: the clock as read at the start
    recordId,  \* local: record.ID, 0 until the request owns the record
    seen,      \* local: existing.ID and existing.Status
    until,     \* local: backoffUntil
    answer,    \* what the request returned to its caller
    claimedAt, \* history: the clock when the request took the record
    effects,   \* history: requests whose handler ran to success
    late,      \* history: a request claimed the record when its own lock was
               \* already over, or was still running when its record expired
    overtaken  \* history: a request that had read the record as expired took
               \* it when another one had already given it a new life

locals == <<pc, now, recordId, seen, until, answer>>
vars == <<row, lastId, clock, locals, claimedAt, effects, late, overtaken>>

\* The states of a request between its claim and its final mark.
OwnerStates == {"execute", "mark_succeeded", "mark_failed"}
Running == {"create", "get", "reclaim_expired", "get_latest", "reclaim"} \union OwnerStates

\* A caller gets an error, fresh data, or the stored data of some request.
Kinds == {"none", "executed", "replayed", "in_progress", "conflict",
          "backoff", "unavailable", "failed"}
Answer(kind, body) == [kind |-> kind, body |-> body]
Replay(body) == Answer("replayed", body)
NoAnswer == Answer("none", NoBody)

NothingSeen == [id |-> 0, status |-> "none"]

Owners == {r \in Requests : pc[r] \in OwnerStates}

-----------------------------------------------------------------------------

Init ==
    /\ row = NoRow /\ lastId = 0 /\ clock = 0
    /\ pc = [r \in Requests |-> "idle"]
    /\ now = [r \in Requests |-> 0]
    /\ recordId = [r \in Requests |-> 0]
    /\ seen = [r \in Requests |-> NothingSeen]
    /\ until = [r \in Requests |-> 0]
    /\ answer = [r \in Requests |-> NoAnswer]
    /\ claimedAt = [r \in Requests |-> 0]
    /\ effects = {} /\ late = FALSE /\ overtaken = FALSE

\* The request returns and its local variables are gone.  Of the requests
\* whose handler succeeded, the start and the claim are remembered.
Return(r, a) ==
    /\ pc' = [pc EXCEPT ![r] = "done"]
    /\ answer' = [answer EXCEPT ![r] = a]
    /\ recordId' = [recordId EXCEPT ![r] = 0]
    /\ seen' = [seen EXCEPT ![r] = NothingSeen]
    /\ until' = [until EXCEPT ![r] = 0]
    /\ IF r \in effects
       THEN UNCHANGED <<now, claimedAt>>
       ELSE /\ now' = [now EXCEPT ![r] = 0]
            /\ claimedAt' = [claimedAt EXCEPT ![r] = 0]

Fail(r, error) == Return(r, Answer(error, NoBody))

Continue(r, where) ==
    /\ pc' = [pc EXCEPT ![r] = where]
    /\ UNCHANGED <<now, recordId, seen, until, answer, claimedAt>>

\* The next statement is about the record just read.
ContinueWith(r, where, existing) ==
    /\ pc' = [pc EXCEPT ![r] = where]
    /\ seen' = [seen EXCEPT ![r] = [id |-> existing.id, status |-> existing.status]]
    /\ UNCHANGED <<now, recordId, until, answer, claimedAt>>

LockedUntil(r) == now[r] + ProcessingTimeout

ExpiresAt(r) == now[r] + TTL

\* record.ID is known: the request owns the record and runs its handler.
TakeOwnership(r, id) ==
    /\ pc' = [pc EXCEPT ![r] = "execute"]
    /\ recordId' = [recordId EXCEPT ![r] = id]
    /\ claimedAt' = [claimedAt EXCEPT ![r] = clock]
    /\ seen' = [seen EXCEPT ![r] = NothingSeen]
    /\ late' = (late \/ clock >= LockedUntil(r))
    /\ UNCHANGED <<now, until, answer>>

\* A request arrives.  Bound: early enough for its record to expire in time.
Begin(r) ==
    /\ pc[r] = "idle"
    /\ clock + TTL <= MaxClock
    /\ pc' = [pc EXCEPT ![r] = "create"]
    /\ now' = [now EXCEPT ![r] = clock]
    /\ UNCHANGED <<row, lastId, clock, recordId, seen, until, answer, claimedAt, effects, late, overtaken>>

Create(r) ==
    /\ pc[r] = "create"
    /\ row' = CreateProcessing(row, lastId + 1, Fingerprint[r], LockedUntil(r), ExpiresAt(r))
    /\ IF Exists(row)
       THEN Continue(r, "get") /\ UNCHANGED <<lastId, late>>
       ELSE TakeOwnership(r, lastId + 1) /\ lastId' = lastId + 1
    /\ UNCHANGED <<clock, effects, overtaken>>

\* switch existing.Status, for a record that was not reclaimed as expired.
\* A stored body that was cut at MaxStoredResponseLen no longer parses.
Dispatch(r, existing) ==
    \/ /\ existing.status = "succeeded"
       /\ Return(r, Replay(existing.body)) \/ Fail(r, "unavailable")
    \/ /\ existing.status = "processing"
       /\ Fail(r, "in_progress")
    \/ /\ existing.status = "failed_retryable"
       /\ existing.lockedUntil > now[r]
       /\ Fail(r, "backoff")
    \/ /\ existing.status = "failed_retryable"
       /\ existing.lockedUntil <= now[r]
       /\ ContinueWith(r, "reclaim", existing)

GetExisting(r) ==
    /\ pc[r] = "get"
    /\ \/ ~Exists(row) /\ Fail(r, "unavailable")
       \/ /\ Exists(row) /\ row.fingerprint # Fingerprint[r]
          /\ Fail(r, "conflict")
       \/ /\ Exists(row) /\ row.fingerprint = Fingerprint[r]
          /\ row.expiresAt <= now[r]
          /\ ContinueWith(r, "reclaim_expired", row)
       \/ /\ Exists(row) /\ row.fingerprint = Fingerprint[r]
          /\ row.expiresAt > now[r]
          /\ Dispatch(r, row)
    /\ UNCHANGED <<row, lastId, clock, effects, late, overtaken>>

ReclaimExpired(r) ==
    /\ pc[r] = "reclaim_expired"
    /\ IF Reclaimable(row, seen[r].id, seen[r].status, now[r])
       THEN /\ row' = TryReclaim(row, LockedUntil(r), ExpiresAt(r))
            /\ TakeOwnership(r, seen[r].id)
            /\ overtaken' = (overtaken \/ row.expiresAt > now[r])
       ELSE Continue(r, "get_latest") /\ UNCHANGED <<row, late, overtaken>>
    /\ UNCHANGED <<lastId, clock, effects>>

\* The record a lost reclaim left behind; its expiry is not looked at again.
GetLatest(r) ==
    /\ pc[r] = "get_latest"
    /\ \/ ~Exists(row) /\ Fail(r, "unavailable")
       \/ /\ Exists(row) /\ row.fingerprint # Fingerprint[r]
          /\ Fail(r, "conflict")
       \/ /\ Exists(row) /\ row.fingerprint = Fingerprint[r]
          /\ Dispatch(r, row)
    /\ UNCHANGED <<row, lastId, clock, effects, late, overtaken>>

ReclaimFailed(r) ==
    /\ pc[r] = "reclaim"
    /\ IF Reclaimable(row, seen[r].id, "failed_retryable", now[r])
       THEN /\ row' = TryReclaim(row, LockedUntil(r), ExpiresAt(r))
            /\ TakeOwnership(r, seen[r].id)
       ELSE Fail(r, "in_progress") /\ UNCHANGED <<row, late>>
    /\ UNCHANGED <<lastId, clock, effects, overtaken>>

\* Mutant: an error of the handler is not looked at.
ExecuteIgnoringError(r) ==
    /\ pc[r] = "execute"
    /\ effects' \in {effects, effects \union {r}}
    /\ Continue(r, "mark_succeeded")
    /\ UNCHANGED <<row, lastId, clock, late, overtaken>>

\* The protected handler, execute(ctx): all of its effect, or an error.
Execute(r) ==
    /\ pc[r] = "execute"
    /\ \/ /\ effects' = effects \union {r}
          /\ Continue(r, "mark_succeeded")
       \/ /\ pc' = [pc EXCEPT ![r] = "mark_failed"]
          /\ until' = [until EXCEPT ![r] = clock + FailedRetryBackoff]
          /\ UNCHANGED <<effects, now, recordId, seen, answer, claimedAt>>
    /\ UNCHANGED <<row, lastId, clock, late, overtaken>>

ExecuteSucceeded(r) ==
    /\ pc[r] = "mark_succeeded"
    /\ row' = MarkSucceeded(row, recordId[r], r, ExpiresAt(r))
    /\ Return(r, Answer("executed", r))
    /\ UNCHANGED <<lastId, clock, effects, late, overtaken>>

ExecuteFailed(r) ==
    /\ pc[r] = "mark_failed"
    /\ row' = MarkFailedRetryable(row, recordId[r], until[r], ExpiresAt(r))
    /\ Fail(r, "failed")
    /\ UNCHANGED <<lastId, clock, effects, late, overtaken>>

\* The process dies, or the next statement (or json.Marshal) returns an error:
\* every such path returns without touching the record again.
Abort(r) ==
    /\ pc[r] \in Running
    /\ Fail(r, IF pc[r] = "mark_failed" THEN "failed" ELSE "unavailable")
    /\ UNCHANGED <<row, lastId, clock, effects, late, overtaken>>

CleanupOnce ==
    /\ row' = DeleteExpired(row, clock)
    /\ row' # row
    /\ UNCHANGED <<lastId, clock, locals, claimedAt, effects, late, overtaken>>

Tick ==
    /\ clock < MaxClock
    /\ clock' = clock + 1
    /\ late' = (late \/ \E r \in Requests : pc[r] \in Running /\ clock' >= ExpiresAt(r))
    /\ UNCHANGED <<row, lastId, locals, claimedAt, effects, overtaken>>

-----------------------------------------------------------------------------

RequestStep(r) ==
    \/ Create(r) \/ GetExisting(r) \/ ReclaimExpired(r) \/ GetLatest(r)
    \/ ReclaimFailed(r) \/ Execute(r) \/ ExecuteSucceeded(r) \/ ExecuteFailed(r)

Next ==
    \/ \E r \in Requests : Begin(r) \/ RequestStep(r) \/ Abort(r)
    \/ CleanupOnce
    \/ Tick

Spec == Init /\ [][Next]_vars

\* A goroutine that runs keeps running, the cleanup ticker keeps firing and
\* time passes.  No request need arrive.
FairSpec ==
    /\ Spec
    /\ \A r \in Requests : WF_vars(RequestStep(r))
    /\ WF_vars(CleanupOnce)
    /\ WF_vars(Tick)

-----------------------------------------------------------------------------
(* Properties *)

\* Every variable has its type, and a record expires no later than TTL from now.
TypeOK ==
    /\ row \in Rows /\ lastId \in Nat /\ clock \in 0..MaxClock
    /\ pc \in [Requests -> Running \union {"idle", "done"}]
    /\ now \in [Requests -> 0..MaxClock]
    /\ recordId \in [Requests -> 0..lastId]
    /\ seen \in [Requests -> [id : 0..lastId, status : RecordStatuses \union {"none"}]]
    /\ until \in [Requests -> Nat]
    /\ answer \in [Requests -> [kind : Kinds, body : Requests \union {NoBody}]]
    /\ claimedAt \in [Requests -> 0..MaxClock]
    /\ effects \subseteq Requests
    /\ late \in BOOLEAN /\ overtaken \in BOOLEAN
    /\ row.id \in 0..lastId
    /\ row.expiresAt <= clock + TTL

\* As long as no request is late, at most one request at a time is between
\* winning the record and marking it: the INSERT, the two reclaims and the
\* unconditional marks of Execute never let two handlers run together.
OneOwner == ~late => Cardinality(Owners) <= 1

\* Two requests are TTL apart: the later one claimed the record only when the
\* life that the earlier one gave it was over.
TTLApart(r, s) == claimedAt[s] >= now[r] + TTL \/ claimedAt[r] >= now[s] + TTL

AllTTLApart == \A r, s \in effects : r # s => TTLApart(r, s)

\* As long as no request is late and none overtook another in the reclaim of
\* an expired record, the handler succeeds once per life of the record,
\* whatever failed, crashed, was replayed or was cleaned up in between.
OneEffectPerLife == ~late /\ ~overtaken => AllTTLApart

\* The same for all requests that are not late, what concurrent callers of
\* Execute are promised.
OneEffectPerTTL == ~late => AllTTLApart

\* A replay returns the response of a request with the same fingerprint whose
\* handler really ran, and of the last one that did when no request is late.
ReplaysLatest ==
    [][\A r \in Requests, b \in Requests \union {NoBody} :
          (answer[r] = NoAnswer /\ answer'[r] = Replay(b)) =>
              /\ b \in effects
              /\ Fingerprint[b] = Fingerprint[r]
              /\ ~late => \A s \in effects : claimedAt[s] <= claimedAt[b]]_vars

\* A key never stays "in progress" for ever: whatever its owner died of, the
\* record is finished, retaken or deleted once its TTL is over.
InProgressEnds ==
    (Exists(row) /\ row.status = "processing")
        ~> (~Exists(row) \/ row.status # "processing")

=============================================================================
