-------------------------- MODULE IdempotencyStore --------------------------
(***************************************************************************)
(* The row of table idempotency_records that one (scope, key) pair selects *)
(* and the SQL statements of repository/idempotency_repo.go on it.  Every  *)
(* statement is one operator: the row after it, as a function of the row   *)
(* before it.  The coordinator (Idempotency) and the global lock of the    *)
(* system operations (SystemOperationLock) are both built from them.       *)
(*                                                                         *)
(* Times are ticks of one clock.  A NULL locked_until is 0: every reader   *)
(* treats NULL the way it treats a time that has passed.                   *)
(***************************************************************************)
EXTENDS Naturals

CONSTANTS
    Fingerprints,   \* values of request_fingerprint
    Bodies          \* values of response_body

RecordStatuses == {"processing", "succeeded", "failed_retryable"}

NoBody == "no_body"
NoPrint == "no_fingerprint"

\* No row selected: ids start at 1, so id 0 is the code's "record is nil".
NoRow == [id |-> 0, fingerprint |-> NoPrint, status |-> "failed_retryable",
          lockedUntil |-> 0, expiresAt |-> 0, body |-> NoBody]

Rows == [id : Nat, fingerprint : Fingerprints \union {NoPrint},
         status : RecordStatuses, lockedUntil : Nat, expiresAt : Nat,
         body : Bodies \union {NoBody}]

Exists(row) == row.id # 0

-----------------------------------------------------------------------------
(* INSERT ... ON CONFLICT DO NOTHING: the row it leaves; the caller owns   *)
(* it when there was none before.                                          *)
CreateProcessing(row, id, fp, lockedUntil, expiresAt) ==
    IF Exists(row)
    THEN row
    ELSE [id |-> id, fingerprint |-> fp, status |-> "processing",
          lockedUntil |-> lockedUntil, expiresAt |-> expiresAt, body |-> NoBody]

(* UPDATE ... WHERE id = $1 AND status = $5 AND locked_until <= $6         *)
\* Mutant: the reclaim forgets AND status = $5.
ReclaimableInAnyStatus(row, id, fromStatus, now) ==
    Exists(row) /\ row.id = id /\ row.lockedUntil <= now

Reclaimable(row, id, fromStatus, now) ==
    /\ Exists(row) /\ row.id = id
    /\ row.status = fromStatus
    /\ row.lockedUntil <= now

\* Mutant: the reclaim does not set locked_until.
TryReclaimUnlocked(row, lockedUntil, expiresAt) ==
    [row EXCEPT !.status = "processing", !.expiresAt = expiresAt]

TryReclaim(row, lockedUntil, expiresAt) ==
    [row EXCEPT !.status = "processing", !.lockedUntil = lockedUntil,
                !.expiresAt = expiresAt]

(* UPDATE ... WHERE id = $1 AND status = 'processing' AND fingerprint = $5 *)
\* Mutant: a renewal reaches a record that was released meanwhile.
ExtendableInAnyStatus(row, id, fp) ==
    Exists(row) /\ row.id = id /\ row.fingerprint = fp

Extendable(row, id, fp) ==
    /\ Exists(row) /\ row.id = id
    /\ row.status = "processing"
    /\ row.fingerprint = fp

ExtendProcessingLock(row, lockedUntil, expiresAt) ==
    [row EXCEPT !.lockedUntil = lockedUntil, !.expiresAt = expiresAt]

(* The two final marks select the row by id alone.                         *)
MarkSucceeded(row, id, body, expiresAt) ==
    IF Exists(row) /\ row.id = id
    THEN [row EXCEPT !.status = "succeeded", !.body = body,
                     !.lockedUntil = 0, !.expiresAt = expiresAt]
    ELSE row

MarkFailedRetryable(row, id, lockedUntil, expiresAt) ==
    IF Exists(row) /\ row.id = id
    THEN [row EXCEPT !.status = "failed_retryable",
                     !.lockedUntil = lockedUntil, !.expiresAt = expiresAt]
    ELSE row

(* DELETE ... WHERE expires_at <= $1                                       *)
\* Mutant: the cleanup spares the records still in progress.
DeleteFinished(row, now) ==
    IF Exists(row) /\ row.expiresAt <= now /\ row.status # "processing"
    THEN NoRow ELSE row

DeleteExpired(row, now) ==
    IF Exists(row) /\ row.expiresAt <= now THEN NoRow ELSE row

=============================================================================
