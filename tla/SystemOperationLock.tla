------------------------ MODULE SystemOperationLock -------------------------
(***************************************************************************)
(* The global lock of the system operations (update, rollback, restart):   *)
(* service/system_operation_lock_service.go, on one idempotency record.    *)
(*                                                                         *)
(* An operation is a request goroutine that acquires the lock, works and   *)
(* releases it, and a renewal goroutine that extends the lock on a ticker. *)
(* Both read the clock before the statement that writes the times computed *)
(* from it, and the statement may run any time later.                      *)
(* Requests that repeat an Idempotency-Key have the same operation id.     *)
(***************************************************************************)
EXTENDS IdempotencyStore, FiniteSets

CONSTANTS
    Operations,     \* requests for a system operation
    OperationId,    \* operation -> buildSystemOperationID(...)
    Lease,          \* s.lease
    TTL,            \* s.ttl
    MaxClock        \* bound: the last tick of the clock

ASSUME OperationsAssumption ==
    /\ OperationId \in [Operations -> Fingerprints]
    /\ Bodies = Operations
ASSUME LeaseAssumption ==
    /\ Lease \in Nat \ {0} /\ TTL \in Nat /\ Lease <= TTL
    /\ MaxClock \in Nat

VARIABLES
    row,       \* the record of the lock in the database
    lastId,    \* the sequence idempotency_records_id_seq
    clock,     \* wall clock
    pc,        \* next statement of each operation
    now,       \* local of Acquire and of Release: the clock as read at its start, or 0
    seen,      \* local of Acquire: existing.ID and existing.Status
    recordId,  \* lock.recordID
    renewal,   \* the operation's renewLoop: not running, at its select, at its UPDATE
    renewNow,  \* local of renewLoop: the clock as read when the ticker fired, or 0
    leaseEnd,  \* history: the locked_until the operation wrote last
    lapsed,    \* history: an operation had the lock after its lease had ended
    shortened  \* history: a late renewal brought another operation's lock forward

loop == <<renewal, renewNow>>
history == <<leaseEnd, lapsed, shortened>>
vars == <<row, lastId, clock, pc, now, seen, recordId, loop, history>>

NothingSeen == [id |-> 0, status |-> "none"]

\* The operations between Acquire's return and the end of Release's statement.
Holders == {o \in Operations : pc[o] \in {"held", "release"}}

Init ==
    /\ row = NoRow /\ lastId = 0 /\ clock = 0
    /\ pc = [o \in Operations |-> "idle"]
    /\ now = [o \in Operations |-> 0]
    /\ seen = [o \in Operations |-> NothingSeen]
    /\ recordId = [o \in Operations |-> 0]
    /\ renewal = [o \in Operations |-> "off"]
    /\ renewNow = [o \in Operations |-> 0]
    /\ leaseEnd = [o \in Operations |-> 0]
    /\ lapsed = FALSE /\ shortened = FALSE

\* Bound: no record outlives the clock.
Horizon == clock + TTL <= MaxClock

Acquire(o) ==
    /\ pc[o] = "idle"
    /\ Horizon
    /\ pc' = [pc EXCEPT ![o] = "create"]
    /\ now' = [now EXCEPT ![o] = clock]
    /\ UNCHANGED <<row, lastId, clock, seen, recordId, loop, history>>

\* Acquire returns the lock, with go s.renewLoop(lock).
Grant(o, id) ==
    /\ pc' = [pc EXCEPT ![o] = "held"]
    /\ recordId' = [recordId EXCEPT ![o] = id]
    /\ now' = [now EXCEPT ![o] = 0]
    /\ renewal' = [renewal EXCEPT ![o] = "select"]
    /\ leaseEnd' = [leaseEnd EXCEPT ![o] = now[o] + Lease]
    /\ lapsed' = (lapsed \/ clock >= now[o] + Lease)
    /\ seen' = [seen EXCEPT ![o] = NothingSeen]
    /\ UNCHANGED <<renewNow, shortened>>

\* Acquire returns an error.
Refuse(o) ==
    /\ pc' = [pc EXCEPT ![o] = "done"]
    /\ now' = [now EXCEPT ![o] = 0]
    /\ seen' = [seen EXCEPT ![o] = NothingSeen]
    /\ UNCHANGED <<recordId, loop, history>>

Create(o) ==
    /\ pc[o] = "create"
    /\ row' = CreateProcessing(row, lastId + 1, OperationId[o], now[o] + Lease, now[o] + TTL)
    /\ IF Exists(row)
       THEN /\ pc' = [pc EXCEPT ![o] = "get"]
            /\ UNCHANGED <<lastId, now, seen, recordId, loop, history>>
       ELSE Grant(o, lastId + 1) /\ lastId' = lastId + 1
    /\ UNCHANGED clock

Locked(r, t) == r.status = "processing" /\ r.lockedUntil > t

GetExisting(o) ==
    /\ pc[o] = "get"
    /\ IF ~Exists(row) \/ Locked(row, now[o])
       THEN Refuse(o)
       ELSE /\ pc' = [pc EXCEPT ![o] = "reclaim"]
            /\ seen' = [seen EXCEPT ![o] = [id |-> row.id, status |-> row.status]]
            /\ UNCHANGED <<now, recordId, loop, history>>
    /\ UNCHANGED <<row, lastId, clock>>

\* The reclaim leaves request_fingerprint, the id of the operation that
\* inserted the record, as it is.
Reclaim(o) ==
    /\ pc[o] = "reclaim"
    /\ IF Reclaimable(row, seen[o].id, seen[o].status, now[o])
       THEN row' = TryReclaim(row, now[o] + Lease, now[o] + TTL) /\ Grant(o, seen[o].id)
       ELSE Refuse(o) /\ UNCHANGED row
    /\ UNCHANGED <<lastId, clock>>

\* The ticker of renewLoop fires, early or late; also when it was due as the lock was
\* released: the select may choose either of two ready channels.
RenewTick(o) ==
    /\ renewal[o] = "select"
    /\ Horizon
    /\ renewal' = [renewal EXCEPT ![o] = "extend"]
    /\ renewNow' = [renewNow EXCEPT ![o] = clock]
    /\ UNCHANGED <<row, lastId, clock, pc, now, seen, recordId, history>>

\* renewLoop's UPDATE runs and its answer arrives.  The lock may have been released and
\* acquired by another operation since the ticker fired: a reclaimed record keeps the
\* fingerprint, so it may then be the other operation's lock that is set.
Renew(o) ==
    /\ renewal[o] = "extend"
    /\ IF Extendable(row, recordId[o], OperationId[o])
       THEN /\ row' = ExtendProcessingLock(row, renewNow[o] + Lease, renewNow[o] + TTL)
            /\ renewal' = [renewal EXCEPT ![o] = "select"]
            /\ leaseEnd' = [leaseEnd EXCEPT ![o] = renewNow[o] + Lease]
            /\ shortened' = (shortened \/ \E p \in Holders \ {o} :
                                              renewNow[o] + Lease < leaseEnd[p])
       ELSE /\ renewal' = [renewal EXCEPT ![o] = "off"]
            /\ UNCHANGED <<row, leaseEnd, shortened>>
    /\ renewNow' = [renewNow EXCEPT ![o] = 0]
    /\ UNCHANGED <<lastId, clock, pc, now, seen, recordId, lapsed>>

\* The UPDATE fails, or its context of two seconds ends: the loop goes on.
RenewFails(o) ==
    /\ renewal[o] = "extend"
    /\ renewal' = [renewal EXCEPT ![o] = "select"]
    /\ renewNow' = [renewNow EXCEPT ![o] = 0]
    /\ UNCHANGED <<row, lastId, clock, pc, now, seen, recordId, history>>

\* renewLoop sees the closed stopCh.
StopRenewing(o) ==
    /\ renewal[o] = "select" /\ pc[o] \in {"release", "done"}
    /\ renewal' = [renewal EXCEPT ![o] = "off"]
    /\ UNCHANGED <<row, lastId, clock, pc, now, seen, recordId, renewNow, history>>

\* The operation ends: close(stopCh), and the clock is read for the mark.
Release(o) ==
    /\ pc[o] = "held"
    /\ Horizon
    /\ pc' = [pc EXCEPT ![o] = "release"]
    /\ now' = [now EXCEPT ![o] = clock]
    /\ UNCHANGED <<row, lastId, clock, seen, recordId, loop, history>>

\* Release's statement: one of the marks, by id alone; it may fail.
Mark(o) ==
    /\ pc[o] = "release"
    /\ pc' = [pc EXCEPT ![o] = "done"]
    /\ row' \in {MarkSucceeded(row, recordId[o], o, now[o] + TTL),
                 MarkFailedRetryable(row, recordId[o], now[o], now[o] + TTL),
                 row}
    /\ now' = [now EXCEPT ![o] = 0]
    /\ UNCHANGED <<lastId, clock, seen, recordId, loop, history>>

\* The process dies, both goroutines of the operation with it.
Crash(o) ==
    /\ pc[o] \in {"create", "get", "reclaim", "held", "release"}
    /\ pc' = [pc EXCEPT ![o] = "done"]
    /\ seen' = [seen EXCEPT ![o] = NothingSeen]
    /\ now' = [now EXCEPT ![o] = 0]
    /\ renewal' = [renewal EXCEPT ![o] = "off"]
    /\ renewNow' = [renewNow EXCEPT ![o] = 0]
    /\ UNCHANGED <<row, lastId, clock, recordId, history>>

\* idempotency_cleanup_service.go deletes the lock's record too.
CleanupOnce ==
    /\ row' = DeleteExpired(row, clock)
    /\ row' # row
    /\ UNCHANGED <<lastId, clock, pc, now, seen, recordId, loop, history>>

Tick ==
    /\ clock < MaxClock
    /\ clock' = clock + 1
    /\ lapsed' = (lapsed \/ \E o \in Holders : clock' >= leaseEnd[o])
    /\ UNCHANGED <<row, lastId, pc, now, seen, recordId, loop, leaseEnd, shortened>>

-----------------------------------------------------------------------------

Step(o) ==
    \/ Acquire(o) \/ Create(o) \/ GetExisting(o) \/ Reclaim(o)
    \/ RenewTick(o) \/ Renew(o) \/ RenewFails(o) \/ StopRenewing(o)
    \/ Release(o) \/ Mark(o)

Next ==
    \/ \E o \in Operations : Step(o) \/ Crash(o)
    \/ CleanupOnce
    \/ Tick

Spec == Init /\ [][Next]_vars

-----------------------------------------------------------------------------
(* Properties *)

\* Every variable has its type, and an operation that holds the lock knows the
\* id of a record the database has given out.
TypeOK ==
    /\ row \in Rows /\ lastId \in Nat /\ clock \in 0..MaxClock
    /\ pc \in [Operations -> {"idle", "create", "get", "reclaim", "held", "release", "done"}]
    /\ now \in [Operations -> 0..MaxClock]
    /\ seen \in [Operations -> [id : 0..lastId, status : RecordStatuses \union {"none"}]]
    /\ recordId \in [Operations -> 0..lastId]
    /\ \A o \in Holders : recordId[o] # 0
    /\ renewal \in [Operations -> {"off", "select", "extend"}]
    /\ renewNow \in [Operations -> 0..MaxClock]
    /\ leaseEnd \in [Operations -> Nat]
    /\ lapsed \in BOOLEAN /\ shortened \in BOOLEAN

\* Two system operations never have the lock together, from Acquire's return to the mark
\* of Release, as long as each is renewed or marked before the lease it last wrote is over
\* and no renewal lands so late that it brings the next operation's locked_until forward:
\* neither the race for the insert or the reclaim, nor a renewal by an operation that
\* already ended, hands the lock to a second operation.
ExclusiveUntilLapse == ~lapsed /\ ~shortened => Cardinality(Holders) <= 1

\* A lock that was released, or whose locked_until has passed, can be acquired at once:
\* whenever Acquire does not answer "busy", its reclaim matches the record.  The renewLoop
\* of an operation that has ended does not push locked_until of a released record into
\* the future, where the reclaim of the next operation would miss it.
ReleasedIsAcquirable ==
    Exists(row) /\ ~Locked(row, clock) => Reclaimable(row, row.id, row.status, clock)

=============================================================================
