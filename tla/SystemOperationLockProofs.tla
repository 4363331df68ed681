--------------------- MODULE SystemOperationLockProofs ----------------------
(***************************************************************************)
(* The safety properties of SystemOperationLock for every set of           *)
(* operations, every assignment of operation ids and every lease.          *)
(***************************************************************************)
EXTENDS SystemOperationLock, FiniteSetTheorems, TLAPS

\* What the goroutines know of the sequence and the clock.
ClockInv ==
    /\ row.id <= lastId
    /\ \A o \in Operations :
          /\ now[o] <= clock /\ renewNow[o] <= clock /\ leaseEnd[o] <= clock + Lease
          /\ renewal[o] = "extend" => leaseEnd[o] <= renewNow[o] + Lease

\* A record in progress does not expire before its lock does (Lease <= TTL).
ExpiryInv == row.status = "processing" => row.lockedUntil <= row.expiresAt

\* A record that is not in progress is not locked into the future.
UnlockedInv == row.status # "processing" => row.lockedUntil <= clock

\* As long as no lease has lapsed or was cut short, the record in the database is the holder's: locked
\* at least until the end of the holder's lease, which is still to come.
HasTheRecord(o) ==
    /\ Exists(row) /\ row.id = recordId[o]
    /\ row.status = "processing"
    /\ leaseEnd[o] <= row.lockedUntil
    /\ clock < leaseEnd[o]

HolderInv == ~lapsed /\ ~shortened => \A o \in Holders : HasTheRecord(o)

\* The inductive form of ExclusiveUntilLapse.
OnlyHolder(o) == \A p \in Holders : p = o
ExclusionInv == ~lapsed /\ ~shortened => \A o \in Holders : OnlyHolder(o)

IInv == TypeOK /\ ClockInv /\ ExpiryInv /\ UnlockedInv /\ HolderInv /\ ExclusionInv

\* The record after any statement has the columns of a record.
LEMMA CreateType ==
    ASSUME NEW r \in Rows, NEW id \in Nat, NEW fp \in Fingerprints, NEW t \in Nat, NEW u \in Nat
    PROVE  CreateProcessing(r, id, fp, t, u) \in Rows
BY DEF Rows, RecordStatuses, CreateProcessing

\* So does a record that is claimed again, or whose lease is extended.
LEMMA LockType ==
    ASSUME NEW r \in Rows, NEW t \in Nat, NEW u \in Nat
    PROVE  TryReclaim(r, t, u) \in Rows /\ ExtendProcessingLock(r, t, u) \in Rows
BY DEF Rows, RecordStatuses, TryReclaim, ExtendProcessingLock

\* So does a record that is marked with its outcome.
LEMMA MarkType ==
    ASSUME NEW r \in Rows, NEW id \in Nat, NEW body \in Bodies, NEW t \in Nat, NEW u \in Nat
    PROVE  MarkSucceeded(r, id, body, u) \in Rows /\ MarkFailedRetryable(r, id, t, u) \in Rows
BY DEF Rows, RecordStatuses, MarkSucceeded, MarkFailedRetryable

\* The inductive invariant holds when nobody has asked for the lock yet.
LEMMA InitInv == Init => IInv
<1> SUFFICES ASSUME Init PROVE IInv  OBVIOUS
<1>1. row \in Rows /\ row.id = 0 /\ row.status = "failed_retryable" /\ row.lockedUntil = 0
  BY DEF Init, Rows, NoRow, RecordStatuses
<1>2. Holders = {}
  BY DEF Init, Holders
<1>3. TypeOK
  <2>1. seen \in [Operations -> [id : 0..lastId, status : RecordStatuses \union {"none"}]]
    BY DEF Init, NothingSeen
  <2>2. lapsed \in BOOLEAN /\ shortened \in BOOLEAN
    BY DEF Init
  <2>3. renewal \in [Operations -> {"off", "select", "extend"}]
    BY DEF Init
  <2>4. /\ lastId \in Nat /\ clock \in 0..MaxClock
        /\ pc \in [Operations -> {"idle", "create", "get", "reclaim", "held", "release", "done"}]
        /\ now \in [Operations -> 0..MaxClock]
        /\ recordId \in [Operations -> 0..lastId]
        /\ leaseEnd \in [Operations -> Nat]
        /\ renewNow \in [Operations -> 0..MaxClock]
    BY LeaseAssumption DEF Init
  <2> QED
    BY <1>1, <1>2, <2>1, <2>2, <2>3, <2>4 DEF TypeOK
<1>4. ClockInv
  BY <1>1, LeaseAssumption DEF Init, ClockInv
<1>5. ExpiryInv /\ UnlockedInv
  BY <1>1 DEF Init, ExpiryInv, UnlockedInv
<1>6. HolderInv /\ ExclusionInv
  BY <1>2 DEF HolderInv, ExclusionInv
<1> QED
  BY <1>3, <1>4, <1>5, <1>6 DEF IInv

\* What Acquire returns to its caller keeps the types.
LEMMA GrantType ==
    ASSUME TypeOK, NEW o \in Operations, NEW id \in Nat \ {0}, Grant(o, id),
           row' \in Rows, lastId' \in Nat, lastId <= lastId', id <= lastId',
           UNCHANGED clock
    PROVE  TypeOK'
<1> USE LeaseAssumption
<1>1. lapsed' \in BOOLEAN /\ shortened' \in BOOLEAN
  BY DEF TypeOK, Grant
<1>7. now' \in [Operations -> 0..MaxClock] /\ renewNow' \in [Operations -> 0..MaxClock]
  BY DEF TypeOK, Grant
<1>2. renewal' \in [Operations -> {"off", "select", "extend"}]
  BY DEF TypeOK, Grant
<1>3. leaseEnd' \in [Operations -> Nat]
  BY DEF TypeOK, Grant
<1>4. seen' \in [Operations -> [id : 0..lastId', status : RecordStatuses \union {"none"}]]
  BY DEF TypeOK, Grant, NothingSeen
<1>5. recordId' \in [Operations -> 0..lastId'] /\ \A p \in Holders' : recordId'[p] # 0
  BY DEF TypeOK, Grant, Holders
<1>6. pc' \in [Operations -> {"idle", "create", "get", "reclaim", "held", "release", "done"}]
  BY DEF TypeOK, Grant
<1> QED
  BY <1>1, <1>2, <1>3, <1>4, <1>5, <1>6, <1>7 DEF TypeOK

\* One step of an operation, of the cleanup job or of the clock keeps the types.
LEMMA TypeStep ==
    ASSUME TypeOK, ClockInv, [Next]_vars
    PROVE  TypeOK'
<1>0. /\ row \in Rows /\ row.id \in 0..lastId /\ lastId \in Nat /\ clock \in Nat
      /\ lastId + 1 \in Nat /\ clock + Lease \in Nat /\ clock + TTL \in Nat
  BY LeaseAssumption DEF TypeOK, ClockInv, Rows
<1>a. \A o \in Operations : now[o] \in Nat /\ now[o] + Lease \in Nat /\ now[o] + TTL \in Nat
  BY LeaseAssumption DEF TypeOK
<1>b. \A o \in Operations : recordId[o] \in Nat /\ OperationId[o] \in Fingerprints /\ o \in Bodies
  BY OperationsAssumption DEF TypeOK
<1>1. ASSUME NEW o \in Operations, Acquire(o) PROVE TypeOK'
  BY <1>1 DEF TypeOK, Acquire, Holders, loop, history
<1>2. ASSUME NEW o \in Operations, Create(o) PROVE TypeOK'
  <2>0. row' = CreateProcessing(row, lastId + 1, OperationId[o], now[o] + Lease, now[o] + TTL)
    BY <1>2 DEF Create
  <2>1. row' \in Rows
    BY <2>0, <1>0, <1>a, <1>b, CreateType
  <2>2. CASE Exists(row)
    BY <1>2, <2>1, <2>2 DEF TypeOK, Create, Holders, loop, history
  <2>3. CASE ~Exists(row)
    <3>1. Grant(o, lastId + 1) /\ lastId' = lastId + 1 /\ UNCHANGED clock
      BY <1>2, <2>3 DEF Create
    <3> QED
      BY <2>1, <3>1, <1>0, GrantType
  <2> QED  BY <2>2, <2>3
<1>3. ASSUME NEW o \in Operations, GetExisting(o) PROVE TypeOK'
  <2>0. UNCHANGED <<row, lastId, clock, recordId, renewal, renewNow, leaseEnd, lapsed, shortened>>
    BY <1>3 DEF GetExisting, Refuse, loop, history
  <2>4. now' \in [Operations -> 0..MaxClock]
    BY <1>3, LeaseAssumption DEF TypeOK, GetExisting, Refuse
  <2>1. pc' \in [Operations -> {"idle", "create", "get", "reclaim", "held", "release", "done"}]
    BY <1>3 DEF TypeOK, GetExisting, Refuse
  <2>2. \A p \in Operations : pc'[p] \in {"held", "release"} => pc[p] \in {"held", "release"}
    BY <1>3 DEF TypeOK, GetExisting, Refuse
  <2>3. seen' \in [Operations -> [id : 0..lastId, status : RecordStatuses \cup {"none"}]]
    <3>1. PICK s : seen' = [seen EXCEPT ![o] = s]
                   /\ s \in {NothingSeen, [id |-> row.id, status |-> row.status]}
      BY <1>3 DEF GetExisting, Refuse
    <3>2. s \in [id : 0..lastId, status : RecordStatuses \cup {"none"}]
      BY <3>1, <1>0 DEF NothingSeen, Rows
    <3> QED
      BY <3>1, <3>2 DEF TypeOK
  <2> QED
    BY <2>0, <2>1, <2>2, <2>3, <2>4 DEF TypeOK, Holders
<1>4. ASSUME NEW o \in Operations, Reclaim(o) PROVE TypeOK'
  <2>1. CASE Reclaimable(row, seen[o].id, seen[o].status, now[o])
    <3>0. row' = TryReclaim(row, now[o] + Lease, now[o] + TTL)
      BY <1>4, <2>1 DEF Reclaim
    <3>1. row' \in Rows
      BY <3>0, <1>0, <1>a, LockType
    <3>2. Grant(o, seen[o].id) /\ UNCHANGED <<lastId, clock>>
      BY <1>4, <2>1 DEF Reclaim
    <3>3. seen[o].id \in 1..lastId
      BY <2>1, <1>0 DEF Reclaimable, Exists
    <3> QED
      BY <3>1, <3>2, <3>3, <1>0, GrantType
  <2>2. CASE ~Reclaimable(row, seen[o].id, seen[o].status, now[o])
    <3>1. Refuse(o) /\ UNCHANGED <<row, lastId, clock>>
      BY <1>4, <2>2 DEF Reclaim
    <3> QED
      BY <3>1, LeaseAssumption DEF TypeOK, Holders, Refuse, NothingSeen, loop, history
  <2> QED  BY <2>1, <2>2
<1>5. ASSUME NEW o \in Operations, Renew(o) PROVE TypeOK'
  <2>0. row' \in {row, ExtendProcessingLock(row, renewNow[o] + Lease, renewNow[o] + TTL)}
    BY <1>5 DEF Renew
  <2>1. row' \in Rows
    <3>1. renewNow[o] + Lease \in Nat /\ renewNow[o] + TTL \in Nat
      BY LeaseAssumption DEF TypeOK
    <3> QED
      BY <2>0, <3>1, <1>0, LockType
  <2>2. renewal' \in [Operations -> {"off", "select", "extend"}]
    BY <1>5 DEF TypeOK, Renew
  <2>3. leaseEnd' \in [Operations -> Nat] /\ renewNow' \in [Operations -> 0..MaxClock]
    <3>1. /\ leaseEnd \in [Operations -> Nat] /\ renewNow \in [Operations -> 0..MaxClock]
          /\ renewNow[o] + Lease \in Nat /\ 0 \in 0..MaxClock
      BY LeaseAssumption DEF TypeOK
    <3>2. leaseEnd' \in {leaseEnd, [leaseEnd EXCEPT ![o] = renewNow[o] + Lease]}
      BY <1>5 DEF Renew
    <3>3. renewNow' = [renewNow EXCEPT ![o] = 0]
      BY <1>5 DEF Renew
    <3> QED
      BY <3>1, <3>2, <3>3
  <2>4. shortened' \in BOOLEAN
    BY <1>5 DEF TypeOK, Renew
  <2>5. UNCHANGED <<lastId, clock, pc, now, seen, recordId, lapsed>>
    BY <1>5 DEF Renew
  <2> QED
    BY <2>1, <2>2, <2>3, <2>4, <2>5 DEF TypeOK, Holders
<1>6. ASSUME NEW o \in Operations, RenewTick(o) \/ RenewFails(o) \/ StopRenewing(o) PROVE TypeOK'
  <2>1. UNCHANGED <<row, lastId, clock, pc, now, seen, recordId, leaseEnd, lapsed, shortened>>
    BY <1>6 DEF RenewTick, RenewFails, StopRenewing, history
  <2>2. renewal' \in [Operations -> {"off", "select", "extend"}]
    BY <1>6 DEF TypeOK, RenewTick, RenewFails, StopRenewing
  <2>3. renewNow' \in [Operations -> 0..MaxClock]
    BY <1>6, LeaseAssumption DEF TypeOK, RenewTick, RenewFails, StopRenewing
  <2> QED
    BY <2>1, <2>2, <2>3 DEF TypeOK, Holders
<1>7. ASSUME NEW o \in Operations, Release(o) \/ Mark(o) PROVE TypeOK'
  <2>0. row' \in {MarkSucceeded(row, recordId[o], o, now[o] + TTL),
                  MarkFailedRetryable(row, recordId[o], now[o], now[o] + TTL), row}
    BY <1>7 DEF Release, Mark
  <2>1. row' \in Rows
    <3>1. MarkSucceeded(row, recordId[o], o, now[o] + TTL) \in Rows
      BY <1>0, <1>a, <1>b, MarkType
    <3>2. MarkFailedRetryable(row, recordId[o], now[o], now[o] + TTL) \in Rows
      BY <1>0, <1>a, <1>b, MarkType
    <3> QED
      BY <2>0, <1>0, <3>1, <3>2
  <2>2. UNCHANGED <<lastId, clock, seen, recordId, renewal, renewNow, leaseEnd, lapsed, shortened>>
    BY <1>7 DEF Release, Mark, loop, history
  <2>3. /\ pc' \in [Operations -> {"idle", "create", "get", "reclaim", "held", "release", "done"}]
        /\ now' \in [Operations -> 0..MaxClock]
    <3>1. CASE Release(o)
      BY <3>1 DEF TypeOK, Release
    <3>2. CASE Mark(o)
      BY <3>2, LeaseAssumption DEF TypeOK, Mark
    <3> QED  BY <1>7, <3>1, <3>2
  <2>4. \A p \in Operations : pc'[p] \in {"held", "release"} => pc[p] \in {"held", "release"}
    BY <1>7 DEF TypeOK, Release, Mark
  <2> QED
    BY <2>1, <2>2, <2>3, <2>4 DEF TypeOK, Holders
<1>8. ASSUME NEW o \in Operations, Crash(o) PROVE TypeOK'
  BY <1>8, LeaseAssumption DEF TypeOK, Crash, Holders, NothingSeen, RecordStatuses, history
<1>9. CASE CleanupOnce
  <2>1. row' \in Rows
    BY <1>9, <1>0, <1>a DEF CleanupOnce, DeleteExpired, NoRow, Rows, RecordStatuses
  <2> QED
    BY <1>9, <2>1 DEF TypeOK, CleanupOnce, Holders, loop, history
<1>10. CASE Tick
  <2>1. clock' \in 0..MaxClock /\ lapsed' \in BOOLEAN
    BY <1>10, LeaseAssumption DEF TypeOK, Tick
  <2>2. UNCHANGED <<row, lastId, pc, now, seen, recordId, renewal, renewNow, leaseEnd, shortened>>
    BY <1>10 DEF Tick, loop
  <2> QED
    BY <2>1, <2>2 DEF TypeOK, Holders
<1>11. CASE UNCHANGED vars
  BY <1>11 DEF TypeOK, vars, Holders, loop, history
<1> QED
  BY <1>1, <1>2, <1>3, <1>4, <1>5, <1>6, <1>7, <1>8, <1>9, <1>10, <1>11 DEF Next, Step

\* Times only move forward, and every step that writes one adds the lease to it.
LEMMA ClockStep ==
    ASSUME IInv, [Next]_vars
    PROVE  ClockInv'
<1> USE LeaseAssumption
<1>0. /\ row \in Rows /\ row.id \in Nat /\ row.id <= lastId /\ lastId \in Nat /\ clock \in Nat
      /\ now \in [Operations -> Nat] /\ leaseEnd \in [Operations -> Nat]
      /\ renewNow \in [Operations -> Nat] /\ renewal \in [Operations -> {"off", "select", "extend"}]
      /\ \A o \in Operations :
            /\ now[o] <= clock /\ renewNow[o] <= clock /\ leaseEnd[o] <= clock + Lease
            /\ renewal[o] = "extend" => leaseEnd[o] <= renewNow[o] + Lease
  BY DEF IInv, TypeOK, ClockInv, Rows
<1> USE DEF loop, history
<1>1. ASSUME NEW o \in Operations, Acquire(o) \/ Release(o) PROVE ClockInv'
  BY <1>0, <1>1 DEF Acquire, Release, ClockInv
<1>2. ASSUME NEW o \in Operations, Create(o) PROVE ClockInv'
  <2>1. CASE Exists(row)
    BY <1>0, <1>2, <2>1 DEF Create, CreateProcessing, ClockInv
  <2>2. CASE ~Exists(row)
    <3>1. row'.id = lastId + 1 /\ lastId' = lastId + 1 /\ clock' = clock /\ renewNow' = renewNow
      BY <1>2, <2>2 DEF Create, CreateProcessing, Grant
    <3>2. /\ now' = [now EXCEPT ![o] = 0] /\ leaseEnd' = [leaseEnd EXCEPT ![o] = now[o] + Lease]
          /\ renewal' = [renewal EXCEPT ![o] = "select"]
      BY <1>2, <2>2 DEF Create, Grant
    <3> QED
      BY <1>0, <3>1, <3>2 DEF ClockInv
  <2> QED  BY <2>1, <2>2
<1>3. ASSUME NEW o \in Operations, GetExisting(o) PROVE ClockInv'
  BY <1>0, <1>3 DEF GetExisting, Refuse, ClockInv
<1>4. ASSUME NEW o \in Operations, Reclaim(o) PROVE ClockInv'
  <2>1. row'.id = row.id /\ lastId' = lastId /\ clock' = clock /\ renewNow' = renewNow
    BY <1>0, <1>4 DEF Reclaim, TryReclaim, Rows, Grant, Refuse
  <2>2. /\ now' = [now EXCEPT ![o] = 0]
        /\ \/ UNCHANGED <<leaseEnd, renewal>>
           \/ /\ leaseEnd' = [leaseEnd EXCEPT ![o] = now[o] + Lease]
              /\ renewal' = [renewal EXCEPT ![o] = "select"]
    BY <1>4 DEF Reclaim, Grant, Refuse
  <2> QED
    BY <1>0, <2>1, <2>2 DEF ClockInv
<1>5. ASSUME NEW o \in Operations, Renew(o) PROVE ClockInv'
  <2>1. row'.id = row.id /\ UNCHANGED <<lastId, clock, now>>
    BY <1>0, <1>5 DEF Renew, ExtendProcessingLock, Rows
  <2>2. /\ leaseEnd' \in {leaseEnd, [leaseEnd EXCEPT ![o] = renewNow[o] + Lease]}
        /\ renewNow' = [renewNow EXCEPT ![o] = 0]
        /\ \E l \in {"off", "select"} : renewal' = [renewal EXCEPT ![o] = l]
    BY <1>5 DEF Renew
  <2> QED
    BY <1>0, <2>1, <2>2 DEF ClockInv
<1>6. ASSUME NEW o \in Operations, RenewTick(o) \/ RenewFails(o) \/ StopRenewing(o) \/ Crash(o)
      PROVE  ClockInv'
  <2>1. CASE RenewTick(o)
    BY <1>0, <2>1 DEF RenewTick, ClockInv
  <2>2. CASE RenewFails(o) \/ StopRenewing(o) \/ Crash(o)
    BY <1>0, <2>2 DEF RenewFails, StopRenewing, Crash, ClockInv
  <2> QED  BY <1>6, <2>1, <2>2
<1>7. ASSUME NEW o \in Operations, Mark(o) PROVE ClockInv'
  <2>1. row'.id = row.id
    BY <1>0, <1>7 DEF Mark, MarkSucceeded, MarkFailedRetryable, Rows
  <2> QED
    BY <1>0, <1>7, <2>1 DEF Mark, ClockInv
<1>8. CASE CleanupOnce
  BY <1>0, <1>8 DEF CleanupOnce, DeleteExpired, NoRow, ClockInv
<1>9. CASE Tick
  BY <1>0, <1>9 DEF Tick, ClockInv
<1>10. CASE UNCHANGED vars
  BY <1>0, <1>10 DEF vars, ClockInv
<1> QED
  BY <1>1, <1>2, <1>3, <1>4, <1>5, <1>6, <1>7, <1>8, <1>9, <1>10 DEF Next, Step

\* The statements write locked_until and expires_at together, and both marks of a
\* release leave a lock that can be taken at once.
LEMMA RowStep ==
    ASSUME IInv, [Next]_vars
    PROVE  ExpiryInv' /\ UnlockedInv'
<1> USE LeaseAssumption DEF ExpiryInv, UnlockedInv
<1>0. /\ row \in Rows /\ clock \in Nat /\ now \in [Operations -> Nat]
      /\ renewNow \in [Operations -> Nat] /\ \A o \in Operations : now[o] <= clock
      /\ row.status = "processing" => row.lockedUntil <= row.expiresAt
      /\ row.status # "processing" => row.lockedUntil <= clock
  BY DEF IInv, TypeOK, ClockInv
<1>f. row.lockedUntil \in Nat /\ row.expiresAt \in Nat
  BY <1>0 DEF Rows
<1>1. ASSUME NEW o \in Operations, Create(o) PROVE ExpiryInv' /\ UnlockedInv'
  BY <1>0, <1>1 DEF Create, CreateProcessing
<1>2. ASSUME NEW o \in Operations, Reclaim(o) PROVE ExpiryInv' /\ UnlockedInv'
  <2>1. row' \in {row, TryReclaim(row, now[o] + Lease, now[o] + TTL)} /\ clock' = clock
    BY <1>2 DEF Reclaim
  <2>2. now[o] \in Nat
    BY <1>0
  <2>3. CASE row' = TryReclaim(row, now[o] + Lease, now[o] + TTL)
    <3>1. /\ row'.status = "processing" /\ row'.lockedUntil = now[o] + Lease
          /\ row'.expiresAt = now[o] + TTL
      BY <1>0, <2>3 DEF TryReclaim, Rows
    <3> QED
      BY <2>2, <3>1
  <2> QED
    BY <1>0, <2>1, <2>3
<1>3. ASSUME NEW o \in Operations, Renew(o) PROVE ExpiryInv' /\ UnlockedInv'
  <2>1. /\ row' = row \/ (/\ row.status = "processing"
                          /\ row' = ExtendProcessingLock(row, renewNow[o] + Lease, renewNow[o] + TTL))
        /\ clock' = clock
    BY <1>3 DEF Renew, Extendable
  <2>2. CASE row' = row
    BY <1>0, <2>1, <2>2
  <2>3. CASE /\ row.status = "processing"
             /\ row' = ExtendProcessingLock(row, renewNow[o] + Lease, renewNow[o] + TTL)
    <3>1. /\ row'.status = "processing" /\ row'.lockedUntil = renewNow[o] + Lease
          /\ row'.expiresAt = renewNow[o] + TTL
      BY <1>0, <2>3 DEF ExtendProcessingLock, Rows
    <3> QED
      BY <1>0, <3>1
  <2> QED
    BY <2>1, <2>2, <2>3
<1>4. ASSUME NEW o \in Operations, Mark(o) PROVE ExpiryInv' /\ UnlockedInv'
  <2>1. clock' = clock /\ now[o] <= clock /\ now[o] \in Nat
    BY <1>0, <1>4 DEF Mark
  <2>2. CASE row' = MarkSucceeded(row, recordId[o], o, now[o] + TTL)
    BY <1>0, <2>1, <2>2 DEF MarkSucceeded, Rows
  <2>3. CASE row' = MarkFailedRetryable(row, recordId[o], now[o], now[o] + TTL)
    BY <1>0, <2>1, <2>3 DEF MarkFailedRetryable, Rows
  <2>4. CASE row' = row
    BY <1>0, <2>1, <2>4
  <2> QED
    BY <1>4, <2>2, <2>3, <2>4 DEF Mark
<1>5. CASE CleanupOnce
  BY <1>0, <1>5 DEF CleanupOnce, DeleteExpired, NoRow
<1>6. CASE Tick
  BY <1>0, <1>f, <1>6 DEF Tick
<1>7. CASE UNCHANGED <<row, clock>>
  BY <1>0, <1>7
<1>8. ASSUME NEW o \in Operations,
             \/ Acquire(o) \/ GetExisting(o) \/ RenewTick(o) \/ RenewFails(o)
             \/ StopRenewing(o) \/ Release(o) \/ Crash(o)
      PROVE  UNCHANGED <<row, clock>>
  BY <1>8 DEF Acquire, GetExisting, RenewTick, RenewFails, StopRenewing, Release, Crash
<1> QED
  BY <1>1, <1>2, <1>3, <1>4, <1>5, <1>6, <1>7, <1>8 DEF Next, Step, vars

\* An operation that is granted the lock on the record it wrote is its only holder,
\* when nobody held the lock before.
LEMMA GrantHolds ==
    ASSUME TypeOK, NEW o \in Operations, NEW id \in Nat, Grant(o, id), UNCHANGED clock,
           Holders = {}, ~lapsed',
           Exists(row'), row'.id = id, row'.status = "processing", row'.lockedUntil = now[o] + Lease
    PROVE  \A p \in Holders' : HasTheRecord(p)' /\ OnlyHolder(p)'
<1> USE LeaseAssumption
<1>1. Holders' = {o} /\ leaseEnd'[o] = now[o] + Lease /\ recordId'[o] = id
  BY DEF TypeOK, Holders, Grant
<1>2. ~(clock >= now[o] + Lease)
  BY DEF Grant
<1>3. now[o] + Lease \in Nat /\ clock \in Nat
  BY DEF TypeOK
<1>4. clock' < now[o] + Lease
  BY <1>2, <1>3
<1> QED
  BY <1>1, <1>3, <1>4 DEF HasTheRecord, OnlyHolder

\* While a holder's lease runs, nobody inserts, reclaims or deletes its record; a late
\* renewal by an operation that already ended extends the lock, or counts as shortening it.
LEMMA HolderStep ==
    ASSUME IInv, [Next]_vars
    PROVE  HolderInv' /\ ExclusionInv'
<1> SUFFICES ASSUME ~lapsed', ~shortened'
             PROVE  \A p \in Holders' : HasTheRecord(p)' /\ OnlyHolder(p)'
  BY DEF HolderInv, ExclusionInv
<1> USE LeaseAssumption
<1>0. TypeOK /\ row \in Rows /\ row.id \in Nat /\ row.lockedUntil \in Nat /\ row.expiresAt \in Nat
  BY DEF IInv, TypeOK, Rows
<1>a. ~lapsed /\ ~shortened
  <2>1. lapsed => lapsed'
    <3>1. ASSUME NEW o \in Operations, Step(o) \/ Crash(o) PROVE lapsed => lapsed'
      BY <3>1 DEF Step, Acquire, Create, GetExisting, Reclaim, RenewTick, Renew, RenewFails,
                  StopRenewing, Release, Mark, Crash, Grant, Refuse, history
    <3>2. CleanupOnce \/ Tick \/ UNCHANGED vars => (lapsed => lapsed')
      BY DEF CleanupOnce, Tick, vars, history
    <3> QED  BY <3>1, <3>2 DEF Next
  <2>2. shortened => shortened'
    <3>1. ASSUME NEW o \in Operations, Step(o) \/ Crash(o) PROVE shortened => shortened'
      BY <3>1 DEF Step, Acquire, Create, GetExisting, Reclaim, RenewTick, Renew, RenewFails,
                  StopRenewing, Release, Mark, Crash, Grant, Refuse, history
    <3>2. CleanupOnce \/ Tick \/ UNCHANGED vars => (shortened => shortened')
      BY DEF CleanupOnce, Tick, vars, history
    <3> QED  BY <3>1, <3>2 DEF Next
  <2> QED  BY <2>1, <2>2
<1>b. \A p \in Holders : HasTheRecord(p) /\ OnlyHolder(p)
  BY <1>a DEF IInv, HolderInv, ExclusionInv
<1>c. /\ pc \in [Operations -> {"idle", "create", "get", "reclaim", "held", "release", "done"}]
      /\ now \in [Operations -> Nat] /\ leaseEnd \in [Operations -> Nat] /\ clock \in Nat
      /\ recordId \in [Operations -> Nat] /\ lastId \in Nat
      /\ renewNow \in [Operations -> Nat]
      /\ \A p \in Operations :
            /\ now[p] <= clock /\ leaseEnd[p] <= clock + Lease
            /\ renewal[p] = "extend" => leaseEnd[p] <= renewNow[p] + Lease
  BY DEF IInv, TypeOK, ClockInv
<1>1. ASSUME UNCHANGED <<row, clock, recordId, leaseEnd>>,
             Holders' \subseteq Holders
      PROVE  \A p \in Holders' : HasTheRecord(p)' /\ OnlyHolder(p)'
  BY <1>b, <1>1 DEF HasTheRecord, OnlyHolder
<1>2. ASSUME NEW o \in Operations,
             \/ Acquire(o) \/ GetExisting(o) \/ RenewTick(o) \/ RenewFails(o)
             \/ StopRenewing(o) \/ Release(o) \/ Crash(o)
      PROVE  \A p \in Holders' : HasTheRecord(p)' /\ OnlyHolder(p)'
  <2>1. UNCHANGED <<row, clock, recordId, leaseEnd>>
    BY <1>2 DEF Acquire, GetExisting, Refuse, RenewTick, RenewFails, StopRenewing, Release, Crash,
                history
  <2>2. Holders' \subseteq Holders
    BY <1>2, <1>c DEF Acquire, GetExisting, Refuse, RenewTick, RenewFails, StopRenewing, Release,
                      Crash, Holders
  <2> QED
    BY <2>1, <2>2, <1>1
<1>3. ASSUME NEW o \in Operations, Create(o)
      PROVE  \A p \in Holders' : HasTheRecord(p)' /\ OnlyHolder(p)'
  <2>1. CASE Exists(row)
    <3>1. UNCHANGED <<row, clock, recordId, leaseEnd>>
      BY <1>3, <2>1 DEF Create, CreateProcessing, history
    <3>2. Holders' \subseteq Holders
      BY <1>3, <2>1, <1>c DEF Create, Holders
    <3> QED
      BY <3>1, <3>2, <1>1
  <2>2. CASE ~Exists(row)
    <3>1. Holders = {}
      BY <2>2, <1>b DEF HasTheRecord
    <3>2. Grant(o, lastId + 1) /\ UNCHANGED clock
      BY <1>3, <2>2 DEF Create
    <3>3. Exists(row') /\ row'.id = lastId + 1 /\ row'.status = "processing"
          /\ row'.lockedUntil = now[o] + Lease
      BY <1>3, <2>2, <1>c DEF Create, CreateProcessing, Exists
    <3>4. lastId + 1 \in Nat
      BY <1>c
    <3> QED
      BY <3>1, <3>2, <3>3, <3>4, <1>0, GrantHolds
  <2> QED  BY <2>1, <2>2
<1>4. ASSUME NEW o \in Operations, Reclaim(o)
      PROVE  \A p \in Holders' : HasTheRecord(p)' /\ OnlyHolder(p)'
  <2>1. CASE Reclaimable(row, seen[o].id, seen[o].status, now[o])
    <3>1. Holders = {}
      <4>1. row.lockedUntil <= now[o] /\ now[o] <= clock /\ now[o] \in Nat
        BY <2>1, <1>c DEF Reclaimable
      <4>2. ASSUME NEW p \in Holders PROVE FALSE
        <5>1. leaseEnd[p] <= row.lockedUntil /\ clock < leaseEnd[p]
          BY <4>2, <1>b DEF HasTheRecord
        <5>2. leaseEnd[p] \in Nat
          BY <1>c DEF Holders
        <5> QED
          BY <5>1, <5>2, <4>1, <1>c, <1>0
      <4> QED  BY <4>2
    <3>2. Grant(o, seen[o].id) /\ UNCHANGED clock
      BY <1>4, <2>1 DEF Reclaim
    <3>3. row' = TryReclaim(row, now[o] + Lease, now[o] + TTL)
      BY <1>4, <2>1 DEF Reclaim
    <3>4. seen[o].id = row.id /\ Exists(row)
      BY <2>1 DEF Reclaimable
    <3>5. Exists(row') /\ row'.id = row.id /\ row'.status = "processing"
          /\ row'.lockedUntil = now[o] + Lease
      BY <3>3, <3>4, <1>0 DEF TryReclaim, Exists, Rows
    <3>6. Grant(o, row.id)
      BY <3>2, <3>4
    <3> QED
      BY <3>1, <3>2, <3>5, <3>6, <1>0, GrantHolds
  <2>2. CASE ~Reclaimable(row, seen[o].id, seen[o].status, now[o])
    <3>1. UNCHANGED <<row, clock, recordId, leaseEnd>>
      BY <1>4, <2>2 DEF Reclaim, Refuse, history
    <3>2. Holders' \subseteq Holders
      BY <1>4, <2>2, <1>c DEF Reclaim, Refuse, Holders
    <3> QED
      BY <3>1, <3>2, <1>1
  <2> QED  BY <2>1, <2>2
<1>5. ASSUME NEW o \in Operations, Renew(o)
      PROVE  \A p \in Holders' : HasTheRecord(p)' /\ OnlyHolder(p)'
  <2>1. Holders' = Holders /\ UNCHANGED <<clock, recordId>>
    BY <1>5 DEF Renew, Holders
  <2>2. CASE Extendable(row, recordId[o], OperationId[o])
    <3>1. /\ row' = ExtendProcessingLock(row, renewNow[o] + Lease, renewNow[o] + TTL)
          /\ leaseEnd' = [leaseEnd EXCEPT ![o] = renewNow[o] + Lease]
          /\ renewal[o] = "extend"
          /\ \A p \in Holders \ {o} : ~(renewNow[o] + Lease < leaseEnd[p])
      BY <1>5, <2>2 DEF Renew
    <3>2. row'.id = row.id /\ row'.status = row.status /\ row'.lockedUntil = renewNow[o] + Lease
      BY <3>1, <1>0 DEF ExtendProcessingLock, Rows
    <3>3. ASSUME NEW p \in Holders PROVE HasTheRecord(p)'
      <4>1. p \in Operations
        BY DEF Holders
      <4>2. HasTheRecord(p)
        BY <1>b
      <4>3. leaseEnd'[p] <= renewNow[o] + Lease /\ clock < leaseEnd'[p]
        BY <4>1, <4>2, <3>1, <1>c DEF HasTheRecord
      <4> QED
        BY <4>2, <4>3, <3>2, <2>1 DEF HasTheRecord, Exists
    <3> QED
      BY <3>3, <2>1, <1>b DEF OnlyHolder
  <2>3. CASE ~Extendable(row, recordId[o], OperationId[o])
    <3>1. UNCHANGED <<row, leaseEnd>>
      BY <1>5, <2>3 DEF Renew
    <3> QED
      BY <2>1, <3>1, <1>1
  <2> QED  BY <2>2, <2>3
<1>6. ASSUME NEW o \in Operations, Mark(o)
      PROVE  \A p \in Holders' : HasTheRecord(p)' /\ OnlyHolder(p)'
  <2>1. o \in Holders /\ Holders' = Holders \ {o}
    BY <1>6, <1>c DEF Mark, Holders
  <2> QED
    BY <2>1, <1>b DEF OnlyHolder
<1>7. CASE CleanupOnce
  <2>1. row.expiresAt <= clock
    BY <1>7 DEF CleanupOnce, DeleteExpired
  <2>2. ASSUME NEW p \in Holders PROVE FALSE
    <3>1. row.status = "processing" /\ leaseEnd[p] <= row.lockedUntil /\ clock < leaseEnd[p]
      BY <1>b DEF HasTheRecord
    <3>2. row.lockedUntil <= row.expiresAt
      BY <3>1 DEF IInv, ExpiryInv
    <3>3. leaseEnd[p] \in Nat
      BY <1>c DEF Holders
    <3> QED
      BY <2>1, <3>1, <3>2, <3>3, <1>0, <1>c
  <2>3. Holders' = Holders
    BY <1>7 DEF CleanupOnce, Holders
  <2> QED
    BY <2>2, <2>3
<1>8. CASE Tick
  <2>1. Holders' = Holders /\ UNCHANGED <<row, recordId, leaseEnd>>
    BY <1>8 DEF Tick, Holders, loop
  <2>2. \A p \in Holders : ~(clock' >= leaseEnd[p])
    BY <1>8 DEF Tick
  <2>3. clock' \in Nat /\ \A p \in Holders : leaseEnd[p] \in Nat
    BY <1>8, <1>c DEF Tick, Holders
  <2>4. \A p \in Holders : clock' < leaseEnd[p]
    BY <2>2, <2>3
  <2> QED
    BY <2>1, <2>4, <1>b DEF HasTheRecord, OnlyHolder
<1>9. CASE UNCHANGED vars
  BY <1>9, <1>b DEF vars, HasTheRecord, OnlyHolder, Holders, history
<1> QED
  BY <1>2, <1>3, <1>4, <1>5, <1>6, <1>7, <1>8, <1>9 DEF Next, Step

\* The invariant is inductive.
LEMMA StepInv == IInv /\ [Next]_vars => IInv'
BY TypeStep, ClockStep, RowStep, HolderStep DEF IInv

\* So it holds in every reachable state.
LEMMA Invariance == Spec => []IInv
BY InitInv, StepInv, PTL DEF Spec

\* Every reachable state has its types, and an operation that holds the lock knows the id
\* of a record the database has given out.
THEOREM TypeCorrect == Spec => []TypeOK
<1>1. IInv => TypeOK
  BY DEF IInv
<1> QED
  BY <1>1, Invariance, PTL

\* However many operations race for the insert, the reclaim, the renewal and the release
\* of the lock, crash or end late: as long as no operation kept the lock past the lease it
\* last wrote and no late renewal shortened the lock of the next one, at most one holds it.
THEOREM Exclusive == Spec => []ExclusiveUntilLapse
<1>1. IInv => ExclusiveUntilLapse
  <2> SUFFICES ASSUME IInv, ~lapsed, ~shortened PROVE Cardinality(Holders) <= 1
    BY DEF ExclusiveUntilLapse
  <2>1. CASE Holders = {}
    BY <2>1, FS_EmptySet
  <2>2. CASE Holders # {}
    <3>1. PICK o \in Holders : TRUE
      BY <2>2
    <3>2. Holders = {o}
      <4>1. \A p \in Holders : OnlyHolder(p)
        BY DEF IInv, ExclusionInv
      <4> QED
        BY <3>1, <4>1 DEF OnlyHolder
    <3>3. Cardinality(Holders) = 1
      BY <3>2, FS_Singleton, Zenon
    <3> QED
      BY <3>3
  <2> QED  BY <2>1, <2>2
<1> QED
  BY <1>1, Invariance, PTL

\* A record that was released, or whose lock has lapsed, never keeps the next operation
\* out: when Acquire finds it not locked, the reclaim matches it, whatever a late renewal
\* loop still does.
THEOREM Acquirable == Spec => []ReleasedIsAcquirable
<1>1. IInv => ReleasedIsAcquirable
  <2> SUFFICES ASSUME IInv, Exists(row), ~Locked(row, clock)
               PROVE  row.lockedUntil <= clock
    BY DEF ReleasedIsAcquirable, Reclaimable
  <2>1. row.lockedUntil \in Nat /\ clock \in Nat
    BY DEF IInv, TypeOK, Rows
  <2> QED
    BY <2>1 DEF IInv, UnlockedInv, Locked
<1> QED
  BY <1>1, Invariance, PTL
=============================================================================
