----------------------------- MODULE BatchImage -----------------------------
(***************************************************************************)
(* One batch image job: Submit, Cancel, the recovery of submissions that   *)
(* never reached the provider, the Redis queue with its per-job lock, the  *)
(* workers that poll the provider, index the results and settle the cost,  *)
(* and the ledger (balance, frozen balance and the claimed request ids).   *)
(* Every step is one database transaction, one Redis script or one call of *)
(* the provider; between two steps any other process may run.              *)
(***************************************************************************)
EXTENDS Integers

CONSTANTS Workers,       \* worker loops, one per instance of the program
          Cancellers,    \* concurrent Cancel requests of the owner
          None,          \* nobody holds the job lock
          Hold,          \* the job's hold amount, positive
          Balances,      \* possible balances of the owner before the job
          OtherHolds,    \* possible sums frozen for the owner's other jobs
          Costs,         \* possible costs of the images the provider returns
          MaxRetries,    \* batchImageSettlementMaxRetries
          MaxFaults,     \* bound: failing calls, dying processes and lapsed TTLs
          MaxReady       \* bound: copies of the job in the ready list

ASSUME BatchAssumption ==
    /\ None \notin Workers
    /\ Hold \in Nat \ {0}
    /\ Balances \subseteq Nat /\ OtherHolds \subseteq Nat /\ Costs \subseteq Nat
    /\ MaxRetries \in Nat \ {0}
    /\ MaxFaults \in Nat /\ MaxReady \in Nat

VARIABLES job,        \* the row of batch_image_jobs
          ledger,     \* users.balance, frozen_balance, claimed request ids
          queue,      \* ready list, active and delayed sets, inflight key
          lock,       \* the value of the job's lock key
          upstream,   \* the provider's batch job whose name Submit was told
          submit,     \* where the Submit request is
          cancel,     \* where each Cancel request is
          recovery,   \* where ReleaseStaleUnsubmittedOnce is
          worker,     \* where each worker is, and what it read
          faults      \* faults so far: their number, and two kinds to remember

vars == <<job, ledger, queue, lock, upstream, submit, cancel, recovery, worker, faults>>

Terminal == {"completed", "failed", "cancelled", "output_deleted"}
Done == Terminal \cup {"settling"}
Unsubmitted == {"created", "uploading"}
Statuses == Terminal \cup Unsubmitted \cup {"none", "submitted", "running", "indexing", "settling"}

WorkerIdle == {"idle", "lock", "conflict"}
WorkerBusy == {"read", "process", "poll", "apply", "index", "indexFailed", "indexed",
               "settle", "capture", "mark", "recordFailure", "exhausted", "failExhausted",
               "reread", "release", "requeue", "ack", "unlock"}
SubmitSteps == {"idle", "reserve", "items", "upload", "provider", "update", "abort", "enqueue",
                "release", "releaseOnly", "fail", "releaseFailed", "retry", "done", "orphaned", "dead"}
SubmitEnded == {"idle", "done", "orphaned", "dead"}
CancelSteps == {"idle", "transition", "upstream", "enqueue", "release", "retry"}

\* A worker at step pc that remembers nothing of the job.
At(pc) == [pc |-> pc, seen |-> "none", got |-> "none"]

Init ==
    /\ job = [status |-> "none", provider |-> FALSE, stale |-> FALSE, retries |-> 0, cost |-> 0]
    /\ \E b \in Balances, f \in OtherHolds :
          ledger = [balance |-> b, frozen |-> f, claims |-> {}, moved |-> {}]
    /\ queue = [ready |-> 0, active |-> FALSE, delayed |-> FALSE, inflight |-> FALSE]
    /\ lock = None
    /\ upstream = [state |-> "none", cost |-> 0]
    /\ submit = "idle"
    /\ cancel = [c \in Cancellers |-> "idle"]
    /\ recovery = "idle"
    /\ worker = [w \in Workers |-> At("idle")]
    /\ faults = [count |-> 0, lapsed |-> FALSE, stranded |-> FALSE]

-----------------------------------------------------------------------------
(* The database: job status, ledger.                                       *)

CanTransitionBatchImageJob(from, to) ==
    IF from \in Terminal
    THEN to = "output_deleted" /\ from # "output_deleted"
    ELSE from # "none" /\
         (\/ to = "failed"
          \/ from = "created" /\ to \in {"uploading", "submitted", "cancelled"}
          \/ from = "uploading" /\ to \in {"submitted", "cancelled"}
          \/ from \in {"submitted", "running"} /\ to \in {"running", "indexing", "cancelled"}
          \/ from = "indexing" /\ to = "settling"
          \/ from = "settling" /\ to = "completed")

\* The row with a new status; every write of the row renews updated_at.
WithStatus(status) == [job EXCEPT !.status = status, !.stale = FALSE]

TransitionBatchImageJobStatus(to) ==
    CanTransitionBatchImageJob(job.status, to) /\ job' = WithStatus(to)

\* One more fault; `stranding` is one after which nobody is left to look at the job,
\* `lapsing` one that outlives the TTL of a live worker's lock or active entry.
Fault(stranding, lapsing) ==
    /\ faults.count < MaxFaults
    /\ faults' = [count |-> faults.count + 1, stranded |-> faults.stranded \/ stranding,
                  lapsed |-> faults.lapsed \/ lapsing]

\* A call fails for a reason of its own (connection, timeout, upstream).
CallFails == Fault(FALSE, FALSE)
EnqueueFails == Fault(TRUE, FALSE)
Lapse == Fault(FALSE, TRUE)
Dies(stranding) == Fault(stranding, FALSE)

\* The request id is claimed and the money moves in one transaction.
Apply(id, effect, back, freeze) ==
    ledger' = [balance |-> ledger.balance + back, frozen |-> ledger.frozen + freeze,
               claims |-> ledger.claims \cup {id}, moved |-> ledger.moved \cup {effect}]

\* Mutant: the UPDATE of the reservation loses AND balance >= $1.
ReserveUnconditionally ==
    IF "hold" \in ledger.claims THEN UNCHANGED ledger ELSE Apply("hold", "reserved", -Hold, Hold)

ReserveBatchImageBalance ==
    IF "hold" \in ledger.claims
    THEN UNCHANGED ledger
    ELSE ledger.balance >= Hold /\ Apply("hold", "reserved", -Hold, Hold)

\* Mutant: the capture does not look for its claimed request id.
CaptureAgain == ledger.frozen >= Hold /\ Apply("capture", "captured", Hold - job.cost, -Hold)

CaptureBatchImageBalance ==
    IF "capture" \in ledger.claims
    THEN UNCHANGED ledger
    ELSE ledger.frozen >= Hold /\ Apply("capture", "captured", Hold - job.cost, -Hold)

CaptureInsufficient == "capture" \notin ledger.claims /\ ledger.frozen < Hold

\* A release before the hold exists moves nothing, but its id is claimed.
ReleaseBatchImageBalance ==
    IF "release" \in ledger.claims
    THEN UNCHANGED ledger
    ELSE IF "hold" \notin ledger.claims
    THEN ledger' = [ledger EXCEPT !.claims = @ \cup {"release"}]
    ELSE ledger.frozen >= Hold /\ Apply("release", "released", Hold, -Hold)

ReleaseInsufficient ==
    "release" \notin ledger.claims /\ "hold" \in ledger.claims /\ ledger.frozen < Hold

ReleaseFails ==
    /\ \/ ReleaseInsufficient /\ UNCHANGED faults
       \/ CallFails
    /\ UNCHANGED ledger

-----------------------------------------------------------------------------
(* The queue in Redis.                                                     *)

Enqueue ==
    IF queue.inflight
    THEN UNCHANGED queue
    ELSE /\ queue.ready < MaxReady
         /\ queue' = [queue EXCEPT !.inflight = TRUE, !.ready = @ + 1]

MoveDueDelayedToReady ==
    /\ queue.delayed /\ queue.ready < MaxReady
    /\ queue' = [queue EXCEPT !.delayed = FALSE, !.ready = @ + 1]
    /\ UNCHANGED <<job, ledger, lock, upstream, submit, cancel, recovery, worker, faults>>

\* While a worker is busy its heartbeat keeps the active entry and the lock fresh.
RecoverStaleActive ==
    /\ queue.active /\ queue.ready < MaxReady
    /\ IF \A w \in Workers : worker[w].pc = "idle" THEN UNCHANGED faults ELSE Lapse
    /\ queue' = [queue EXCEPT !.active = FALSE, !.ready = @ + 1]
    /\ UNCHANGED <<job, ledger, lock, upstream, submit, cancel, recovery, worker>>

LockExpires ==
    /\ lock # None
    /\ IF worker[lock].pc \in WorkerBusy THEN Lapse ELSE UNCHANGED faults
    /\ lock' = None
    /\ UNCHANGED <<job, ledger, queue, upstream, submit, cancel, recovery, worker>>

-----------------------------------------------------------------------------
(* Submit, one request; its idempotent repetition; the heartbeat.          *)

SubmitTo(pc) == submit' = pc

CreateBatchImageJob ==
    /\ submit = "idle"
    /\ job' = WithStatus("created")
    /\ SubmitTo("reserve")
    /\ UNCHANGED <<ledger, queue, lock, upstream, cancel, recovery, worker, faults>>

\* An insufficient balance or a failing transaction ends the request.
SubmitReserve ==
    /\ submit = "reserve"
    /\ \/ ReserveBatchImageBalance /\ SubmitTo("items") /\ UNCHANGED faults
       \/ "hold" \notin ledger.claims /\ ledger.balance < Hold /\ SubmitTo("fail")
          /\ UNCHANGED <<ledger, faults>>
       \/ CallFails /\ SubmitTo("fail") /\ UNCHANGED ledger
    /\ UNCHANGED <<job, queue, lock, upstream, cancel, recovery, worker>>

SubmitItems ==
    /\ submit = "items"
    /\ \/ SubmitTo("upload") /\ UNCHANGED faults
       \/ CallFails /\ SubmitTo("release")
    /\ UNCHANGED <<job, ledger, queue, lock, upstream, cancel, recovery, worker>>

SubmitUpload ==
    /\ submit = "upload"
    /\ \/ TransitionBatchImageJobStatus("uploading") /\ SubmitTo("provider") /\ UNCHANGED faults
       \/ /\ ~CanTransitionBatchImageJob(job.status, "uploading")
          /\ SubmitTo("releaseOnly")
          /\ UNCHANGED <<job, faults>>
       \/ CallFails /\ SubmitTo("release") /\ UNCHANGED job
    /\ UNCHANGED <<ledger, queue, lock, upstream, cancel, recovery, worker>>

\* provider.Submit, during which runSubmitHeartbeat renews updated_at.
SubmitProvider ==
    /\ submit = "provider"
    /\ \/ /\ upstream' = [upstream EXCEPT !.state = "running"]
          /\ SubmitTo("update")
          /\ UNCHANGED faults
       \/ CallFails /\ SubmitTo("release") /\ UNCHANGED upstream
    /\ UNCHANGED <<job, ledger, queue, lock, cancel, recovery, worker>>

TouchBatchImageJobSubmitting ==
    /\ submit = "provider" /\ job.status \in Unsubmitted /\ job.stale
    /\ job' = [job EXCEPT !.stale = FALSE]
    /\ UNCHANGED <<ledger, queue, lock, upstream, submit, cancel, recovery, worker, faults>>

\* Mutant: a submission that finds its job gone returns without aborting it upstream.
UpdateWithoutAbort ==
    /\ submit = "update"
    /\ IF CanTransitionBatchImageJob(job.status, "submitted")
       THEN job' = [WithStatus("submitted") EXCEPT !.provider = TRUE] /\ SubmitTo("enqueue")
       ELSE UNCHANGED job /\ SubmitTo("done")
    /\ UNCHANGED <<ledger, queue, lock, upstream, cancel, recovery, worker, faults>>

UpdateBatchImageJobProviderSubmit ==
    /\ submit = "update"
    /\ \/ /\ CanTransitionBatchImageJob(job.status, "submitted")
          /\ job' = [WithStatus("submitted") EXCEPT !.provider = TRUE]
          /\ SubmitTo("enqueue")
          /\ UNCHANGED faults
       \/ /\ ~CanTransitionBatchImageJob(job.status, "submitted")
          /\ SubmitTo("abort")
          /\ UNCHANGED <<job, faults>>
       \/ CallFails /\ SubmitTo("abort") /\ UNCHANGED job
    /\ UNCHANGED <<ledger, queue, lock, upstream, cancel, recovery, worker>>

\* provider.Cancel of a job that is running upstream.
ProviderCancel ==
    upstream' = IF upstream.state = "running" THEN [upstream EXCEPT !.state = "cancelled"]
                                              ELSE upstream

\* abortOrphanProviderJob tries once.
AbortOrphanProviderJob ==
    /\ submit = "abort"
    /\ \/ ProviderCancel /\ SubmitTo("done") /\ UNCHANGED faults
       \/ CallFails /\ SubmitTo("orphaned") /\ UNCHANGED upstream
    /\ UNCHANGED <<job, ledger, queue, lock, cancel, recovery, worker>>

SubmitEnqueue ==
    /\ submit = "enqueue"
    /\ SubmitTo("done")
    /\ \/ Enqueue /\ UNCHANGED faults
       \/ EnqueueFails /\ UNCHANGED queue
    /\ UNCHANGED <<job, ledger, lock, upstream, cancel, recovery, worker>>

\* releaseFailedSubmitHold; "releaseOnly" leaves the status to whoever set it.
SubmitRelease ==
    /\ submit \in {"release", "releaseOnly"}
    /\ \/ /\ ReleaseBatchImageBalance
          /\ SubmitTo(IF submit = "release" THEN "fail" ELSE "done")
          /\ UNCHANGED faults
       \/ ReleaseFails /\ SubmitTo("releaseFailed")
    /\ UNCHANGED <<job, queue, lock, upstream, cancel, recovery, worker>>

\* RecordBatchImageJobSubmitFailure overwrites any status.
RecordBatchImageJobSubmitFailure ==
    /\ submit \in {"fail", "releaseFailed"}
    /\ SubmitTo(IF submit = "fail" THEN "done" ELSE "retry")
    /\ \/ job' = WithStatus("failed") /\ UNCHANGED faults
       \/ CallFails /\ UNCHANGED job
    /\ UNCHANGED <<ledger, queue, lock, upstream, cancel, recovery, worker>>

SubmitEnqueueBillingRetry ==
    /\ submit = "retry"
    /\ SubmitTo("done")
    /\ \/ Enqueue /\ UNCHANGED faults
       \/ EnqueueFails /\ UNCHANGED queue
    /\ UNCHANGED <<job, ledger, lock, upstream, cancel, recovery, worker>>

\* The same request again, with the same idempotency key.
Resubmit ==
    /\ submit = "done" /\ job.status = "submitted"
    /\ ~queue.inflight
    /\ Enqueue
    /\ UNCHANGED <<job, ledger, lock, upstream, submit, cancel, recovery, worker, faults>>

\* The job has not been written for longer than StaleActiveAfter.
GrowStale ==
    /\ job.status \in Unsubmitted /\ ~job.stale
    /\ job' = [job EXCEPT !.stale = TRUE]
    /\ UNCHANGED <<ledger, queue, lock, upstream, submit, cancel, recovery, worker, faults>>

-----------------------------------------------------------------------------
(* ReleaseStaleUnsubmittedOnce.                                            *)

FailStaleUnsubmittedBatchImageJob ==
    /\ recovery = "idle"
    /\ job.status \in Unsubmitted /\ ~job.provider /\ job.stale
    /\ job' = WithStatus("failed")
    /\ recovery' = "release"
    /\ UNCHANGED <<ledger, queue, lock, upstream, submit, cancel, worker, faults>>

RecoveryRelease ==
    /\ recovery = "release"
    /\ \/ ReleaseBatchImageBalance /\ recovery' = "idle" /\ UNCHANGED faults
       \/ ReleaseFails /\ recovery' = "retry"
    /\ UNCHANGED <<job, queue, lock, upstream, submit, cancel, worker>>

EnqueueReleaseRetry ==
    /\ recovery = "retry"
    /\ recovery' = "idle"
    /\ \/ Enqueue /\ UNCHANGED faults
       \/ EnqueueFails /\ UNCHANGED queue
    /\ UNCHANGED <<job, ledger, lock, upstream, submit, cancel, worker>>

-----------------------------------------------------------------------------
(* Cancel.                                                                 *)

CancelTo(c, pc) == cancel' = [cancel EXCEPT ![c] = pc]

\* What Cancel does depends on the row it reads first.
CancelRead(c) ==
    /\ cancel[c] = "idle" /\ job.status \notin {"none", "settling", "completed", "output_deleted"}
    /\ CancelTo(c, CASE job.status \in {"failed", "cancelled"} -> "release"
                     [] job.status \notin Done /\ job.provider -> "upstream"
                     [] OTHER -> "transition")
    /\ UNCHANGED <<job, ledger, queue, lock, upstream, submit, recovery, worker, faults>>

CancelUpstream(c) ==
    /\ cancel[c] = "upstream"
    /\ \/ ProviderCancel /\ CancelTo(c, "enqueue") /\ UNCHANGED faults
       \/ CallFails /\ CancelTo(c, "idle") /\ UNCHANGED upstream
    /\ UNCHANGED <<job, ledger, queue, lock, submit, recovery, worker>>

CancelTransition(c) ==
    /\ cancel[c] = "transition"
    /\ \/ TransitionBatchImageJobStatus("cancelled") /\ CancelTo(c, "release") /\ UNCHANGED faults
       \/ /\ ~CanTransitionBatchImageJob(job.status, "cancelled")
          /\ CancelTo(c, "idle")
          /\ UNCHANGED <<job, faults>>
       \/ CallFails /\ CancelTo(c, "idle") /\ UNCHANGED job
    /\ UNCHANGED <<ledger, queue, lock, upstream, submit, recovery, worker>>

CancelRelease(c) ==
    /\ cancel[c] = "release"
    /\ \/ ReleaseBatchImageBalance /\ CancelTo(c, "idle") /\ UNCHANGED faults
       \/ ReleaseFails /\ CancelTo(c, "retry")
    /\ UNCHANGED <<job, queue, lock, upstream, submit, recovery, worker>>

\* enqueueBillingRetry after a failed release; the queue after a provider cancel.
CancelEnqueue(c) ==
    /\ cancel[c] \in {"retry", "enqueue"}
    /\ CancelTo(c, "idle")
    /\ \/ Enqueue /\ UNCHANGED faults
       \/ UNCHANGED queue /\ IF cancel[c] = "retry" THEN EnqueueFails ELSE CallFails
    /\ UNCHANGED <<job, ledger, lock, upstream, submit, recovery, worker>>

-----------------------------------------------------------------------------
(* A worker: RunOnce, and in it Process and Settle.                        *)

Goto(w, pc) == worker' = [worker EXCEPT ![w] = At(pc)]

\* Any error of Process is answered with RequeueAfter.
ProcessFails(w) == CallFails /\ Goto(w, "requeue")

QueueReserve(w) ==
    /\ worker[w].pc = "idle" /\ queue.ready > 0
    /\ queue' = [queue EXCEPT !.ready = @ - 1, !.active = TRUE]
    /\ Goto(w, "lock")
    /\ UNCHANGED <<job, ledger, lock, upstream, submit, cancel, recovery, faults>>

TryAcquireJobLock(w) ==
    /\ worker[w].pc = "lock"
    /\ \/ lock = None /\ lock' = w /\ Goto(w, "read") /\ UNCHANGED faults
       \/ lock # None /\ Goto(w, "conflict") /\ UNCHANGED <<lock, faults>>
       \/ CallFails /\ Goto(w, "conflict") /\ UNCHANGED lock
    /\ UNCHANGED <<job, ledger, queue, upstream, submit, cancel, recovery>>

\* The pipeline reads the row to choose between settlement and provider.
PipelineProcess(w) ==
    /\ worker[w].pc = "read"
    /\ \/ Goto(w, IF job.status = "settling" THEN "settle" ELSE "process") /\ UNCHANGED faults
       \/ ProcessFails(w)
    /\ UNCHANGED <<job, ledger, queue, lock, upstream, submit, cancel, recovery>>

\* The provider processor reads the row again.
ProviderProcess(w) ==
    /\ worker[w].pc = "process"
    /\ \/ /\ UNCHANGED faults
          /\ \/ job.status \in {"failed", "cancelled"} /\ Goto(w, "release")
             \/ job.status \in Done \ {"failed", "cancelled"} /\ Goto(w, "ack")
             \/ job.status \notin Done /\ ~job.provider /\ Goto(w, "requeue")
             \/ job.status = "indexing" /\ Goto(w, "index")
             \/ /\ job.status \in {"submitted", "running"}
                /\ worker' = [worker EXCEPT ![w].pc = "poll", ![w].seen = job.status]
       \/ ProcessFails(w)
    /\ UNCHANGED <<job, ledger, queue, lock, upstream, submit, cancel, recovery>>

ProviderGet(w) ==
    /\ worker[w].pc = "poll"
    /\ \/ worker' = [worker EXCEPT ![w].got = upstream.state, ![w].pc = "apply"] /\ UNCHANGED faults
       \/ ProcessFails(w)
    /\ UNCHANGED <<job, ledger, queue, lock, upstream, submit, cancel, recovery>>

\* The job status and the next step for a state of the provider's job.
StatusFor(state) == CASE state = "running" -> "running"
                      [] state = "succeeded" -> "indexing"
                      [] OTHER -> state
StepFor(state) == CASE state = "running" -> "requeue"
                    [] state = "succeeded" -> "index"
                    [] OTHER -> "release"

\* The switch on the provider's state; an invalid transition is an error.
ApplyProviderState(w) ==
    LET got == worker[w].got IN
    /\ worker[w].pc = "apply"
    /\ \/ got = "running" /\ worker[w].seen = "running" /\ Goto(w, "requeue")
          /\ UNCHANGED <<job, faults>>
       \/ /\ ~(got = "running" /\ worker[w].seen = "running")
          /\ TransitionBatchImageJobStatus(StatusFor(got))
          /\ Goto(w, StepFor(got))
          /\ UNCHANGED faults
       \/ /\ ~(got = "running" /\ worker[w].seen = "running")
          /\ ~CanTransitionBatchImageJob(job.status, StatusFor(got))
          /\ Goto(w, "requeue")
          /\ UNCHANGED <<job, faults>>
       \/ ProcessFails(w) /\ UNCHANGED job
    /\ UNCHANGED <<ledger, queue, lock, upstream, submit, cancel, recovery>>

\* Index: missing output and a moved-on job are retried, any other error fails the job.
Index(w) ==
    /\ worker[w].pc = "index"
    /\ \/ /\ job.status = "indexing"
          /\ job' = [job EXCEPT !.cost = upstream.cost]
          /\ Goto(w, "indexed")
          /\ UNCHANGED faults
       \/ job.status # "indexing" /\ Goto(w, "requeue") /\ UNCHANGED <<job, faults>>
       \/ CallFails /\ UNCHANGED job /\ \E pc \in {"requeue", "indexFailed"} : Goto(w, pc)
    /\ UNCHANGED <<ledger, queue, lock, upstream, submit, cancel, recovery>>

\* The transition after indexing: to settling, or to failed with the hold released.
Indexed(w) ==
    /\ worker[w].pc \in {"indexed", "indexFailed"}
    /\ LET to == IF worker[w].pc = "indexed" THEN "settling" ELSE "failed" IN
       \/ /\ TransitionBatchImageJobStatus(to)
          /\ Goto(w, IF to = "failed" THEN "release" ELSE "requeue")
          /\ UNCHANGED faults
       \/ ~CanTransitionBatchImageJob(job.status, to) /\ Goto(w, "requeue") /\ UNCHANGED <<job, faults>>
       \/ ProcessFails(w) /\ UNCHANGED job
    /\ UNCHANGED <<ledger, queue, lock, upstream, submit, cancel, recovery>>

\* Mutant: the error of the release is not returned to the worker.
ReleaseIgnoringErrors(w) ==
    /\ worker[w].pc = "release"
    /\ Goto(w, "ack")
    /\ (ReleaseBatchImageBalance /\ UNCHANGED faults) \/ ReleaseFails
    /\ UNCHANGED <<job, queue, lock, upstream, submit, cancel, recovery>>

ReleaseTerminalHold(w) ==
    /\ worker[w].pc = "release"
    /\ \/ ReleaseBatchImageBalance /\ Goto(w, "ack") /\ UNCHANGED faults
       \/ ReleaseFails /\ Goto(w, "requeue")
    /\ UNCHANGED <<job, queue, lock, upstream, submit, cancel, recovery>>

\* Settle reads the row a second time; the retry limit is looked at first.
Settle(w) ==
    /\ worker[w].pc = "settle"
    /\ \/ /\ UNCHANGED faults
          /\ Goto(w, CASE job.status = "completed" -> "ack"
                       [] job.status \notin {"completed", "settling"} -> "requeue"
                       [] job.status = "settling" /\ job.retries >= MaxRetries -> "exhausted"
                       [] job.status = "settling" /\ job.retries < MaxRetries /\ job.cost > Hold
                            -> "recordFailure"
                       [] OTHER -> "capture")
       \/ ProcessFails(w)
    /\ UNCHANGED <<job, ledger, queue, lock, upstream, submit, cancel, recovery>>

\* Mutant: the error of the capture is not looked at.
CaptureIgnoringErrors(w) ==
    /\ worker[w].pc = "capture"
    /\ Goto(w, "mark")
    /\ \/ CaptureBatchImageBalance /\ UNCHANGED faults
       \/ CallFails /\ UNCHANGED ledger
    /\ UNCHANGED <<job, queue, lock, upstream, submit, cancel, recovery>>

CaptureHold(w) ==
    /\ worker[w].pc = "capture"
    /\ \/ CaptureBatchImageBalance /\ Goto(w, "mark") /\ UNCHANGED faults
       \/ CaptureInsufficient /\ Goto(w, "recordFailure") /\ UNCHANGED <<ledger, faults>>
       \/ CallFails /\ Goto(w, "recordFailure") /\ UNCHANGED ledger
    /\ UNCHANGED <<job, queue, lock, upstream, submit, cancel, recovery>>

\* Mutant: a settled mark that fails ends the settlement like an exhausted retry.
MarkOrGiveUp(w) ==
    /\ worker[w].pc = "mark"
    /\ \/ job.status = "settling" /\ job' = WithStatus("completed") /\ Goto(w, "ack") /\ UNCHANGED faults
       \/ CallFails /\ Goto(w, "exhausted") /\ UNCHANGED job
    /\ UNCHANGED <<ledger, queue, lock, upstream, submit, cancel, recovery>>

MarkBatchImageJobSettled(w) ==
    /\ worker[w].pc = "mark"
    /\ \/ job.status = "settling" /\ job' = WithStatus("completed") /\ Goto(w, "ack") /\ UNCHANGED faults
       \/ job.status # "settling" /\ Goto(w, "requeue") /\ UNCHANGED <<job, faults>>
       \/ ProcessFails(w) /\ UNCHANGED job
    /\ UNCHANGED <<ledger, queue, lock, upstream, submit, cancel, recovery>>

\* Mutant: retry_count = retry_count, the failure is recorded but not counted.
UncountedRetry == job

CountedRetry == [job EXCEPT !.retries = IF @ < MaxRetries THEN @ + 1 ELSE @]

\* recordSettlementFailure: the last retry goes straight to failExhaustedSettlement.
RecordSettlementFailure(w) ==
    /\ worker[w].pc = "recordFailure"
    /\ \/ /\ job' = CountedRetry
          /\ Goto(w, IF job'.retries >= MaxRetries THEN "exhausted" ELSE "reread")
          /\ UNCHANGED faults
       \/ CallFails /\ Goto(w, "reread") /\ UNCHANGED job
    /\ UNCHANGED <<ledger, queue, lock, upstream, submit, cancel, recovery>>

\* failExhaustedSettlement releases first and fails the job afterwards.
ReleaseExhausted(w) ==
    /\ worker[w].pc = "exhausted"
    /\ \/ ReleaseBatchImageBalance /\ Goto(w, "failExhausted") /\ UNCHANGED <<job, faults>>
       \/ ReleaseFails /\ job' = CountedRetry /\ Goto(w, "reread")
    /\ UNCHANGED <<queue, lock, upstream, submit, cancel, recovery>>

FailExhausted(w) ==
    /\ worker[w].pc = "failExhausted"
    /\ \/ TransitionBatchImageJobStatus("failed") /\ Goto(w, "reread") /\ UNCHANGED faults
       \/ ~CanTransitionBatchImageJob(job.status, "failed") /\ Goto(w, "requeue") /\ UNCHANGED <<job, faults>>
       \/ ProcessFails(w) /\ UNCHANGED job
    /\ UNCHANGED <<ledger, queue, lock, upstream, submit, cancel, recovery>>

\* After a failed settlement the pipeline drops a job that has become terminal.
Reread(w) ==
    /\ worker[w].pc = "reread"
    /\ \/ Goto(w, IF job.status \in Terminal THEN "ack" ELSE "requeue") /\ UNCHANGED faults
       \/ ProcessFails(w)
    /\ UNCHANGED <<job, ledger, queue, lock, upstream, submit, cancel, recovery>>

\* Without the lock the worker goes on to the next reservation at once.
RequeueAfter(w) ==
    /\ worker[w].pc \in {"requeue", "conflict"}
    /\ Goto(w, IF worker[w].pc = "requeue" THEN "unlock" ELSE "idle")
    /\ \/ queue' = [queue EXCEPT !.active = FALSE, !.delayed = TRUE] /\ UNCHANGED faults
       \/ CallFails /\ UNCHANGED queue
    /\ UNCHANGED <<job, ledger, lock, upstream, submit, cancel, recovery>>

Ack(w) ==
    /\ worker[w].pc = "ack"
    /\ Goto(w, "unlock")
    /\ \/ /\ queue' = [queue EXCEPT !.active = FALSE, !.delayed = FALSE, !.inflight = FALSE]
          /\ UNCHANGED faults
       \/ CallFails /\ UNCHANGED queue
    /\ UNCHANGED <<job, ledger, lock, upstream, submit, cancel, recovery>>

\* The deferred lock.Release deletes the key only with the worker's token.
ReleaseJobLock(w) ==
    /\ worker[w].pc = "unlock"
    /\ Goto(w, "idle")
    /\ lock' = IF lock = w THEN None ELSE lock
    /\ UNCHANGED <<job, ledger, queue, upstream, submit, cancel, recovery, faults>>

-----------------------------------------------------------------------------
(* The provider, the output cleanup and dying processes.                   *)

UpstreamEnds ==
    /\ upstream.state = "running"
    /\ upstream' \in [state : {"succeeded"}, cost : Costs] \cup [state : {"failed"}, cost : {0}]
    /\ UNCHANGED <<job, ledger, queue, lock, submit, cancel, recovery, worker, faults>>

MarkBatchImageOutputDeleted ==
    /\ job.status = "completed"
    /\ job' = WithStatus("output_deleted")
    /\ UNCHANGED <<ledger, queue, lock, upstream, submit, cancel, recovery, worker, faults>>

\* The recovery finds what a dead submission leaves behind only in unsubmitted jobs.
SubmitDies ==
    /\ submit \notin SubmitEnded
    /\ Dies(/\ submit \in {"enqueue", "release", "releaseOnly", "releaseFailed", "retry"}
            /\ job.status \notin Unsubmitted)
    /\ SubmitTo("dead")
    /\ UNCHANGED <<job, ledger, queue, lock, upstream, cancel, recovery, worker>>

RecoveryDies ==
    /\ recovery # "idle"
    /\ Dies(TRUE)
    /\ recovery' = "idle"
    /\ UNCHANGED <<job, ledger, queue, lock, upstream, submit, cancel, worker>>

CancelDies(c) ==
    /\ cancel[c] # "idle"
    /\ Dies(cancel[c] \in {"release", "retry"})
    /\ CancelTo(c, "idle")
    /\ UNCHANGED <<job, ledger, queue, lock, upstream, submit, recovery, worker>>

\* A worker that dies keeps its active entry and its lock until they expire.
WorkerDies(w) ==
    /\ worker[w].pc # "idle"
    /\ Dies(FALSE)
    /\ Goto(w, "idle")
    /\ UNCHANGED <<job, ledger, queue, lock, upstream, submit, cancel, recovery>>

-----------------------------------------------------------------------------
SubmitStep ==
    \/ SubmitReserve \/ SubmitItems \/ SubmitUpload \/ SubmitProvider
    \/ UpdateBatchImageJobProviderSubmit \/ AbortOrphanProviderJob \/ SubmitEnqueue
    \/ SubmitRelease \/ RecordBatchImageJobSubmitFailure \/ SubmitEnqueueBillingRetry

RecoveryStep == RecoveryRelease \/ EnqueueReleaseRetry

CancelStep(c) == CancelUpstream(c) \/ CancelTransition(c) \/ CancelRelease(c) \/ CancelEnqueue(c)

WorkerStep(w) ==
    \/ QueueReserve(w) \/ TryAcquireJobLock(w) \/ PipelineProcess(w) \/ ProviderProcess(w)
    \/ ProviderGet(w) \/ ApplyProviderState(w) \/ Index(w) \/ Indexed(w) \/ ReleaseTerminalHold(w)
    \/ Settle(w) \/ CaptureHold(w) \/ MarkBatchImageJobSettled(w) \/ RecordSettlementFailure(w)
    \/ ReleaseExhausted(w) \/ FailExhausted(w) \/ Reread(w) \/ RequeueAfter(w) \/ Ack(w)
    \/ ReleaseJobLock(w)

Timers == MoveDueDelayedToReady \/ RecoverStaleActive \/ LockExpires \/ GrowStale \/ UpstreamEnds

Next ==
    \/ CreateBatchImageJob \/ SubmitStep \/ TouchBatchImageJobSubmitting \/ Resubmit
    \/ FailStaleUnsubmittedBatchImageJob \/ RecoveryStep
    \/ \E c \in Cancellers : CancelRead(c) \/ CancelStep(c) \/ CancelDies(c)
    \/ \E w \in Workers : WorkerStep(w) \/ WorkerDies(w)
    \/ Timers \/ MarkBatchImageOutputDeleted \/ SubmitDies \/ RecoveryDies

Spec == Init /\ [][Next]_vars

\* Every process that is alive goes on, timers fire, the provider's job ends.
\* No client is obliged to create, cancel or repeat anything, and nothing has to fail.
FairSpec ==
    /\ Spec
    /\ WF_vars(SubmitStep) /\ WF_vars(RecoveryStep) /\ WF_vars(FailStaleUnsubmittedBatchImageJob)
    /\ \A c \in Cancellers : WF_vars(CancelStep(c))
    /\ \A w \in Workers : WF_vars(WorkerStep(w))
    /\ WF_vars(MoveDueDelayedToReady) /\ WF_vars(RecoverStaleActive) /\ WF_vars(LockExpires)
    /\ WF_vars(GrowStale) /\ WF_vars(UpstreamEnds)

-----------------------------------------------------------------------------
(* Properties.                                                             *)

\* Every variable has its type; neither the balance nor the frozen balance is ever
\* negative, in spite of the release and the capture that compete for one hold.
TypeOK ==
    /\ job \in [status : Statuses, provider : BOOLEAN, stale : BOOLEAN,
                retries : 0..MaxRetries, cost : Costs \cup {0}]
    /\ ledger.balance \in Nat /\ ledger.frozen \in Nat
    /\ ledger.claims \subseteq {"hold", "capture", "release"}
    /\ ledger.moved \subseteq {"reserved", "captured", "released"}
    /\ queue \in [ready : 0..MaxReady, active : BOOLEAN, delayed : BOOLEAN, inflight : BOOLEAN]
    /\ lock \in Workers \cup {None}
    /\ upstream \in [state : {"none", "running", "succeeded", "failed", "cancelled"},
                     cost : Costs \cup {0}]
    /\ submit \in SubmitSteps
    /\ cancel \in [Cancellers -> CancelSteps]
    /\ recovery \in {"idle", "release", "retry"}
    /\ worker \in [Workers -> [pc : WorkerIdle \cup WorkerBusy, seen : Statuses,
                               got : {"none", "running", "succeeded", "failed", "cancelled"}]]
    /\ faults \in [count : 0..MaxFaults, lapsed : BOOLEAN, stranded : BOOLEAN]

-----------------------------------------------------------------------------
Held == "reserved" \in ledger.moved /\ ledger.moved \cap {"captured", "released"} = {}

\* The settlement gave up although an earlier attempt had captured the hold.
ExhaustedAfterCapture == "captured" \in ledger.moved /\ job.retries >= MaxRetries

\* The release id was used up before the hold was made.
ReleasedTooEarly == "release" \in ledger.claims /\ "released" \notin ledger.moved

\* Captured and released are alternatives, whatever workers, Cancel, Submit and the
\* recovery do at the same time.  Two things break it: a settlement that gives up
\* after a capture (failExhaustedSettlement does not ask), and a second worker let
\* in by an expired job lock.
SettledOnce ==
    {"captured", "released"} \subseteq ledger.moved => ExhaustedAfterCapture \/ faults.lapsed

\* A job is completed only when its cost has been taken from the hold: the settled
\* mark comes after the capture also across a crash, a retry or an expired lock.
CompletedIsCharged ==
    job.status \in {"completed", "output_deleted"} => "captured" \in ledger.moved

\* A job the recovery or the submission gave up does not go on running upstream: the
\* submission that finds its job failed aborts it (unless that one call fails).
GivenUpIsAborted ==
    job.status = "failed" /\ submit = "done" => upstream.state # "running"

\* Somebody will still come to the held amount: a request, the recovery (which looks at
\* unsubmitted jobs only) or a worker (which looks at queued jobs only).
InCustody ==
    \/ submit \notin SubmitEnded
    \/ job.status \in Unsubmitted
    \/ recovery # "idle"
    \/ \E c \in Cancellers : cancel[c] \in {"release", "retry"}
    \/ queue.ready > 0 \/ queue.active \/ queue.delayed
    \/ \E w \in Workers : worker[w].pc \notin {"idle", "unlock"}

Excused == faults.stranded \/ ReleasedTooEarly \/ faults.lapsed

\* No held amount is forgotten: while money is frozen for the job someone is left who
\* will settle or release it.  Excused are a failed Enqueue, a process that dies between
\* failing the job and releasing, a release before the reservation, and an expired lock.
HoldInCustody == Held => InCustody \/ Excused

Unfinished == Held \/ (job.provider /\ job.status \notin Terminal)

\* Every hold ends and every submitted job reaches a terminal status, through crashes of
\* workers, failing calls and retries.
JobEnds == Unfinished ~> ~Unfinished \/ Excused \/ ExhaustedAfterCapture

\* The money movements of the job, seen as those of one hold.
HoldState ==
    IF {"captured", "released"} \subseteq ledger.moved THEN "both"
    ELSE IF "captured" \in ledger.moved THEN "captured"
    ELSE IF "released" \in ledger.moved THEN "released"
    ELSE IF "reserved" \in ledger.moved THEN "held" ELSE "none"

Ledger == INSTANCE BatchHold WITH hold <- HoldState, balance <- ledger.balance, frozen <- ledger.frozen

\* The job's transactions move the user's money only as BatchHold says.
LedgerSpec == Ledger!HSpec
=============================================================================
