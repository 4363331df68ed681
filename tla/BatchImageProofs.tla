-------------------------- MODULE BatchImageProofs ---------------------------
(***************************************************************************)
(* The safety properties of BatchImage, and that it implements BatchHold,  *)
(* for every set of workers and of Cancel requests, every hold, cost and   *)
(* balance, and every number of faults.                                    *)
(***************************************************************************)
EXTENDS BatchImage, TLAPS

\* The row and the ledger, and the step a worker is at.
Provider == job.provider
Ended == {"failed", "cancelled"}
Charged == {"completed", "output_deleted"}
Spent == job.retries >= MaxRetries
Has(id) == id \in ledger.claims
Did(effect) == effect \in ledger.moved
PC(w) == worker[w].pc

\* Where Submit is before it knows the provider's job, and where it owes a release or an
\* Enqueue.
Early == {"idle", "reserve", "items", "upload", "provider", "update"}
Owing == {"release", "releaseOnly", "releaseFailed", "retry", "enqueue"}

\* The request ids and the movements of money belong together.
ClaimsInv ==
    /\ Has("hold") <=> Did("reserved")
    /\ Has("capture") <=> Did("captured")
    /\ Did("released") => Has("release")
    /\ Did("captured") \/ Did("released") => Did("reserved")

\* The Submit request and the row.
SubmitInv ==
    /\ submit = "idle" <=> job.status = "none"
    /\ job.status \in Unsubmitted \cup {"none"} => ~Provider
    /\ job.status \in {"submitted", "running", "indexing", "settling"} \cup Charged => Provider
    /\ Provider => submit \in {"enqueue", "done", "dead"} /\ Has("hold")
    /\ submit = "enqueue" => Provider
    /\ submit \in {"idle", "reserve"} => ~Has("hold")
    /\ submit \in {"items", "upload", "provider", "update"} => Has("hold")
    /\ submit = "fail" => Has("release") \/ ~Has("hold")
    /\ Did("captured") => Provider

\* The provider's job and the row.
UpstreamInv ==
    /\ submit \in (Early \ {"update"}) \cup {"fail"} \cup (Owing \ {"enqueue"})
         => upstream.state = "none"
    /\ submit = "done" /\ ~Provider => upstream.state # "running"
    /\ Provider /\ job.status \in {"indexing", "settling", "failed"} \cup Charged
         => upstream.state # "running"
    /\ \A w \in Workers :
        /\ PC(w) \in {"poll", "apply", "index", "indexed", "indexFailed", "capture", "mark",
                      "recordFailure", "exhausted", "failExhausted"} => Provider
        /\ PC(w) \in {"index", "indexed", "indexFailed", "capture", "mark", "recordFailure",
                      "exhausted", "failExhausted"} => upstream.state # "running"
        /\ PC(w) = "apply" /\ worker[w].got # "running" => upstream.state = worker[w].got

\* What the handlers know for good.
KnownInv ==
    /\ \A w \in Workers :
        /\ PC(w) = "release" => job.status \in Ended
        /\ PC(w) = "mark" => Did("captured")
        /\ PC(w) = "capture" => job.status \in Done /\ job.cost <= Hold
        /\ PC(w) \in {"exhausted", "failExhausted"} => Spent
        /\ PC(w) = "failExhausted" => Has("release")
    /\ \A c \in Cancellers : cancel[c] = "release" => job.status \in Ended
    /\ recovery = "release" => job.status \in Ended

\* The job lock keeps all workers but one out, as long as it does not expire too early.
LockInv == ~faults.lapsed => \A w \in Workers : PC(w) \in WorkerBusy => lock = w

\* What the worker with the lock knows of the row, which nobody else moves.
SoleInv ==
    ~faults.lapsed => \A w \in Workers :
        /\ PC(w) \in {"poll", "apply"} => job.status \in {"submitted", "running"} \cup Ended
        /\ PC(w) \in {"index", "indexed", "indexFailed"} => job.status = "indexing"
        /\ PC(w) \in {"capture", "mark", "recordFailure", "exhausted", "failExhausted"}
             => job.status = "settling"
        /\ PC(w) = "capture" => ~Spent
        /\ PC(w) = "process" => job.status # "settling"
        /\ PC(w) = "reread" => job.status = "settling" \/ Has("release")
        /\ PC(w) = "ack" => Has("release") \/ Has("capture")

\* Which status the row has once money has moved.
MovedInv ==
    ~faults.lapsed =>
        /\ Did("captured") => job.status \in {"settling"} \cup Charged \/ Spent
        /\ Did("released") => \/ job.status \in Ended
                              \/ ~Provider /\ submit \notin Early
                              \/ Spent

\* The queue has an entry of the job.
Token == queue.ready > 0 \/ queue.active \/ queue.delayed
QueueInv == queue.inflight => Token

\* Somebody owes the release of the hold, from the moment the hold can be made.
Custody ==
    \/ submit \in Owing
    \/ job.status \in Unsubmitted
    \/ recovery # "idle"
    \/ \E c \in Cancellers : cancel[c] \in {"release", "retry"}
    \/ Token
CustodyInv ==
    /\ Has("hold") \/ submit = "reserve"
    /\ ~Has("release") /\ ~Has("capture")
    /\ ~faults.stranded /\ ~faults.lapsed
    => Custody

\* TypeOK, one variable after the other.
JobType == job \in [status : Statuses, provider : BOOLEAN, stale : BOOLEAN,
                    retries : 0..MaxRetries, cost : Costs \cup {0}]
LedgerType == ledger \in [balance : Nat, frozen : Nat,
                          claims : SUBSET {"hold", "capture", "release"},
                          moved : SUBSET {"reserved", "captured", "released"}]
QueueType == queue \in [ready : 0..MaxReady, active : BOOLEAN, delayed : BOOLEAN,
                        inflight : BOOLEAN]
UpstreamStates == {"none", "running", "succeeded", "failed", "cancelled"}
UpstreamType == upstream \in [state : UpstreamStates, cost : Costs \cup {0}]
WorkerType == worker \in [Workers -> [pc : WorkerIdle \cup WorkerBusy, seen : Statuses,
                                      got : UpstreamStates]]
RestType ==
    /\ lock \in Workers \cup {None}
    /\ submit \in SubmitSteps
    /\ cancel \in [Cancellers -> CancelSteps]
    /\ recovery \in {"idle", "release", "retry"}
FaultsType == faults \in [count : 0..MaxFaults, lapsed : BOOLEAN, stranded : BOOLEAN]

IInv ==
    /\ JobType /\ LedgerType /\ QueueType /\ UpstreamType /\ WorkerType /\ RestType /\ FaultsType
    /\ ClaimsInv /\ SubmitInv /\ UpstreamInv /\ KnownInv /\ LockInv
    /\ SoleInv /\ MovedInv /\ SettledOnce /\ CompletedIsCharged /\ QueueInv /\ CustodyInv


-----------------------------------------------------------------------------
(* What the statements write, field by field *)

JobTo(status) ==
    /\ job'.status = status
    /\ job'.provider = job.provider /\ job'.retries = job.retries /\ job'.cost = job.cost
WorkerTo(w, pc) ==
    /\ PC(w)' = pc
    /\ \A v \in Workers : v # w => worker'[v] = worker[v]

\* A write of the status keeps the rest of the row.
LEMMA StatusWritten ==
    ASSUME JobType, NEW s \in Statuses, job' = WithStatus(s)
    PROVE  JobTo(s)
BY DEF JobType, WithStatus, JobTo

\* A worker's step is its own.
LEMMA WorkerWritten ==
    ASSUME WorkerType, NEW w \in Workers, NEW pc, Goto(w, pc)
    PROVE  WorkerTo(w, pc)
BY DEF WorkerType, Goto, At, WorkerTo, PC

\* Which transitions the guard of the row lets through.
LEMMA Transitions ==
    /\ \A s \in Statuses : CanTransitionBatchImageJob(s, "failed")
         => s \notin Terminal \cup {"none"}
    /\ \A s \in Statuses : CanTransitionBatchImageJob(s, "cancelled")
         => s \in Unsubmitted \cup {"submitted", "running"}
    /\ \A s \in Statuses, t \in {"running", "indexing"} : CanTransitionBatchImageJob(s, t)
         => s \in {"submitted", "running"}
    /\ \A s \in Statuses : CanTransitionBatchImageJob(s, "settling") => s = "indexing"
    /\ \A s \in Statuses : CanTransitionBatchImageJob(s, "submitted") => s \in Unsubmitted
    /\ \A s \in Statuses : CanTransitionBatchImageJob(s, "uploading") => s = "created"
    /\ \A s \in Statuses : ~CanTransitionBatchImageJob(s, "none")
BY DEF Statuses, Terminal, Unsubmitted, CanTransitionBatchImageJob

\* Cancel of a job that is not settled.
LEMMA CancelTransitionMoves ==
    ASSUME JobType, RestType, NEW c \in Cancellers, CancelTransition(c)
    PROVE  /\ UNCHANGED <<ledger, queue, lock, upstream, submit, recovery, worker>>
           /\ cancel[c] = "transition"
           /\ \A d \in Cancellers : d # c => cancel'[d] = cancel[d]
           /\ \/ job' = job /\ cancel'[c] = "idle"
              \/ /\ JobTo("cancelled") /\ cancel'[c] = "release"
                 /\ job.status \in Unsubmitted \cup {"submitted", "running"}
<1>1. /\ UNCHANGED <<ledger, queue, lock, upstream, submit, recovery, worker>>
      /\ cancel[c] = "transition"
  BY DEF CancelTransition
<1>2. \A d \in Cancellers : d # c => cancel'[d] = cancel[d]
  BY DEF CancelTransition, CancelTo, RestType
<1>3. CASE UNCHANGED job /\ CancelTo(c, "idle")
  BY <1>1, <1>2, <1>3 DEF CancelTo, RestType
<1>4. CASE TransitionBatchImageJobStatus("cancelled") /\ CancelTo(c, "release")
  <2>1. JobTo("cancelled") /\ job.status \in Unsubmitted \cup {"submitted", "running"}
    BY <1>4, StatusWritten, Transitions
      DEF TransitionBatchImageJobStatus, JobType, Statuses, Terminal
  <2>2. cancel'[c] = "release"
    BY <1>4 DEF CancelTo, RestType
  <2> QED
    BY <1>1, <1>2, <2>1, <2>2
<1> QED
  BY <1>3, <1>4 DEF CancelTransition

\* The switch on the state of the provider's job.
LEMMA ApplyMoves ==
    ASSUME JobType, WorkerType, NEW w \in Workers, ApplyProviderState(w)
    PROVE  /\ UNCHANGED <<ledger, queue, lock, upstream, submit, cancel, recovery>>
           /\ PC(w) = "apply"
           /\ \/ job' = job /\ WorkerTo(w, "requeue")
              \/ /\ job.status \in {"submitted", "running"}
                 /\ \/ worker[w].got = "running" /\ JobTo("running") /\ WorkerTo(w, "requeue")
                    \/ worker[w].got = "succeeded" /\ JobTo("indexing") /\ WorkerTo(w, "index")
              \/ /\ job.status \notin Terminal \cup {"none"}
                 /\ worker[w].got = "failed" /\ JobTo("failed") /\ WorkerTo(w, "release")
              \/ /\ job.status \in Unsubmitted \cup {"submitted", "running"}
                 /\ worker[w].got = "cancelled" /\ JobTo("cancelled") /\ WorkerTo(w, "release")
<1>1. /\ UNCHANGED <<ledger, queue, lock, upstream, submit, cancel, recovery>>
      /\ PC(w) = "apply"
  BY DEF ApplyProviderState, PC
<1>2. CASE UNCHANGED job /\ Goto(w, "requeue")
  BY <1>1, <1>2, WorkerWritten
<1>3. CASE /\ TransitionBatchImageJobStatus(StatusFor(worker[w].got))
           /\ Goto(w, StepFor(worker[w].got))
  <2>1. worker[w].got \in UpstreamStates /\ job.status \in Statuses
    BY DEF WorkerType, JobType
  <2>2. /\ job' = WithStatus(StatusFor(worker[w].got))
        /\ CanTransitionBatchImageJob(job.status, StatusFor(worker[w].got))
    BY <1>3 DEF TransitionBatchImageJobStatus
  <2>3. CASE worker[w].got = "running"
    <3>1. StatusFor(worker[w].got) = "running" /\ StepFor(worker[w].got) = "requeue"
      BY <2>3 DEF StatusFor, StepFor
    <3> QED
      BY <1>1, <1>3, <2>1, <2>2, <2>3, <3>1, StatusWritten, WorkerWritten, Transitions
        DEF Statuses
  <2>4. CASE worker[w].got = "succeeded"
    <3>1. StatusFor(worker[w].got) = "indexing" /\ StepFor(worker[w].got) = "index"
      BY <2>4 DEF StatusFor, StepFor
    <3> QED
      BY <1>1, <1>3, <2>1, <2>2, <2>4, <3>1, StatusWritten, WorkerWritten, Transitions
        DEF Statuses
  <2>5. CASE worker[w].got = "failed"
    <3>1. StatusFor(worker[w].got) = "failed" /\ StepFor(worker[w].got) = "release"
      BY <2>5 DEF StatusFor, StepFor
    <3> QED
      BY <1>1, <1>3, <2>1, <2>2, <2>5, <3>1, StatusWritten, WorkerWritten, Transitions
        DEF Statuses, Terminal
  <2>6. CASE worker[w].got = "cancelled"
    <3>1. StatusFor(worker[w].got) = "cancelled" /\ StepFor(worker[w].got) = "release"
      BY <2>6 DEF StatusFor, StepFor
    <3> QED
      BY <1>1, <1>3, <2>1, <2>2, <2>6, <3>1, StatusWritten, WorkerWritten, Transitions
        DEF Statuses, Terminal
  <2>7. CASE worker[w].got = "none"
    <3>1. StatusFor(worker[w].got) = "none"
      BY <2>7 DEF StatusFor
    <3> QED
      BY <2>1, <2>2, <3>1, Transitions
  <2> QED
    BY <2>1, <2>3, <2>4, <2>5, <2>6, <2>7 DEF UpstreamStates
<1> QED
  BY <1>2, <1>3 DEF ApplyProviderState, ProcessFails

\* The transitions a worker makes with the results, the settlement and its end.
LEMMA IndexedMoves ==
    ASSUME JobType, WorkerType, NEW w \in Workers, Indexed(w)
    PROVE  /\ UNCHANGED <<ledger, queue, lock, upstream, submit, cancel, recovery>>
           /\ PC(w) \in {"indexed", "indexFailed"}
           /\ \/ job' = job /\ WorkerTo(w, "requeue")
              \/ /\ PC(w) = "indexed" /\ job.status = "indexing"
                 /\ JobTo("settling") /\ WorkerTo(w, "requeue")
              \/ /\ PC(w) = "indexFailed" /\ job.status \notin Terminal \cup {"none"}
                 /\ JobTo("failed") /\ WorkerTo(w, "release")
<1>1. /\ UNCHANGED <<ledger, queue, lock, upstream, submit, cancel, recovery>>
      /\ PC(w) \in {"indexed", "indexFailed"}
  BY DEF Indexed, PC
<1>2. CASE UNCHANGED job /\ Goto(w, "requeue")
  BY <1>1, <1>2, WorkerWritten
<1>3. CASE PC(w) = "indexed" /\ TransitionBatchImageJobStatus("settling") /\ Goto(w, "requeue")
  BY <1>1, <1>3, StatusWritten, WorkerWritten, Transitions
    DEF TransitionBatchImageJobStatus, JobType, Statuses
<1>4. CASE PC(w) = "indexFailed" /\ TransitionBatchImageJobStatus("failed") /\ Goto(w, "release")
  BY <1>1, <1>4, StatusWritten, WorkerWritten, Transitions
    DEF TransitionBatchImageJobStatus, JobType, Statuses, Terminal
<1> QED
  BY <1>1, <1>2, <1>3, <1>4 DEF Indexed, ProcessFails, PC

\* The settled mark.
LEMMA MarkMoves ==
    ASSUME JobType, WorkerType, NEW w \in Workers, MarkBatchImageJobSettled(w)
    PROVE  /\ UNCHANGED <<ledger, queue, lock, upstream, submit, cancel, recovery>>
           /\ PC(w) = "mark"
           /\ \/ job' = job /\ WorkerTo(w, "requeue")
              \/ job.status = "settling" /\ JobTo("completed") /\ WorkerTo(w, "ack")
<1>1. CASE UNCHANGED job /\ Goto(w, "requeue")
  BY <1>1, WorkerWritten DEF MarkBatchImageJobSettled, PC
<1>2. CASE job.status = "settling" /\ job' = WithStatus("completed") /\ Goto(w, "ack")
  BY <1>2, StatusWritten, WorkerWritten DEF MarkBatchImageJobSettled, PC, Statuses, Terminal
<1> QED
  BY <1>1, <1>2 DEF MarkBatchImageJobSettled, ProcessFails

\* The end of a settlement that cannot be made.
LEMMA FailExhaustedMoves ==
    ASSUME JobType, WorkerType, NEW w \in Workers, FailExhausted(w)
    PROVE  /\ UNCHANGED <<ledger, queue, lock, upstream, submit, cancel, recovery>>
           /\ PC(w) = "failExhausted"
           /\ \/ job' = job /\ WorkerTo(w, "requeue")
              \/ /\ job.status \notin Terminal \cup {"none"}
                 /\ JobTo("failed") /\ WorkerTo(w, "reread")
<1>1. CASE UNCHANGED job /\ Goto(w, "requeue")
  BY <1>1, WorkerWritten DEF FailExhausted, PC
<1>2. CASE TransitionBatchImageJobStatus("failed") /\ Goto(w, "reread")
  BY <1>2, StatusWritten, WorkerWritten, Transitions
    DEF FailExhausted, PC, TransitionBatchImageJobStatus, JobType, Statuses, Terminal
<1> QED
  BY <1>1, <1>2 DEF FailExhausted, ProcessFails

\* Submit before it calls the provider.
LEMMA UploadMoves ==
    ASSUME JobType, SubmitUpload
    PROVE  /\ UNCHANGED <<ledger, queue, lock, upstream, cancel, recovery, worker>>
           /\ submit = "upload"
           /\ \/ job' = job /\ submit' \in {"release", "releaseOnly"}
              \/ job.status = "created" /\ JobTo("uploading") /\ submit' = "provider"
<1>1. CASE UNCHANGED job /\ (SubmitTo("release") \/ SubmitTo("releaseOnly"))
  BY <1>1 DEF SubmitUpload, SubmitTo
<1>2. CASE TransitionBatchImageJobStatus("uploading") /\ SubmitTo("provider")
  <2>1. job.status \in Statuses /\ "uploading" \in Statuses
    BY DEF JobType, Statuses, Unsubmitted
  <2>2. job.status = "created" /\ JobTo("uploading")
    BY <1>2, <2>1, StatusWritten, Transitions DEF TransitionBatchImageJobStatus
  <2> QED
    BY <1>2, <2>2 DEF SubmitUpload, SubmitTo
<1> QED
  BY <1>1, <1>2 DEF SubmitUpload

\* Submit records that it has failed.
LEMMA FailureMoves ==
    ASSUME JobType, RecordBatchImageJobSubmitFailure
    PROVE  /\ UNCHANGED <<ledger, queue, lock, upstream, cancel, recovery, worker>>
           /\ \/ submit = "fail" /\ submit' = "done"
              \/ submit = "releaseFailed" /\ submit' = "retry"
           /\ job' = job \/ JobTo("failed")
<1>1. "failed" \in Statuses
  BY DEF Statuses, Terminal
<1>2. job' = job \/ JobTo("failed")
  BY <1>1, StatusWritten DEF RecordBatchImageJobSubmitFailure
<1> QED
  BY <1>2 DEF RecordBatchImageJobSubmitFailure, SubmitTo

\* Submit records the provider's job, or finds its own job gone.
LEMMA UpdateMoves ==
    ASSUME JobType, UpdateBatchImageJobProviderSubmit
    PROVE  /\ UNCHANGED <<ledger, queue, lock, upstream, cancel, recovery, worker>>
           /\ submit = "update"
           /\ \/ job' = job /\ submit' = "abort"
              \/ /\ job.status \in Unsubmitted /\ submit' = "enqueue"
                 /\ job'.status = "submitted" /\ job'.provider = TRUE
                 /\ job'.retries = job.retries /\ job'.cost = job.cost
<1>1. CASE UNCHANGED job /\ SubmitTo("abort")
  BY <1>1 DEF UpdateBatchImageJobProviderSubmit, SubmitTo
<1>2. CASE /\ CanTransitionBatchImageJob(job.status, "submitted")
           /\ job' = [WithStatus("submitted") EXCEPT !.provider = TRUE]
           /\ SubmitTo("enqueue")
  <2>1. job.status \in Unsubmitted
    BY <1>2, Transitions DEF JobType
  <2>2. /\ job'.status = "submitted" /\ job'.provider = TRUE
        /\ job'.retries = job.retries /\ job'.cost = job.cost
    BY <1>2 DEF WithStatus, JobType
  <2> QED
    BY <1>2, <2>1, <2>2 DEF UpdateBatchImageJobProviderSubmit, SubmitTo
<1> QED
  BY <1>1, <1>2 DEF UpdateBatchImageJobProviderSubmit

\* Enqueue leaves an entry in the queue.
LEMMA EnqueueMoves ==
    ASSUME QueueType, QueueInv, Enqueue
    PROVE  QueueType' /\ QueueInv' /\ Token'
<1>1. CASE queue.inflight
  BY <1>1 DEF Enqueue, QueueType, QueueInv, Token
<1>2. CASE ~queue.inflight
  <2>1. queue.ready + 1 \in 0..MaxReady /\ queue.ready \in Nat
    BY <1>2, BatchAssumption DEF Enqueue, QueueType
  <2>2. queue' = [queue EXCEPT !.inflight = TRUE, !.ready = @ + 1]
    BY <1>2 DEF Enqueue
  <2>3. queue'.ready = queue.ready + 1
    BY <2>2 DEF QueueType
  <2>4. QueueType'
    BY <2>1, <2>2 DEF QueueType
  <2>5. Token'
    BY <2>1, <2>3 DEF Token
  <2> QED
    BY <2>4, <2>5 DEF QueueInv
<1> QED
  BY <1>1, <1>2

\* The faults after which nobody is left to look at the job are remembered.
LEMMA Strands ==
    ASSUME FaultsType
    PROVE  /\ EnqueueFails => faults'.stranded
           /\ \A a \in BOOLEAN : Dies(a) => (a => faults'.stranded)
<1>1. \A a, b \in BOOLEAN : Fault(a, b) => faults'.stranded = (faults.stranded \/ a)
  BY DEF Fault
<1>2. EnqueueFails => faults'.stranded
  BY <1>1 DEF EnqueueFails
<1>3. \A a \in BOOLEAN : Dies(a) => faults'.stranded = (faults.stranded \/ a)
  BY <1>1 DEF Dies
<1> QED
  BY <1>2, <1>3

\* A lapse is remembered.
LEMMA Lapses ==
    ASSUME FaultsType, Lapse
    PROVE  faults'.lapsed
BY DEF FaultsType, Lapse, Fault


\* A fault is counted, and remembered for good.
LEMMA FaultsMove ==
    ASSUME FaultsType, [Next]_vars
    PROVE  /\ FaultsType'
           /\ faults.lapsed => faults'.lapsed
           /\ faults.stranded => faults'.stranded
<1>1. ASSUME NEW a \in BOOLEAN, NEW b \in BOOLEAN, Fault(a, b)
      PROVE  /\ FaultsType'
             /\ faults.lapsed => faults'.lapsed
             /\ faults.stranded => faults'.stranded
  <2>1. faults.count + 1 \in 0..MaxFaults
    BY <1>1, BatchAssumption DEF FaultsType, Fault
  <2>2. (faults.lapsed \/ b) \in BOOLEAN /\ (faults.stranded \/ a) \in BOOLEAN
    OBVIOUS
  <2>3. faults' = [count |-> faults.count + 1, stranded |-> faults.stranded \/ a,
                   lapsed |-> faults.lapsed \/ b]
    BY <1>1 DEF Fault
  <2> QED
    BY <2>1, <2>2, <2>3 DEF FaultsType
<1>2. ASSUME \/ UNCHANGED faults
             \/ CallFails
             \/ EnqueueFails
             \/ Lapse
             \/ \E a \in BOOLEAN : Dies(a)
      PROVE  /\ FaultsType'
             /\ faults.lapsed => faults'.lapsed
             /\ faults.stranded => faults'.stranded
  BY <1>1, <1>2 DEF CallFails, EnqueueFails, Lapse, Dies, FaultsType
<1>3. ASSUME SubmitStep PROVE UNCHANGED faults \/ CallFails \/ EnqueueFails
  BY <1>3 DEF SubmitStep, SubmitReserve, SubmitItems, SubmitUpload, SubmitProvider,
    UpdateBatchImageJobProviderSubmit, AbortOrphanProviderJob, SubmitEnqueue, SubmitRelease,
    RecordBatchImageJobSubmitFailure, SubmitEnqueueBillingRetry, ReleaseFails
<1>4. ASSUME RecoveryStep \/ \E c \in Cancellers : CancelRead(c) \/ CancelStep(c)
      PROVE UNCHANGED faults \/ CallFails \/ EnqueueFails
  BY <1>4 DEF RecoveryStep, RecoveryRelease, EnqueueReleaseRetry, CancelRead, CancelStep, CancelUpstream,
    CancelTransition, CancelRelease, CancelEnqueue, ReleaseFails
<1>5. ASSUME NEW w \in Workers, WorkerStep(w) PROVE UNCHANGED faults \/ CallFails
  BY <1>5 DEF WorkerStep, QueueReserve, TryAcquireJobLock, PipelineProcess, ProviderProcess, ProviderGet,
    ApplyProviderState, Index, Indexed, ReleaseTerminalHold, Settle, CaptureHold,
    MarkBatchImageJobSettled, RecordSettlementFailure, ReleaseExhausted, FailExhausted, Reread,
    RequeueAfter, Ack, ReleaseJobLock, ProcessFails, ReleaseFails
<1>6. ASSUME Timers PROVE UNCHANGED faults \/ Lapse
  BY <1>6 DEF Timers, MoveDueDelayedToReady, RecoverStaleActive, LockExpires, GrowStale, UpstreamEnds
<1>7. ASSUME SubmitDies \/ RecoveryDies \/ (\E c \in Cancellers : CancelDies(c))
             \/ \E w \in Workers : WorkerDies(w)
      PROVE  \E a \in BOOLEAN : Dies(a)
  <2>1. ASSUME SubmitDies PROVE \E a \in BOOLEAN : Dies(a)
    <3>1. (/\ submit \in {"enqueue", "release", "releaseOnly", "releaseFailed", "retry"}
           /\ job.status \notin Unsubmitted) \in BOOLEAN
      OBVIOUS
    <3> QED
      BY <2>1, <3>1 DEF SubmitDies
  <2>2. ASSUME RecoveryDies PROVE \E a \in BOOLEAN : Dies(a)
    BY <2>2 DEF RecoveryDies
  <2>3. ASSUME NEW c \in Cancellers, CancelDies(c) PROVE \E a \in BOOLEAN : Dies(a)
    <3>1. (cancel[c] \in {"release", "retry"}) \in BOOLEAN
      OBVIOUS
    <3> QED
      BY <2>3, <3>1 DEF CancelDies
  <2>4. ASSUME NEW w \in Workers, WorkerDies(w) PROVE \E a \in BOOLEAN : Dies(a)
    BY <2>4 DEF WorkerDies
  <2> QED
    BY <1>7, <2>1, <2>2, <2>3, <2>4
<1>8. ASSUME \/ CreateBatchImageJob \/ TouchBatchImageJobSubmitting \/ Resubmit
             \/ FailStaleUnsubmittedBatchImageJob \/ MarkBatchImageOutputDeleted \/ UNCHANGED vars
      PROVE  UNCHANGED faults
  BY <1>8 DEF CreateBatchImageJob, TouchBatchImageJobSubmitting, Resubmit,
    FailStaleUnsubmittedBatchImageJob, MarkBatchImageOutputDeleted, vars
<1> QED
  BY <1>2, <1>3, <1>4, <1>5, <1>6, <1>7, <1>8 DEF Next

-----------------------------------------------------------------------------
(* Types *)

\* The row keeps its type.
LEMMA JobKeepsType ==
    ASSUME JobType, UpstreamType, WorkerType, [Next]_vars
    PROVE  JobType'
<1>1. ASSUME CreateBatchImageJob PROVE JobType'
  BY <1>1 DEF JobType, UpstreamType, WorkerType, UpstreamStates, Statuses, Terminal,
    Unsubmitted, Done, Charged, Ended, CreateBatchImageJob, WithStatus, SubmitTo
<1>2. ASSUME SubmitUpload PROVE JobType'
  BY <1>2 DEF JobType, UpstreamType, WorkerType, UpstreamStates, Statuses, Terminal,
    Unsubmitted, Done, Charged, Ended, SubmitUpload, SubmitTo,
    TransitionBatchImageJobStatus, CanTransitionBatchImageJob, WithStatus
<1>3. ASSUME UpdateBatchImageJobProviderSubmit PROVE JobType'
  BY <1>3 DEF JobType, UpstreamType, WorkerType, UpstreamStates, Statuses, Terminal,
    Unsubmitted, Done, Charged, Ended, UpdateBatchImageJobProviderSubmit, SubmitTo,
    CanTransitionBatchImageJob, WithStatus
<1>4. ASSUME RecordBatchImageJobSubmitFailure PROVE JobType'
  BY <1>4 DEF JobType, UpstreamType, WorkerType, UpstreamStates, Statuses, Terminal,
    Unsubmitted, Done, Charged, Ended, RecordBatchImageJobSubmitFailure, SubmitTo,
    WithStatus
<1>5. ASSUME TouchBatchImageJobSubmitting PROVE JobType'
  BY <1>5 DEF JobType, UpstreamType, WorkerType, UpstreamStates, Statuses, Terminal,
    Unsubmitted, Done, Charged, Ended, TouchBatchImageJobSubmitting
<1>6. ASSUME FailStaleUnsubmittedBatchImageJob PROVE JobType'
  BY <1>6 DEF JobType, UpstreamType, WorkerType, UpstreamStates, Statuses, Terminal,
    Unsubmitted, Done, Charged, Ended, FailStaleUnsubmittedBatchImageJob, WithStatus
<1>7. ASSUME NEW c \in Cancellers, CancelTransition(c) PROVE JobType'
  BY <1>7 DEF JobType, UpstreamType, WorkerType, UpstreamStates, Statuses, Terminal,
    Unsubmitted, Done, Charged, Ended, CancelTransition, CancelTo,
    TransitionBatchImageJobStatus, CanTransitionBatchImageJob, WithStatus
<1>8. ASSUME NEW w \in Workers, ApplyProviderState(w) PROVE JobType'
  BY <1>8 DEF JobType, UpstreamType, WorkerType, UpstreamStates, Statuses, Terminal,
    Unsubmitted, Done, Charged, Ended, ApplyProviderState, Goto, At, ProcessFails,
    TransitionBatchImageJobStatus, CanTransitionBatchImageJob, WithStatus, StatusFor,
    StepFor
<1>9. ASSUME NEW w \in Workers, Index(w) PROVE JobType'
  BY <1>9 DEF JobType, UpstreamType, WorkerType, UpstreamStates, Statuses, Terminal,
    Unsubmitted, Done, Charged, Ended, Index, Goto, At
<1>10. ASSUME NEW w \in Workers, Indexed(w) PROVE JobType'
  BY <1>10 DEF JobType, UpstreamType, WorkerType, UpstreamStates, Statuses, Terminal,
    Unsubmitted, Done, Charged, Ended, Indexed, Goto, At, ProcessFails,
    TransitionBatchImageJobStatus, CanTransitionBatchImageJob, WithStatus
<1>11. ASSUME NEW w \in Workers, MarkBatchImageJobSettled(w) PROVE JobType'
  <2>1. job' = job \/ job' = WithStatus("completed")
    BY <1>11 DEF MarkBatchImageJobSettled
  <2> QED
    BY <2>1 DEF JobType, WithStatus, Statuses, Terminal
<1>12. ASSUME NEW w \in Workers, RecordSettlementFailure(w) PROVE JobType'
  <2>1. job' = job \/ job' = CountedRetry
    BY <1>12 DEF RecordSettlementFailure
  <2> QED
    BY <2>1, BatchAssumption DEF JobType, CountedRetry
<1>13. ASSUME NEW w \in Workers, ReleaseExhausted(w) PROVE JobType'
  <2>1. job' = job \/ job' = CountedRetry
    BY <1>13 DEF ReleaseExhausted
  <2> QED
    BY <2>1, BatchAssumption DEF JobType, CountedRetry
<1>14. ASSUME NEW w \in Workers, FailExhausted(w) PROVE JobType'
  BY <1>14 DEF JobType, UpstreamType, WorkerType, UpstreamStates, Statuses, Terminal,
    Unsubmitted, Done, Charged, Ended, FailExhausted, Goto, At, ProcessFails,
    TransitionBatchImageJobStatus, CanTransitionBatchImageJob, WithStatus
<1>15. ASSUME GrowStale PROVE JobType'
  BY <1>15 DEF JobType, UpstreamType, WorkerType, UpstreamStates, Statuses, Terminal,
    Unsubmitted, Done, Charged, Ended, GrowStale
<1>16. ASSUME MarkBatchImageOutputDeleted PROVE JobType'
  BY <1>16 DEF JobType, UpstreamType, WorkerType, UpstreamStates, Statuses, Terminal,
    Unsubmitted, Done, Charged, Ended, MarkBatchImageOutputDeleted, WithStatus
<1>17. ASSUME UNCHANGED job PROVE JobType'
  BY <1>17 DEF JobType, UpstreamType, WorkerType, UpstreamStates, Statuses, Terminal,
    Unsubmitted, Done, Charged, Ended
<1> QED
  BY <1>1, <1>2, <1>3, <1>4, <1>5, <1>6, <1>7, <1>8, <1>9, <1>10, <1>11, <1>12, <1>13,
    <1>14, <1>15, <1>16, <1>17 DEF Next, SubmitStep, RecoveryStep, CancelStep, WorkerStep,
    Timers, vars, SubmitReserve, SubmitItems, SubmitProvider, AbortOrphanProviderJob,
    SubmitEnqueue, SubmitRelease, SubmitEnqueueBillingRetry, Resubmit, RecoveryRelease,
    EnqueueReleaseRetry, CancelRead, CancelUpstream, CancelRelease, CancelEnqueue,
    CancelDies, QueueReserve, TryAcquireJobLock, PipelineProcess, ProviderProcess,
    ProviderGet, ReleaseTerminalHold, Settle, CaptureHold, Reread, RequeueAfter, Ack,
    ReleaseJobLock, WorkerDies, MoveDueDelayedToReady, RecoverStaleActive, LockExpires,
    UpstreamEnds, SubmitDies, RecoveryDies

\* Neither balance becomes negative: what a capture keeps is at most the hold.
LEMMA LedgerKeepsType ==
    ASSUME JobType, LedgerType, KnownInv, [Next]_vars
    PROVE  LedgerType'
<1>1. ASSUME SubmitReserve PROVE LedgerType'
  BY <1>1, BatchAssumption DEF JobType, LedgerType, KnownInv, PC, WorkerIdle, WorkerBusy,
    SubmitReserve, ReserveBatchImageBalance, Apply, SubmitTo
<1>2. ASSUME SubmitRelease PROVE LedgerType'
  BY <1>2, BatchAssumption DEF JobType, LedgerType, KnownInv, PC, WorkerIdle, WorkerBusy,
    SubmitRelease, SubmitTo, ReleaseBatchImageBalance, Apply, ReleaseFails,
    ReleaseInsufficient
<1>3. ASSUME RecoveryRelease PROVE LedgerType'
  BY <1>3, BatchAssumption DEF JobType, LedgerType, KnownInv, PC, WorkerIdle, WorkerBusy,
    RecoveryRelease, ReleaseBatchImageBalance, Apply, ReleaseFails, ReleaseInsufficient
<1>4. ASSUME NEW c \in Cancellers, CancelRelease(c) PROVE LedgerType'
  BY <1>4, BatchAssumption DEF JobType, LedgerType, KnownInv, PC, WorkerIdle, WorkerBusy,
    CancelRelease, CancelTo, ReleaseBatchImageBalance, Apply, ReleaseFails,
    ReleaseInsufficient
<1>5. ASSUME NEW w \in Workers, ReleaseTerminalHold(w) PROVE LedgerType'
  BY <1>5, BatchAssumption DEF JobType, LedgerType, KnownInv, PC, WorkerIdle, WorkerBusy,
    ReleaseTerminalHold, Goto, At, ReleaseBatchImageBalance, Apply, ReleaseFails,
    ReleaseInsufficient
<1>6. ASSUME NEW w \in Workers, CaptureHold(w) PROVE LedgerType'
  <2>1. CASE UNCHANGED ledger
    BY <2>1 DEF LedgerType
  <2>2. CASE ledger.frozen >= Hold /\ Apply("capture", "captured", Hold - job.cost, -Hold)
    <3>0. /\ job.cost \in Nat /\ job.cost <= Hold /\ Hold \in Nat
          /\ ledger.balance \in Nat /\ ledger.frozen \in Nat
      <4>1. job.cost <= Hold
        BY <1>6 DEF CaptureHold, KnownInv, PC
      <4>2. job.cost \in Costs \cup {0}
        BY DEF JobType
      <4>4. (\A n \in Costs \cup {0} : n \in Nat) /\ Hold \in Nat
        BY BatchAssumption
      <4>3. ledger.balance \in Nat /\ ledger.frozen \in Nat
        BY DEF LedgerType
      <4> QED
        BY <4>1, <4>2, <4>3, <4>4
    <3>1. Hold - job.cost \in Nat /\ ledger.frozen + (-Hold) \in Nat
      BY <2>2, <3>0
    <3>2. ledger.balance + (Hold - job.cost) \in Nat
      BY <3>0, <3>1
    <3>3. ledger' = [balance |-> ledger.balance + (Hold - job.cost),
                     frozen |-> ledger.frozen + (-Hold),
                     claims |-> ledger.claims \cup {"capture"},
                     moved |-> ledger.moved \cup {"captured"}]
      BY <2>2 DEF Apply
    <3> QED
      BY <3>1, <3>2, <3>3 DEF LedgerType
  <2> QED
    BY <1>6, <2>1, <2>2 DEF CaptureHold, CaptureBatchImageBalance
<1>7. ASSUME NEW w \in Workers, ReleaseExhausted(w) PROVE LedgerType'
  BY <1>7, BatchAssumption DEF JobType, LedgerType, KnownInv, PC, WorkerIdle, WorkerBusy,
    ReleaseExhausted, Goto, At, CountedRetry, ReleaseBatchImageBalance, Apply,
    ReleaseFails, ReleaseInsufficient
<1>8. ASSUME UNCHANGED ledger PROVE LedgerType'
  BY <1>8 DEF JobType, LedgerType, KnownInv, PC, WorkerIdle, WorkerBusy
<1> QED
  BY <1>1, <1>2, <1>3, <1>4, <1>5, <1>6, <1>7, <1>8 DEF Next, SubmitStep, RecoveryStep,
    CancelStep, WorkerStep, Timers, vars, CreateBatchImageJob, SubmitItems, SubmitUpload,
    SubmitProvider, UpdateBatchImageJobProviderSubmit, AbortOrphanProviderJob,
    SubmitEnqueue, RecordBatchImageJobSubmitFailure, SubmitEnqueueBillingRetry,
    TouchBatchImageJobSubmitting, Resubmit, FailStaleUnsubmittedBatchImageJob,
    EnqueueReleaseRetry, CancelRead, CancelUpstream, CancelTransition, CancelEnqueue,
    CancelDies, QueueReserve, TryAcquireJobLock, PipelineProcess, ProviderProcess,
    ProviderGet, ApplyProviderState, Index, Indexed, Settle, MarkBatchImageJobSettled,
    RecordSettlementFailure, FailExhausted, Reread, RequeueAfter, Ack, ReleaseJobLock,
    WorkerDies, MoveDueDelayedToReady, RecoverStaleActive, LockExpires, GrowStale,
    UpstreamEnds, MarkBatchImageOutputDeleted, SubmitDies, RecoveryDies

\* The queue keeps its type, and an entry for every inflight key.
LEMMA QueueKeeps ==
    ASSUME QueueType, QueueInv, [Next]_vars
    PROVE  QueueType' /\ QueueInv'
<1>1. ASSUME SubmitEnqueue PROVE QueueType' /\ QueueInv'
  BY <1>1, EnqueueMoves DEF SubmitEnqueue, QueueType, QueueInv, Token
<1>2. ASSUME SubmitEnqueueBillingRetry PROVE QueueType' /\ QueueInv'
  BY <1>2, EnqueueMoves DEF SubmitEnqueueBillingRetry, QueueType, QueueInv, Token
<1>3. ASSUME Resubmit PROVE QueueType' /\ QueueInv'
  BY <1>3, EnqueueMoves DEF Resubmit, QueueType, QueueInv, Token
<1>4. ASSUME EnqueueReleaseRetry PROVE QueueType' /\ QueueInv'
  BY <1>4, EnqueueMoves DEF EnqueueReleaseRetry, QueueType, QueueInv, Token
<1>5. ASSUME NEW c \in Cancellers, CancelEnqueue(c) PROVE QueueType' /\ QueueInv'
  BY <1>5, EnqueueMoves DEF CancelEnqueue, QueueType, QueueInv, Token
<1>6. ASSUME NEW w \in Workers, QueueReserve(w) PROVE QueueType' /\ QueueInv'
  <2>1. queue' = [queue EXCEPT !.ready = @ - 1, !.active = TRUE] /\ queue.ready > 0
    BY <1>6 DEF QueueReserve
  <2>2. queue.ready - 1 \in 0..MaxReady
    BY <2>1, BatchAssumption DEF QueueType
  <2> QED
    BY <2>1, <2>2 DEF QueueType, QueueInv, Token
<1>7. ASSUME NEW w \in Workers, RequeueAfter(w) PROVE QueueType' /\ QueueInv'
  BY <1>7, BatchAssumption DEF QueueType, QueueInv, Token, RequeueAfter, Goto, At
<1>8. ASSUME NEW w \in Workers, Ack(w) PROVE QueueType' /\ QueueInv'
  BY <1>8, BatchAssumption DEF QueueType, QueueInv, Token, Ack, Goto, At
<1>9. ASSUME MoveDueDelayedToReady PROVE QueueType' /\ QueueInv'
  <2>1. queue' = [queue EXCEPT !.delayed = FALSE, !.ready = @ + 1] /\ queue.ready < MaxReady
    BY <1>9 DEF MoveDueDelayedToReady
  <2>2. queue.ready + 1 \in 0..MaxReady /\ queue.ready + 1 > 0
    BY <2>1, BatchAssumption DEF QueueType
  <2> QED
    BY <2>1, <2>2 DEF QueueType, QueueInv, Token
<1>10. ASSUME RecoverStaleActive PROVE QueueType' /\ QueueInv'
  <2>1. queue' = [queue EXCEPT !.active = FALSE, !.ready = @ + 1] /\ queue.ready < MaxReady
    BY <1>10 DEF RecoverStaleActive
  <2>2. queue.ready + 1 \in 0..MaxReady /\ queue.ready + 1 > 0
    BY <2>1, BatchAssumption DEF QueueType
  <2> QED
    BY <2>1, <2>2 DEF QueueType, QueueInv, Token
<1>11. ASSUME UNCHANGED queue PROVE QueueType' /\ QueueInv'
  BY <1>11 DEF QueueType, QueueInv, Token
<1> QED
  BY <1>1, <1>2, <1>3, <1>4, <1>5, <1>6, <1>7, <1>8, <1>9, <1>10, <1>11 DEF Next,
    SubmitStep, RecoveryStep, CancelStep, WorkerStep, Timers, vars, CreateBatchImageJob,
    SubmitReserve, SubmitItems, SubmitUpload, SubmitProvider,
    UpdateBatchImageJobProviderSubmit, AbortOrphanProviderJob, SubmitRelease,
    RecordBatchImageJobSubmitFailure, TouchBatchImageJobSubmitting,
    FailStaleUnsubmittedBatchImageJob, RecoveryRelease, CancelRead, CancelUpstream,
    CancelTransition, CancelRelease, CancelDies, TryAcquireJobLock, PipelineProcess,
    ProviderProcess, ProviderGet, ApplyProviderState, Index, Indexed, ReleaseTerminalHold,
    Settle, CaptureHold, MarkBatchImageJobSettled, RecordSettlementFailure,
    ReleaseExhausted, FailExhausted, Reread, ReleaseJobLock, WorkerDies, LockExpires,
    GrowStale, UpstreamEnds, MarkBatchImageOutputDeleted, SubmitDies, RecoveryDies

\* The provider's job keeps its type.
LEMMA UpstreamKeepsType ==
    ASSUME UpstreamType, [Next]_vars
    PROVE  UpstreamType'
<1>1. ASSUME SubmitProvider PROVE UpstreamType'
  BY <1>1 DEF UpstreamType, UpstreamStates, SubmitProvider, SubmitTo
<1>2. ASSUME AbortOrphanProviderJob PROVE UpstreamType'
  BY <1>2 DEF UpstreamType, UpstreamStates, AbortOrphanProviderJob, SubmitTo,
    ProviderCancel
<1>3. ASSUME NEW c \in Cancellers, CancelUpstream(c) PROVE UpstreamType'
  BY <1>3 DEF UpstreamType, UpstreamStates, CancelUpstream, CancelTo, ProviderCancel
<1>4. ASSUME UpstreamEnds PROVE UpstreamType'
  BY <1>4 DEF UpstreamType, UpstreamStates, UpstreamEnds
<1>5. ASSUME UNCHANGED upstream PROVE UpstreamType'
  BY <1>5 DEF UpstreamType, UpstreamStates
<1> QED
  BY <1>1, <1>2, <1>3, <1>4, <1>5 DEF Next, SubmitStep, RecoveryStep, CancelStep,
    WorkerStep, Timers, vars, CreateBatchImageJob, SubmitReserve, SubmitItems,
    SubmitUpload, UpdateBatchImageJobProviderSubmit, SubmitEnqueue, SubmitRelease,
    RecordBatchImageJobSubmitFailure, SubmitEnqueueBillingRetry,
    TouchBatchImageJobSubmitting, Resubmit, FailStaleUnsubmittedBatchImageJob,
    RecoveryRelease, EnqueueReleaseRetry, CancelRead, CancelTransition, CancelRelease,
    CancelEnqueue, CancelDies, QueueReserve, TryAcquireJobLock, PipelineProcess,
    ProviderProcess, ProviderGet, ApplyProviderState, Index, Indexed, ReleaseTerminalHold,
    Settle, CaptureHold, MarkBatchImageJobSettled, RecordSettlementFailure,
    ReleaseExhausted, FailExhausted, Reread, RequeueAfter, Ack, ReleaseJobLock,
    WorkerDies, MoveDueDelayedToReady, RecoverStaleActive, LockExpires, GrowStale,
    MarkBatchImageOutputDeleted, SubmitDies, RecoveryDies

\* What the workers know keeps its type.
LEMMA WorkerKeepsType ==
    ASSUME JobType, UpstreamType, WorkerType, [Next]_vars
    PROVE  WorkerType'
<1>1. ASSUME NEW w \in Workers, QueueReserve(w) PROVE WorkerType'
  BY <1>1 DEF JobType, UpstreamType, WorkerType, UpstreamStates, WorkerIdle, WorkerBusy,
    Statuses, Terminal, Unsubmitted, Done, Charged, Ended, QueueReserve, Goto, At
<1>2. ASSUME NEW w \in Workers, TryAcquireJobLock(w) PROVE WorkerType'
  BY <1>2 DEF JobType, UpstreamType, WorkerType, UpstreamStates, WorkerIdle, WorkerBusy,
    Statuses, Terminal, Unsubmitted, Done, Charged, Ended, TryAcquireJobLock, Goto, At
<1>3. ASSUME NEW w \in Workers, PipelineProcess(w) PROVE WorkerType'
  BY <1>3 DEF JobType, UpstreamType, WorkerType, UpstreamStates, WorkerIdle, WorkerBusy,
    Statuses, Terminal, Unsubmitted, Done, Charged, Ended, PipelineProcess, Goto, At,
    ProcessFails
<1>4. ASSUME NEW w \in Workers, ProviderProcess(w) PROVE WorkerType'
  BY <1>4 DEF JobType, UpstreamType, WorkerType, UpstreamStates, WorkerIdle, WorkerBusy,
    Statuses, Terminal, Unsubmitted, Done, Charged, Ended, ProviderProcess, Goto, At,
    ProcessFails
<1>5. ASSUME NEW w \in Workers, ProviderGet(w) PROVE WorkerType'
  BY <1>5 DEF JobType, UpstreamType, WorkerType, UpstreamStates, WorkerIdle, WorkerBusy,
    Statuses, Terminal, Unsubmitted, Done, Charged, Ended, ProviderGet, Goto, At,
    ProcessFails
<1>6. ASSUME NEW w \in Workers, ApplyProviderState(w) PROVE WorkerType'
  BY <1>6 DEF JobType, UpstreamType, WorkerType, UpstreamStates, WorkerIdle, WorkerBusy,
    Statuses, Terminal, Unsubmitted, Done, Charged, Ended, ApplyProviderState, Goto, At,
    ProcessFails, TransitionBatchImageJobStatus, CanTransitionBatchImageJob, WithStatus,
    StatusFor, StepFor
<1>7. ASSUME NEW w \in Workers, Index(w) PROVE WorkerType'
  BY <1>7 DEF JobType, UpstreamType, WorkerType, UpstreamStates, WorkerIdle, WorkerBusy,
    Statuses, Terminal, Unsubmitted, Done, Charged, Ended, Index, Goto, At
<1>8. ASSUME NEW w \in Workers, Indexed(w) PROVE WorkerType'
  BY <1>8 DEF JobType, UpstreamType, WorkerType, UpstreamStates, WorkerIdle, WorkerBusy,
    Statuses, Terminal, Unsubmitted, Done, Charged, Ended, Indexed, Goto, At,
    ProcessFails, TransitionBatchImageJobStatus, CanTransitionBatchImageJob, WithStatus
<1>9. ASSUME NEW w \in Workers, ReleaseTerminalHold(w) PROVE WorkerType'
  BY <1>9 DEF JobType, UpstreamType, WorkerType, UpstreamStates, WorkerIdle, WorkerBusy,
    Statuses, Terminal, Unsubmitted, Done, Charged, Ended, ReleaseTerminalHold, Goto, At,
    ReleaseBatchImageBalance, Apply, ReleaseFails, ReleaseInsufficient
<1>10. ASSUME NEW w \in Workers, Settle(w) PROVE WorkerType'
  BY <1>10 DEF JobType, UpstreamType, WorkerType, UpstreamStates, WorkerIdle, WorkerBusy,
    Statuses, Terminal, Unsubmitted, Done, Charged, Ended, Settle, Goto, At, ProcessFails
<1>11. ASSUME NEW w \in Workers, CaptureHold(w) PROVE WorkerType'
  BY <1>11 DEF JobType, UpstreamType, WorkerType, UpstreamStates, WorkerIdle, WorkerBusy,
    Statuses, Terminal, Unsubmitted, Done, Charged, Ended, CaptureHold, Goto, At,
    CaptureBatchImageBalance, CaptureInsufficient, Apply
<1>12. ASSUME NEW w \in Workers, MarkBatchImageJobSettled(w) PROVE WorkerType'
  BY <1>12 DEF JobType, UpstreamType, WorkerType, UpstreamStates, WorkerIdle, WorkerBusy,
    Statuses, Terminal, Unsubmitted, Done, Charged, Ended, MarkBatchImageJobSettled, Goto,
    At, ProcessFails, WithStatus
<1>13. ASSUME NEW w \in Workers, RecordSettlementFailure(w) PROVE WorkerType'
  BY <1>13 DEF JobType, UpstreamType, WorkerType, UpstreamStates, WorkerIdle, WorkerBusy,
    Statuses, Terminal, Unsubmitted, Done, Charged, Ended, RecordSettlementFailure, Goto,
    At, CountedRetry
<1>14. ASSUME NEW w \in Workers, ReleaseExhausted(w) PROVE WorkerType'
  BY <1>14 DEF JobType, UpstreamType, WorkerType, UpstreamStates, WorkerIdle, WorkerBusy,
    Statuses, Terminal, Unsubmitted, Done, Charged, Ended, ReleaseExhausted, Goto, At,
    CountedRetry, ReleaseBatchImageBalance, Apply, ReleaseFails, ReleaseInsufficient
<1>15. ASSUME NEW w \in Workers, FailExhausted(w) PROVE WorkerType'
  BY <1>15 DEF JobType, UpstreamType, WorkerType, UpstreamStates, WorkerIdle, WorkerBusy,
    Statuses, Terminal, Unsubmitted, Done, Charged, Ended, FailExhausted, Goto, At,
    ProcessFails, TransitionBatchImageJobStatus, CanTransitionBatchImageJob, WithStatus
<1>16. ASSUME NEW w \in Workers, Reread(w) PROVE WorkerType'
  BY <1>16 DEF JobType, UpstreamType, WorkerType, UpstreamStates, WorkerIdle, WorkerBusy,
    Statuses, Terminal, Unsubmitted, Done, Charged, Ended, Reread, Goto, At, ProcessFails
<1>17. ASSUME NEW w \in Workers, RequeueAfter(w) PROVE WorkerType'
  BY <1>17 DEF JobType, UpstreamType, WorkerType, UpstreamStates, WorkerIdle, WorkerBusy,
    Statuses, Terminal, Unsubmitted, Done, Charged, Ended, RequeueAfter, Goto, At
<1>18. ASSUME NEW w \in Workers, Ack(w) PROVE WorkerType'
  BY <1>18 DEF JobType, UpstreamType, WorkerType, UpstreamStates, WorkerIdle, WorkerBusy,
    Statuses, Terminal, Unsubmitted, Done, Charged, Ended, Ack, Goto, At
<1>19. ASSUME NEW w \in Workers, ReleaseJobLock(w) PROVE WorkerType'
  BY <1>19 DEF JobType, UpstreamType, WorkerType, UpstreamStates, WorkerIdle, WorkerBusy,
    Statuses, Terminal, Unsubmitted, Done, Charged, Ended, ReleaseJobLock, Goto, At
<1>20. ASSUME NEW w \in Workers, WorkerDies(w) PROVE WorkerType'
  BY <1>20 DEF JobType, UpstreamType, WorkerType, UpstreamStates, WorkerIdle, WorkerBusy,
    Statuses, Terminal, Unsubmitted, Done, Charged, Ended, WorkerDies, Goto, At
<1>21. ASSUME UNCHANGED worker PROVE WorkerType'
  BY <1>21 DEF JobType, UpstreamType, WorkerType, UpstreamStates, WorkerIdle, WorkerBusy,
    Statuses, Terminal, Unsubmitted, Done, Charged, Ended
<1> QED
  BY <1>1, <1>2, <1>3, <1>4, <1>5, <1>6, <1>7, <1>8, <1>9, <1>10, <1>11, <1>12, <1>13,
    <1>14, <1>15, <1>16, <1>17, <1>18, <1>19, <1>20, <1>21 DEF Next, SubmitStep,
    RecoveryStep, CancelStep, WorkerStep, Timers, vars, CreateBatchImageJob,
    SubmitReserve, SubmitItems, SubmitUpload, SubmitProvider,
    UpdateBatchImageJobProviderSubmit, AbortOrphanProviderJob, SubmitEnqueue,
    SubmitRelease, RecordBatchImageJobSubmitFailure, SubmitEnqueueBillingRetry,
    TouchBatchImageJobSubmitting, Resubmit, FailStaleUnsubmittedBatchImageJob,
    RecoveryRelease, EnqueueReleaseRetry, CancelRead, CancelUpstream, CancelTransition,
    CancelRelease, CancelEnqueue, CancelDies, MoveDueDelayedToReady, RecoverStaleActive,
    LockExpires, GrowStale, UpstreamEnds, MarkBatchImageOutputDeleted, SubmitDies,
    RecoveryDies

\* So do the lock and the places of the requests.
LEMMA RestKeepsType ==
    ASSUME RestType, [Next]_vars
    PROVE  RestType'
<1>1. ASSUME CreateBatchImageJob PROVE RestType'
  BY <1>1 DEF RestType, SubmitSteps, CancelSteps, CreateBatchImageJob, WithStatus,
    SubmitTo
<1>2. ASSUME SubmitReserve PROVE RestType'
  BY <1>2 DEF RestType, SubmitSteps, CancelSteps, SubmitReserve, ReserveBatchImageBalance,
    Apply, SubmitTo
<1>3. ASSUME SubmitItems PROVE RestType'
  BY <1>3 DEF RestType, SubmitSteps, CancelSteps, SubmitItems, SubmitTo
<1>4. ASSUME SubmitUpload PROVE RestType'
  BY <1>4 DEF RestType, SubmitSteps, CancelSteps, SubmitUpload, SubmitTo,
    TransitionBatchImageJobStatus, CanTransitionBatchImageJob, WithStatus
<1>5. ASSUME SubmitProvider PROVE RestType'
  BY <1>5 DEF RestType, SubmitSteps, CancelSteps, SubmitProvider, SubmitTo
<1>6. ASSUME UpdateBatchImageJobProviderSubmit PROVE RestType'
  BY <1>6 DEF RestType, SubmitSteps, CancelSteps, UpdateBatchImageJobProviderSubmit,
    SubmitTo, CanTransitionBatchImageJob, WithStatus
<1>7. ASSUME AbortOrphanProviderJob PROVE RestType'
  BY <1>7 DEF RestType, SubmitSteps, CancelSteps, AbortOrphanProviderJob, SubmitTo,
    ProviderCancel
<1>8. ASSUME SubmitEnqueue PROVE RestType'
  BY <1>8 DEF RestType, SubmitSteps, CancelSteps, SubmitEnqueue, SubmitTo, Enqueue
<1>9. ASSUME SubmitRelease PROVE RestType'
  BY <1>9 DEF RestType, SubmitSteps, CancelSteps, SubmitRelease, SubmitTo,
    ReleaseBatchImageBalance, Apply, ReleaseFails, ReleaseInsufficient
<1>10. ASSUME RecordBatchImageJobSubmitFailure PROVE RestType'
  BY <1>10 DEF RestType, SubmitSteps, CancelSteps, RecordBatchImageJobSubmitFailure,
    SubmitTo, WithStatus
<1>11. ASSUME SubmitEnqueueBillingRetry PROVE RestType'
  BY <1>11 DEF RestType, SubmitSteps, CancelSteps, SubmitEnqueueBillingRetry, SubmitTo,
    Enqueue
<1>12. ASSUME FailStaleUnsubmittedBatchImageJob PROVE RestType'
  BY <1>12 DEF RestType, SubmitSteps, CancelSteps, FailStaleUnsubmittedBatchImageJob,
    WithStatus
<1>13. ASSUME RecoveryRelease PROVE RestType'
  BY <1>13 DEF RestType, SubmitSteps, CancelSteps, RecoveryRelease,
    ReleaseBatchImageBalance, Apply, ReleaseFails, ReleaseInsufficient
<1>14. ASSUME EnqueueReleaseRetry PROVE RestType'
  BY <1>14 DEF RestType, SubmitSteps, CancelSteps, EnqueueReleaseRetry, Enqueue
<1>15. ASSUME NEW c \in Cancellers, CancelRead(c) PROVE RestType'
  BY <1>15 DEF RestType, SubmitSteps, CancelSteps, CancelRead, CancelTo
<1>16. ASSUME NEW c \in Cancellers, CancelUpstream(c) PROVE RestType'
  BY <1>16 DEF RestType, SubmitSteps, CancelSteps, CancelUpstream, CancelTo,
    ProviderCancel
<1>17. ASSUME NEW c \in Cancellers, CancelTransition(c) PROVE RestType'
  BY <1>17 DEF RestType, SubmitSteps, CancelSteps, CancelTransition, CancelTo,
    TransitionBatchImageJobStatus, CanTransitionBatchImageJob, WithStatus
<1>18. ASSUME NEW c \in Cancellers, CancelRelease(c) PROVE RestType'
  BY <1>18 DEF RestType, SubmitSteps, CancelSteps, CancelRelease, CancelTo,
    ReleaseBatchImageBalance, Apply, ReleaseFails, ReleaseInsufficient
<1>19. ASSUME NEW c \in Cancellers, CancelEnqueue(c) PROVE RestType'
  BY <1>19 DEF RestType, SubmitSteps, CancelSteps, CancelEnqueue, CancelTo, Enqueue
<1>20. ASSUME NEW c \in Cancellers, CancelDies(c) PROVE RestType'
  BY <1>20 DEF RestType, SubmitSteps, CancelSteps, CancelDies, CancelTo
<1>21. ASSUME NEW w \in Workers, TryAcquireJobLock(w) PROVE RestType'
  BY <1>21 DEF RestType, SubmitSteps, CancelSteps, TryAcquireJobLock, Goto, At
<1>22. ASSUME NEW w \in Workers, ReleaseJobLock(w) PROVE RestType'
  BY <1>22 DEF RestType, SubmitSteps, CancelSteps, ReleaseJobLock, Goto, At
<1>23. ASSUME LockExpires PROVE RestType'
  BY <1>23 DEF RestType, SubmitSteps, CancelSteps, LockExpires
<1>24. ASSUME SubmitDies PROVE RestType'
  BY <1>24 DEF RestType, SubmitSteps, CancelSteps, SubmitDies, SubmitTo
<1>25. ASSUME RecoveryDies PROVE RestType'
  BY <1>25 DEF RestType, SubmitSteps, CancelSteps, RecoveryDies
<1>26. ASSUME UNCHANGED <<lock, submit, cancel, recovery>> PROVE RestType'
  BY <1>26 DEF RestType, SubmitSteps, CancelSteps
<1> QED
  BY <1>1, <1>2, <1>3, <1>4, <1>5, <1>6, <1>7, <1>8, <1>9, <1>10, <1>11, <1>12, <1>13,
    <1>14, <1>15, <1>16, <1>17, <1>18, <1>19, <1>20, <1>21, <1>22, <1>23, <1>24, <1>25,
    <1>26 DEF Next, SubmitStep, RecoveryStep, CancelStep, WorkerStep, Timers, vars,
    TouchBatchImageJobSubmitting, Resubmit, QueueReserve, PipelineProcess,
    ProviderProcess, ProviderGet, ApplyProviderState, Index, Indexed, ReleaseTerminalHold,
    Settle, CaptureHold, MarkBatchImageJobSettled, RecordSettlementFailure,
    ReleaseExhausted, FailExhausted, Reread, RequeueAfter, Ack, WorkerDies,
    MoveDueDelayedToReady, RecoverStaleActive, GrowStale, UpstreamEnds,
    MarkBatchImageOutputDeleted

-----------------------------------------------------------------------------
(* The row, the ledger and the provider *)

\* A request id is claimed in the transaction that moves the money.
LEMMA ClaimsKeep ==
    ASSUME LedgerType, ClaimsInv, SubmitInv, UpstreamInv, [Next]_vars
    PROVE  ClaimsInv'
<1>1. ASSUME SubmitReserve PROVE ClaimsInv'
  BY <1>1 DEF LedgerType, ClaimsInv, SubmitInv, UpstreamInv, PC, WorkerIdle, WorkerBusy,
    Provider, Spent, Has, Did, SubmitReserve, ReserveBatchImageBalance, Apply, SubmitTo
<1>2. ASSUME SubmitRelease PROVE ClaimsInv'
  BY <1>2 DEF LedgerType, ClaimsInv, SubmitInv, UpstreamInv, PC, WorkerIdle, WorkerBusy,
    Provider, Spent, Has, Did, SubmitRelease, SubmitTo, ReleaseBatchImageBalance, Apply,
    ReleaseFails, ReleaseInsufficient
<1>3. ASSUME RecoveryRelease PROVE ClaimsInv'
  BY <1>3 DEF LedgerType, ClaimsInv, SubmitInv, UpstreamInv, PC, WorkerIdle, WorkerBusy,
    Provider, Spent, Has, Did, RecoveryRelease, ReleaseBatchImageBalance, Apply,
    ReleaseFails, ReleaseInsufficient
<1>4. ASSUME NEW c \in Cancellers, CancelRelease(c) PROVE ClaimsInv'
  BY <1>4 DEF LedgerType, ClaimsInv, SubmitInv, UpstreamInv, PC, WorkerIdle, WorkerBusy,
    Provider, Spent, Has, Did, CancelRelease, CancelTo, ReleaseBatchImageBalance, Apply,
    ReleaseFails, ReleaseInsufficient
<1>5. ASSUME NEW w \in Workers, ReleaseTerminalHold(w) PROVE ClaimsInv'
  BY <1>5 DEF LedgerType, ClaimsInv, SubmitInv, UpstreamInv, PC, WorkerIdle, WorkerBusy,
    Provider, Spent, Has, Did, ReleaseTerminalHold, Goto, At, ReleaseBatchImageBalance,
    Apply, ReleaseFails, ReleaseInsufficient
<1>6. ASSUME NEW w \in Workers, CaptureHold(w) PROVE ClaimsInv'
  BY <1>6 DEF LedgerType, ClaimsInv, SubmitInv, UpstreamInv, PC, WorkerIdle, WorkerBusy,
    Provider, Spent, Has, Did, CaptureHold, Goto, At, CaptureBatchImageBalance,
    CaptureInsufficient, Apply
<1>7. ASSUME NEW w \in Workers, ReleaseExhausted(w) PROVE ClaimsInv'
  BY <1>7 DEF LedgerType, ClaimsInv, SubmitInv, UpstreamInv, PC, WorkerIdle, WorkerBusy,
    Provider, Spent, Has, Did, ReleaseExhausted, Goto, At, CountedRetry,
    ReleaseBatchImageBalance, Apply, ReleaseFails, ReleaseInsufficient
<1>8. ASSUME UNCHANGED ledger PROVE ClaimsInv'
  BY <1>8 DEF LedgerType, ClaimsInv, SubmitInv, UpstreamInv, PC, WorkerIdle, WorkerBusy,
    Provider, Spent, Has, Did
<1> QED
  BY <1>1, <1>2, <1>3, <1>4, <1>5, <1>6, <1>7, <1>8 DEF Next, SubmitStep, RecoveryStep,
    CancelStep, WorkerStep, Timers, vars, CreateBatchImageJob, SubmitItems, SubmitUpload,
    SubmitProvider, UpdateBatchImageJobProviderSubmit, AbortOrphanProviderJob,
    SubmitEnqueue, RecordBatchImageJobSubmitFailure, SubmitEnqueueBillingRetry,
    TouchBatchImageJobSubmitting, Resubmit, FailStaleUnsubmittedBatchImageJob,
    EnqueueReleaseRetry, CancelRead, CancelUpstream, CancelTransition, CancelEnqueue,
    CancelDies, QueueReserve, TryAcquireJobLock, PipelineProcess, ProviderProcess,
    ProviderGet, ApplyProviderState, Index, Indexed, Settle, MarkBatchImageJobSettled,
    RecordSettlementFailure, FailExhausted, Reread, RequeueAfter, Ack, ReleaseJobLock,
    WorkerDies, MoveDueDelayedToReady, RecoverStaleActive, LockExpires, GrowStale,
    UpstreamEnds, MarkBatchImageOutputDeleted, SubmitDies, RecoveryDies

\* The row follows the Submit request until the provider has the job.
LEMMA SubmitKeeps ==
    ASSUME JobType, LedgerType, SubmitInv, ClaimsInv, UpstreamInv, KnownInv, RestType,
           WorkerType, [Next]_vars
    PROVE  SubmitInv'
<1>1. ASSUME CreateBatchImageJob PROVE SubmitInv'
  BY <1>1 DEF JobType, LedgerType, SubmitInv, ClaimsInv, UpstreamInv, KnownInv, PC,
    Provider, Spent, Has, Did, Terminal, Unsubmitted, Done, Charged, Ended, Early, Owing,
    SubmitEnded, CreateBatchImageJob, WithStatus, SubmitTo
<1>2. ASSUME SubmitReserve PROVE SubmitInv'
  BY <1>2 DEF JobType, LedgerType, SubmitInv, ClaimsInv, UpstreamInv, KnownInv, PC,
    Provider, Spent, Has, Did, Terminal, Unsubmitted, Done, Charged, Ended, Early, Owing,
    SubmitEnded, SubmitReserve, ReserveBatchImageBalance, Apply, SubmitTo
<1>3. ASSUME SubmitItems PROVE SubmitInv'
  BY <1>3 DEF JobType, LedgerType, SubmitInv, ClaimsInv, UpstreamInv, KnownInv, PC,
    Provider, Spent, Has, Did, Terminal, Unsubmitted, Done, Charged, Ended, Early, Owing,
    SubmitEnded, SubmitItems, SubmitTo
<1>4. ASSUME SubmitUpload PROVE SubmitInv'
  BY <1>4, UploadMoves DEF JobType, LedgerType, SubmitInv, ClaimsInv, UpstreamInv,
    KnownInv, PC, Provider, Spent, Has, Did, Terminal, Unsubmitted, Done, Charged, Ended,
    Early, Owing, SubmitEnded, JobTo, WorkerTo
<1>5. ASSUME SubmitProvider PROVE SubmitInv'
  BY <1>5 DEF JobType, LedgerType, SubmitInv, ClaimsInv, UpstreamInv, KnownInv, PC,
    Provider, Spent, Has, Did, Terminal, Unsubmitted, Done, Charged, Ended, Early, Owing,
    SubmitEnded, SubmitProvider, SubmitTo
<1>6. ASSUME UpdateBatchImageJobProviderSubmit PROVE SubmitInv'
  BY <1>6, UpdateMoves DEF JobType, LedgerType, SubmitInv, ClaimsInv, UpstreamInv,
    KnownInv, PC, Provider, Spent, Has, Did, Terminal, Unsubmitted, Done, Charged, Ended,
    Early, Owing, SubmitEnded, JobTo, WorkerTo
<1>7. ASSUME AbortOrphanProviderJob PROVE SubmitInv'
  BY <1>7 DEF JobType, LedgerType, SubmitInv, ClaimsInv, UpstreamInv, KnownInv, PC,
    Provider, Spent, Has, Did, Terminal, Unsubmitted, Done, Charged, Ended, Early, Owing,
    SubmitEnded, AbortOrphanProviderJob, SubmitTo, ProviderCancel
<1>8. ASSUME SubmitEnqueue PROVE SubmitInv'
  BY <1>8 DEF JobType, LedgerType, SubmitInv, ClaimsInv, UpstreamInv, KnownInv, PC,
    Provider, Spent, Has, Did, Terminal, Unsubmitted, Done, Charged, Ended, Early, Owing,
    SubmitEnded, SubmitEnqueue, SubmitTo, Enqueue
<1>9. ASSUME SubmitRelease PROVE SubmitInv'
  BY <1>9 DEF JobType, LedgerType, SubmitInv, ClaimsInv, UpstreamInv, KnownInv, PC,
    Provider, Spent, Has, Did, Terminal, Unsubmitted, Done, Charged, Ended, Early, Owing,
    SubmitEnded, SubmitRelease, SubmitTo, ReleaseBatchImageBalance, Apply, ReleaseFails,
    ReleaseInsufficient
<1>10. ASSUME RecordBatchImageJobSubmitFailure PROVE SubmitInv'
  BY <1>10, FailureMoves DEF JobType, LedgerType, SubmitInv, ClaimsInv, UpstreamInv,
    KnownInv, PC, Provider, Spent, Has, Did, Terminal, Unsubmitted, Done, Charged, Ended,
    Early, Owing, SubmitEnded, JobTo, WorkerTo
<1>11. ASSUME SubmitEnqueueBillingRetry PROVE SubmitInv'
  BY <1>11 DEF JobType, LedgerType, SubmitInv, ClaimsInv, UpstreamInv, KnownInv, PC,
    Provider, Spent, Has, Did, Terminal, Unsubmitted, Done, Charged, Ended, Early, Owing,
    SubmitEnded, SubmitEnqueueBillingRetry, SubmitTo, Enqueue
<1>12. ASSUME TouchBatchImageJobSubmitting PROVE SubmitInv'
  BY <1>12 DEF JobType, LedgerType, SubmitInv, ClaimsInv, UpstreamInv, KnownInv, PC,
    Provider, Spent, Has, Did, Terminal, Unsubmitted, Done, Charged, Ended, Early, Owing,
    SubmitEnded, TouchBatchImageJobSubmitting
<1>13. ASSUME FailStaleUnsubmittedBatchImageJob PROVE SubmitInv'
  BY <1>13 DEF JobType, LedgerType, SubmitInv, ClaimsInv, UpstreamInv, KnownInv, PC,
    Provider, Spent, Has, Did, Terminal, Unsubmitted, Done, Charged, Ended, Early, Owing,
    SubmitEnded, FailStaleUnsubmittedBatchImageJob, WithStatus
<1>14. ASSUME RecoveryRelease PROVE SubmitInv'
  BY <1>14 DEF JobType, LedgerType, SubmitInv, ClaimsInv, UpstreamInv, KnownInv, PC,
    Provider, Spent, Has, Did, Terminal, Unsubmitted, Done, Charged, Ended, Early, Owing,
    SubmitEnded, RecoveryRelease, ReleaseBatchImageBalance, Apply, ReleaseFails,
    ReleaseInsufficient
<1>15. ASSUME NEW c \in Cancellers, CancelTransition(c) PROVE SubmitInv'
  BY <1>15, CancelTransitionMoves DEF JobType, LedgerType, SubmitInv, ClaimsInv,
    UpstreamInv, KnownInv, PC, Provider, Spent, Has, Did, Terminal, Unsubmitted, Done,
    Charged, Ended, Early, Owing, SubmitEnded, JobTo, WorkerTo
<1>16. ASSUME NEW c \in Cancellers, CancelRelease(c) PROVE SubmitInv'
  BY <1>16 DEF JobType, LedgerType, SubmitInv, ClaimsInv, UpstreamInv, KnownInv, PC,
    Provider, Spent, Has, Did, Terminal, Unsubmitted, Done, Charged, Ended, Early, Owing,
    SubmitEnded, CancelRelease, CancelTo, ReleaseBatchImageBalance, Apply, ReleaseFails,
    ReleaseInsufficient
<1>17. ASSUME NEW w \in Workers, ApplyProviderState(w) PROVE SubmitInv'
  BY <1>17, ApplyMoves DEF JobType, LedgerType, SubmitInv, ClaimsInv, UpstreamInv,
    KnownInv, PC, Provider, Spent, Has, Did, Terminal, Unsubmitted, Done, Charged, Ended,
    Early, Owing, SubmitEnded, JobTo, WorkerTo
<1>18. ASSUME NEW w \in Workers, Index(w) PROVE SubmitInv'
  BY <1>18 DEF JobType, LedgerType, SubmitInv, ClaimsInv, UpstreamInv, KnownInv, PC,
    Provider, Spent, Has, Did, Terminal, Unsubmitted, Done, Charged, Ended, Early, Owing,
    SubmitEnded, Index, Goto, At
<1>19. ASSUME NEW w \in Workers, Indexed(w) PROVE SubmitInv'
  BY <1>19, IndexedMoves DEF JobType, LedgerType, SubmitInv, ClaimsInv, UpstreamInv,
    KnownInv, PC, Provider, Spent, Has, Did, Terminal, Unsubmitted, Done, Charged, Ended,
    Early, Owing, SubmitEnded, JobTo, WorkerTo
<1>20. ASSUME NEW w \in Workers, ReleaseTerminalHold(w) PROVE SubmitInv'
  BY <1>20 DEF JobType, LedgerType, SubmitInv, ClaimsInv, UpstreamInv, KnownInv, PC,
    Provider, Spent, Has, Did, Terminal, Unsubmitted, Done, Charged, Ended, Early, Owing,
    SubmitEnded, ReleaseTerminalHold, Goto, At, ReleaseBatchImageBalance, Apply,
    ReleaseFails, ReleaseInsufficient
<1>21. ASSUME NEW w \in Workers, CaptureHold(w) PROVE SubmitInv'
  BY <1>21 DEF JobType, LedgerType, SubmitInv, ClaimsInv, UpstreamInv, KnownInv, PC,
    Provider, Spent, Has, Did, Terminal, Unsubmitted, Done, Charged, Ended, Early, Owing,
    SubmitEnded, CaptureHold, Goto, At, CaptureBatchImageBalance, CaptureInsufficient,
    Apply
<1>22. ASSUME NEW w \in Workers, MarkBatchImageJobSettled(w) PROVE SubmitInv'
  BY <1>22, MarkMoves DEF JobType, LedgerType, SubmitInv, ClaimsInv, UpstreamInv, KnownInv,
    PC, Provider, Spent, Has, Did, Terminal, Unsubmitted, Done, Charged, Ended, Early,
    Owing, SubmitEnded, JobTo, WorkerTo
<1>23. ASSUME NEW w \in Workers, RecordSettlementFailure(w) PROVE SubmitInv'
  BY <1>23 DEF JobType, LedgerType, SubmitInv, ClaimsInv, UpstreamInv, KnownInv, PC,
    Provider, Spent, Has, Did, Terminal, Unsubmitted, Done, Charged, Ended, Early, Owing,
    SubmitEnded, RecordSettlementFailure, Goto, At, CountedRetry
<1>24. ASSUME NEW w \in Workers, ReleaseExhausted(w) PROVE SubmitInv'
  BY <1>24 DEF JobType, LedgerType, SubmitInv, ClaimsInv, UpstreamInv, KnownInv, PC,
    Provider, Spent, Has, Did, Terminal, Unsubmitted, Done, Charged, Ended, Early, Owing,
    SubmitEnded, ReleaseExhausted, Goto, At, CountedRetry, ReleaseBatchImageBalance,
    Apply, ReleaseFails, ReleaseInsufficient
<1>25. ASSUME NEW w \in Workers, FailExhausted(w) PROVE SubmitInv'
  BY <1>25, FailExhaustedMoves DEF JobType, LedgerType, SubmitInv, ClaimsInv, UpstreamInv,
    KnownInv, PC, Provider, Spent, Has, Did, Terminal, Unsubmitted, Done, Charged, Ended,
    Early, Owing, SubmitEnded, JobTo, WorkerTo
<1>26. ASSUME GrowStale PROVE SubmitInv'
  BY <1>26 DEF JobType, LedgerType, SubmitInv, ClaimsInv, UpstreamInv, KnownInv, PC,
    Provider, Spent, Has, Did, Terminal, Unsubmitted, Done, Charged, Ended, Early, Owing,
    SubmitEnded, GrowStale
<1>27. ASSUME MarkBatchImageOutputDeleted PROVE SubmitInv'
  BY <1>27 DEF JobType, LedgerType, SubmitInv, ClaimsInv, UpstreamInv, KnownInv, PC,
    Provider, Spent, Has, Did, Terminal, Unsubmitted, Done, Charged, Ended, Early, Owing,
    SubmitEnded, MarkBatchImageOutputDeleted, WithStatus
<1>28. ASSUME SubmitDies PROVE SubmitInv'
  BY <1>28 DEF JobType, LedgerType, SubmitInv, ClaimsInv, UpstreamInv, KnownInv, PC,
    Provider, Spent, Has, Did, Terminal, Unsubmitted, Done, Charged, Ended, Early, Owing,
    SubmitEnded, SubmitDies, SubmitTo
<1>29. ASSUME UNCHANGED <<job, ledger, submit>> PROVE SubmitInv'
  BY <1>29 DEF JobType, LedgerType, SubmitInv, ClaimsInv, UpstreamInv, KnownInv, PC,
    Provider, Spent, Has, Did, Terminal, Unsubmitted, Done, Charged, Ended, Early, Owing,
    SubmitEnded
<1> QED
  BY <1>1, <1>2, <1>3, <1>4, <1>5, <1>6, <1>7, <1>8, <1>9, <1>10, <1>11, <1>12, <1>13,
    <1>14, <1>15, <1>16, <1>17, <1>18, <1>19, <1>20, <1>21, <1>22, <1>23, <1>24, <1>25,
    <1>26, <1>27, <1>28, <1>29 DEF Next, SubmitStep, RecoveryStep, CancelStep, WorkerStep,
    Timers, vars, Resubmit, EnqueueReleaseRetry, CancelRead, CancelUpstream,
    CancelEnqueue, CancelDies, QueueReserve, TryAcquireJobLock, PipelineProcess,
    ProviderProcess, ProviderGet, Settle, Reread, RequeueAfter, Ack, ReleaseJobLock,
    WorkerDies, MoveDueDelayedToReady, RecoverStaleActive, LockExpires, UpstreamEnds,
    RecoveryDies

\* Nothing but the end of the provider's job takes the row past running.
LEMMA UpstreamKeeps ==
    ASSUME JobType, UpstreamType, WorkerType, SubmitInv, UpstreamInv, RestType,
           [Next]_vars
    PROVE  UpstreamInv'
<1>1. ASSUME CreateBatchImageJob PROVE UpstreamInv'
  BY <1>1 DEF JobType, UpstreamType, WorkerType, SubmitInv, UpstreamInv, PC, WorkerIdle,
    WorkerBusy, Provider, Terminal, Unsubmitted, Done, Charged, Ended, Early, Owing,
    SubmitEnded, CreateBatchImageJob, WithStatus, SubmitTo
<1>2. ASSUME SubmitReserve PROVE UpstreamInv'
  BY <1>2 DEF JobType, UpstreamType, WorkerType, SubmitInv, UpstreamInv, PC, WorkerIdle,
    WorkerBusy, Provider, Terminal, Unsubmitted, Done, Charged, Ended, Early, Owing,
    SubmitEnded, SubmitReserve, ReserveBatchImageBalance, Apply, SubmitTo
<1>3. ASSUME SubmitItems PROVE UpstreamInv'
  BY <1>3 DEF JobType, UpstreamType, WorkerType, SubmitInv, UpstreamInv, PC, WorkerIdle,
    WorkerBusy, Provider, Terminal, Unsubmitted, Done, Charged, Ended, Early, Owing,
    SubmitEnded, SubmitItems, SubmitTo
<1>4. ASSUME SubmitUpload PROVE UpstreamInv'
  BY <1>4, UploadMoves DEF JobType, UpstreamType, WorkerType, SubmitInv, UpstreamInv, PC,
    WorkerIdle, WorkerBusy, Provider, Terminal, Unsubmitted, Done, Charged, Ended, Early,
    Owing, SubmitEnded, JobTo, WorkerTo
<1>5. ASSUME SubmitProvider PROVE UpstreamInv'
  BY <1>5 DEF JobType, UpstreamType, WorkerType, SubmitInv, UpstreamInv, PC, WorkerIdle,
    WorkerBusy, Provider, Terminal, Unsubmitted, Done, Charged, Ended, Early, Owing,
    SubmitEnded, SubmitProvider, SubmitTo
<1>6. ASSUME UpdateBatchImageJobProviderSubmit PROVE UpstreamInv'
  BY <1>6, UpdateMoves DEF JobType, UpstreamType, WorkerType, SubmitInv, UpstreamInv, PC,
    WorkerIdle, WorkerBusy, Provider, Terminal, Unsubmitted, Done, Charged, Ended, Early,
    Owing, SubmitEnded, JobTo, WorkerTo
<1>7. ASSUME AbortOrphanProviderJob PROVE UpstreamInv'
  BY <1>7 DEF JobType, UpstreamType, WorkerType, SubmitInv, UpstreamInv, PC, WorkerIdle,
    WorkerBusy, Provider, Terminal, Unsubmitted, Done, Charged, Ended, Early, Owing,
    SubmitEnded, AbortOrphanProviderJob, SubmitTo, ProviderCancel
<1>8. ASSUME SubmitEnqueue PROVE UpstreamInv'
  BY <1>8 DEF JobType, UpstreamType, WorkerType, SubmitInv, UpstreamInv, PC, WorkerIdle,
    WorkerBusy, Provider, Terminal, Unsubmitted, Done, Charged, Ended, Early, Owing,
    SubmitEnded, SubmitEnqueue, SubmitTo, Enqueue
<1>9. ASSUME SubmitRelease PROVE UpstreamInv'
  BY <1>9 DEF JobType, UpstreamType, WorkerType, SubmitInv, UpstreamInv, PC, WorkerIdle,
    WorkerBusy, Provider, Terminal, Unsubmitted, Done, Charged, Ended, Early, Owing,
    SubmitEnded, SubmitRelease, SubmitTo, ReleaseBatchImageBalance, Apply, ReleaseFails,
    ReleaseInsufficient
<1>10. ASSUME RecordBatchImageJobSubmitFailure PROVE UpstreamInv'
  BY <1>10, FailureMoves DEF JobType, UpstreamType, WorkerType, SubmitInv, UpstreamInv, PC,
    WorkerIdle, WorkerBusy, Provider, Terminal, Unsubmitted, Done, Charged, Ended, Early,
    Owing, SubmitEnded, JobTo, WorkerTo
<1>11. ASSUME SubmitEnqueueBillingRetry PROVE UpstreamInv'
  BY <1>11 DEF JobType, UpstreamType, WorkerType, SubmitInv, UpstreamInv, PC, WorkerIdle,
    WorkerBusy, Provider, Terminal, Unsubmitted, Done, Charged, Ended, Early, Owing,
    SubmitEnded, SubmitEnqueueBillingRetry, SubmitTo, Enqueue
<1>12. ASSUME TouchBatchImageJobSubmitting PROVE UpstreamInv'
  BY <1>12 DEF JobType, UpstreamType, WorkerType, SubmitInv, UpstreamInv, PC, WorkerIdle,
    WorkerBusy, Provider, Terminal, Unsubmitted, Done, Charged, Ended, Early, Owing,
    SubmitEnded, TouchBatchImageJobSubmitting
<1>13. ASSUME FailStaleUnsubmittedBatchImageJob PROVE UpstreamInv'
  BY <1>13 DEF JobType, UpstreamType, WorkerType, SubmitInv, UpstreamInv, PC, WorkerIdle,
    WorkerBusy, Provider, Terminal, Unsubmitted, Done, Charged, Ended, Early, Owing,
    SubmitEnded, FailStaleUnsubmittedBatchImageJob, WithStatus
<1>14. ASSUME NEW c \in Cancellers, CancelUpstream(c) PROVE UpstreamInv'
  BY <1>14 DEF JobType, UpstreamType, WorkerType, SubmitInv, UpstreamInv, PC, WorkerIdle,
    WorkerBusy, Provider, Terminal, Unsubmitted, Done, Charged, Ended, Early, Owing,
    SubmitEnded, CancelUpstream, CancelTo, ProviderCancel
<1>15. ASSUME NEW c \in Cancellers, CancelTransition(c) PROVE UpstreamInv'
  BY <1>15, CancelTransitionMoves DEF JobType, UpstreamType, WorkerType, SubmitInv,
    UpstreamInv, PC, WorkerIdle, WorkerBusy, Provider, Terminal, Unsubmitted, Done,
    Charged, Ended, Early, Owing, SubmitEnded, JobTo, WorkerTo
<1>16. ASSUME NEW w \in Workers, QueueReserve(w) PROVE UpstreamInv'
  BY <1>16 DEF JobType, UpstreamType, WorkerType, SubmitInv, UpstreamInv, PC, WorkerIdle,
    WorkerBusy, Provider, Terminal, Unsubmitted, Done, Charged, Ended, Early, Owing,
    SubmitEnded, QueueReserve, Goto, At
<1>17. ASSUME NEW w \in Workers, TryAcquireJobLock(w) PROVE UpstreamInv'
  BY <1>17 DEF JobType, UpstreamType, WorkerType, SubmitInv, UpstreamInv, PC, WorkerIdle,
    WorkerBusy, Provider, Terminal, Unsubmitted, Done, Charged, Ended, Early, Owing,
    SubmitEnded, TryAcquireJobLock, Goto, At
<1>18. ASSUME NEW w \in Workers, PipelineProcess(w) PROVE UpstreamInv'
  BY <1>18 DEF JobType, UpstreamType, WorkerType, SubmitInv, UpstreamInv, PC, WorkerIdle,
    WorkerBusy, Provider, Terminal, Unsubmitted, Done, Charged, Ended, Early, Owing,
    SubmitEnded, PipelineProcess, Goto, At, ProcessFails
<1>19. ASSUME NEW w \in Workers, ProviderProcess(w) PROVE UpstreamInv'
  BY <1>19 DEF JobType, UpstreamType, WorkerType, SubmitInv, UpstreamInv, PC, WorkerIdle,
    WorkerBusy, Provider, Terminal, Unsubmitted, Done, Charged, Ended, Early, Owing,
    SubmitEnded, ProviderProcess, Goto, At, ProcessFails
<1>20. ASSUME NEW w \in Workers, ProviderGet(w) PROVE UpstreamInv'
  BY <1>20 DEF JobType, UpstreamType, WorkerType, SubmitInv, UpstreamInv, PC, WorkerIdle,
    WorkerBusy, Provider, Terminal, Unsubmitted, Done, Charged, Ended, Early, Owing,
    SubmitEnded, ProviderGet, Goto, At, ProcessFails
<1>21. ASSUME NEW w \in Workers, ApplyProviderState(w) PROVE UpstreamInv'
  BY <1>21, ApplyMoves DEF JobType, UpstreamType, WorkerType, SubmitInv, UpstreamInv, PC,
    WorkerIdle, WorkerBusy, Provider, Terminal, Unsubmitted, Done, Charged, Ended, Early,
    Owing, SubmitEnded, JobTo, WorkerTo
<1>22. ASSUME NEW w \in Workers, Index(w) PROVE UpstreamInv'
  BY <1>22 DEF JobType, UpstreamType, WorkerType, SubmitInv, UpstreamInv, PC, WorkerIdle,
    WorkerBusy, Provider, Terminal, Unsubmitted, Done, Charged, Ended, Early, Owing,
    SubmitEnded, Index, Goto, At
<1>23. ASSUME NEW w \in Workers, Indexed(w) PROVE UpstreamInv'
  BY <1>23, IndexedMoves DEF JobType, UpstreamType, WorkerType, SubmitInv, UpstreamInv, PC,
    WorkerIdle, WorkerBusy, Provider, Terminal, Unsubmitted, Done, Charged, Ended, Early,
    Owing, SubmitEnded, JobTo, WorkerTo
<1>24. ASSUME NEW w \in Workers, ReleaseTerminalHold(w) PROVE UpstreamInv'
  BY <1>24 DEF JobType, UpstreamType, WorkerType, SubmitInv, UpstreamInv, PC, WorkerIdle,
    WorkerBusy, Provider, Terminal, Unsubmitted, Done, Charged, Ended, Early, Owing,
    SubmitEnded, ReleaseTerminalHold, Goto, At, ReleaseBatchImageBalance, Apply,
    ReleaseFails, ReleaseInsufficient
<1>25. ASSUME NEW w \in Workers, Settle(w) PROVE UpstreamInv'
  BY <1>25 DEF JobType, UpstreamType, WorkerType, SubmitInv, UpstreamInv, PC, WorkerIdle,
    WorkerBusy, Provider, Terminal, Unsubmitted, Done, Charged, Ended, Early, Owing,
    SubmitEnded, Settle, Goto, At, ProcessFails
<1>26. ASSUME NEW w \in Workers, CaptureHold(w) PROVE UpstreamInv'
  BY <1>26 DEF JobType, UpstreamType, WorkerType, SubmitInv, UpstreamInv, PC, WorkerIdle,
    WorkerBusy, Provider, Terminal, Unsubmitted, Done, Charged, Ended, Early, Owing,
    SubmitEnded, CaptureHold, Goto, At, CaptureBatchImageBalance, CaptureInsufficient,
    Apply
<1>27. ASSUME NEW w \in Workers, MarkBatchImageJobSettled(w) PROVE UpstreamInv'
  BY <1>27, MarkMoves DEF JobType, UpstreamType, WorkerType, SubmitInv, UpstreamInv, PC,
    WorkerIdle, WorkerBusy, Provider, Terminal, Unsubmitted, Done, Charged, Ended, Early,
    Owing, SubmitEnded, JobTo, WorkerTo
<1>28. ASSUME NEW w \in Workers, RecordSettlementFailure(w) PROVE UpstreamInv'
  BY <1>28 DEF JobType, UpstreamType, WorkerType, SubmitInv, UpstreamInv, PC, WorkerIdle,
    WorkerBusy, Provider, Terminal, Unsubmitted, Done, Charged, Ended, Early, Owing,
    SubmitEnded, RecordSettlementFailure, Goto, At, CountedRetry
<1>29. ASSUME NEW w \in Workers, ReleaseExhausted(w) PROVE UpstreamInv'
  BY <1>29 DEF JobType, UpstreamType, WorkerType, SubmitInv, UpstreamInv, PC, WorkerIdle,
    WorkerBusy, Provider, Terminal, Unsubmitted, Done, Charged, Ended, Early, Owing,
    SubmitEnded, ReleaseExhausted, Goto, At, CountedRetry, ReleaseBatchImageBalance,
    Apply, ReleaseFails, ReleaseInsufficient
<1>30. ASSUME NEW w \in Workers, FailExhausted(w) PROVE UpstreamInv'
  BY <1>30, FailExhaustedMoves DEF JobType, UpstreamType, WorkerType, SubmitInv,
    UpstreamInv, PC, WorkerIdle, WorkerBusy, Provider, Terminal, Unsubmitted, Done,
    Charged, Ended, Early, Owing, SubmitEnded, JobTo, WorkerTo
<1>31. ASSUME NEW w \in Workers, Reread(w) PROVE UpstreamInv'
  BY <1>31 DEF JobType, UpstreamType, WorkerType, SubmitInv, UpstreamInv, PC, WorkerIdle,
    WorkerBusy, Provider, Terminal, Unsubmitted, Done, Charged, Ended, Early, Owing,
    SubmitEnded, Reread, Goto, At, ProcessFails
<1>32. ASSUME NEW w \in Workers, RequeueAfter(w) PROVE UpstreamInv'
  BY <1>32 DEF JobType, UpstreamType, WorkerType, SubmitInv, UpstreamInv, PC, WorkerIdle,
    WorkerBusy, Provider, Terminal, Unsubmitted, Done, Charged, Ended, Early, Owing,
    SubmitEnded, RequeueAfter, Goto, At
<1>33. ASSUME NEW w \in Workers, Ack(w) PROVE UpstreamInv'
  BY <1>33 DEF JobType, UpstreamType, WorkerType, SubmitInv, UpstreamInv, PC, WorkerIdle,
    WorkerBusy, Provider, Terminal, Unsubmitted, Done, Charged, Ended, Early, Owing,
    SubmitEnded, Ack, Goto, At
<1>34. ASSUME NEW w \in Workers, ReleaseJobLock(w) PROVE UpstreamInv'
  BY <1>34 DEF JobType, UpstreamType, WorkerType, SubmitInv, UpstreamInv, PC, WorkerIdle,
    WorkerBusy, Provider, Terminal, Unsubmitted, Done, Charged, Ended, Early, Owing,
    SubmitEnded, ReleaseJobLock, Goto, At
<1>35. ASSUME NEW w \in Workers, WorkerDies(w) PROVE UpstreamInv'
  BY <1>35 DEF JobType, UpstreamType, WorkerType, SubmitInv, UpstreamInv, PC, WorkerIdle,
    WorkerBusy, Provider, Terminal, Unsubmitted, Done, Charged, Ended, Early, Owing,
    SubmitEnded, WorkerDies, Goto, At
<1>36. ASSUME GrowStale PROVE UpstreamInv'
  BY <1>36 DEF JobType, UpstreamType, WorkerType, SubmitInv, UpstreamInv, PC, WorkerIdle,
    WorkerBusy, Provider, Terminal, Unsubmitted, Done, Charged, Ended, Early, Owing,
    SubmitEnded, GrowStale
<1>37. ASSUME UpstreamEnds PROVE UpstreamInv'
  BY <1>37 DEF JobType, UpstreamType, WorkerType, SubmitInv, UpstreamInv, PC, WorkerIdle,
    WorkerBusy, Provider, Terminal, Unsubmitted, Done, Charged, Ended, Early, Owing,
    SubmitEnded, UpstreamEnds
<1>38. ASSUME MarkBatchImageOutputDeleted PROVE UpstreamInv'
  BY <1>38 DEF JobType, UpstreamType, WorkerType, SubmitInv, UpstreamInv, PC, WorkerIdle,
    WorkerBusy, Provider, Terminal, Unsubmitted, Done, Charged, Ended, Early, Owing,
    SubmitEnded, MarkBatchImageOutputDeleted, WithStatus
<1>39. ASSUME SubmitDies PROVE UpstreamInv'
  BY <1>39 DEF JobType, UpstreamType, WorkerType, SubmitInv, UpstreamInv, PC, WorkerIdle,
    WorkerBusy, Provider, Terminal, Unsubmitted, Done, Charged, Ended, Early, Owing,
    SubmitEnded, SubmitDies, SubmitTo
<1>40. ASSUME UNCHANGED <<submit, job, upstream, worker>> PROVE UpstreamInv'
  BY <1>40 DEF JobType, UpstreamType, WorkerType, SubmitInv, UpstreamInv, PC, WorkerIdle,
    WorkerBusy, Provider, Terminal, Unsubmitted, Done, Charged, Ended, Early, Owing,
    SubmitEnded
<1> QED
  BY <1>1, <1>2, <1>3, <1>4, <1>5, <1>6, <1>7, <1>8, <1>9, <1>10, <1>11, <1>12, <1>13,
    <1>14, <1>15, <1>16, <1>17, <1>18, <1>19, <1>20, <1>21, <1>22, <1>23, <1>24, <1>25,
    <1>26, <1>27, <1>28, <1>29, <1>30, <1>31, <1>32, <1>33, <1>34, <1>35, <1>36, <1>37,
    <1>38, <1>39, <1>40 DEF Next, SubmitStep, RecoveryStep, CancelStep, WorkerStep,
    Timers, vars, Resubmit, RecoveryRelease, EnqueueReleaseRetry, CancelRead,
    CancelRelease, CancelEnqueue, CancelDies, MoveDueDelayedToReady, RecoverStaleActive,
    LockExpires, RecoveryDies

\* A job that has failed or was cancelled stays so, and a counted retry stays counted.
LEMMA KnownKeeps ==
    ASSUME JobType, LedgerType, WorkerType, RestType, SubmitInv, KnownInv, ClaimsInv,
           [Next]_vars
    PROVE  KnownInv'
<1>1. ASSUME CreateBatchImageJob PROVE KnownInv'
  BY <1>1, BatchAssumption DEF JobType, LedgerType, WorkerType, RestType, SubmitInv,
    KnownInv, ClaimsInv, PC, WorkerIdle, WorkerBusy, Provider, Spent, Has, Did, Terminal,
    Unsubmitted, Done, Charged, Ended, CreateBatchImageJob, WithStatus, SubmitTo
<1>2. ASSUME SubmitReserve PROVE KnownInv'
  BY <1>2, BatchAssumption DEF JobType, LedgerType, WorkerType, RestType, SubmitInv,
    KnownInv, ClaimsInv, PC, WorkerIdle, WorkerBusy, Provider, Spent, Has, Did, Terminal,
    Unsubmitted, Done, Charged, Ended, SubmitReserve, ReserveBatchImageBalance, Apply,
    SubmitTo
<1>3. ASSUME SubmitUpload PROVE KnownInv'
  BY <1>3, UploadMoves DEF JobType, LedgerType, WorkerType, RestType, SubmitInv, KnownInv,
    ClaimsInv, PC, WorkerIdle, WorkerBusy, Provider, Spent, Has, Did, Terminal,
    Unsubmitted, Done, Charged, Ended, JobTo, WorkerTo
<1>4. ASSUME UpdateBatchImageJobProviderSubmit PROVE KnownInv'
  BY <1>4, UpdateMoves DEF JobType, LedgerType, WorkerType, RestType, SubmitInv, KnownInv,
    ClaimsInv, PC, WorkerIdle, WorkerBusy, Provider, Spent, Has, Did, Terminal,
    Unsubmitted, Done, Charged, Ended, JobTo, WorkerTo
<1>5. ASSUME SubmitRelease PROVE KnownInv'
  BY <1>5, BatchAssumption DEF JobType, LedgerType, WorkerType, RestType, SubmitInv,
    KnownInv, ClaimsInv, PC, WorkerIdle, WorkerBusy, Provider, Spent, Has, Did, Terminal,
    Unsubmitted, Done, Charged, Ended, SubmitRelease, SubmitTo, ReleaseBatchImageBalance,
    Apply, ReleaseFails, ReleaseInsufficient
<1>6. ASSUME RecordBatchImageJobSubmitFailure PROVE KnownInv'
  BY <1>6, FailureMoves DEF JobType, LedgerType, WorkerType, RestType, SubmitInv,
    KnownInv, ClaimsInv, PC, WorkerIdle, WorkerBusy, Provider, Spent, Has, Did, Terminal,
    Unsubmitted, Done, Charged, Ended, JobTo, WorkerTo
<1>7. ASSUME TouchBatchImageJobSubmitting PROVE KnownInv'
  BY <1>7, BatchAssumption DEF JobType, LedgerType, WorkerType, RestType, SubmitInv,
    KnownInv, ClaimsInv, PC, WorkerIdle, WorkerBusy, Provider, Spent, Has, Did, Terminal,
    Unsubmitted, Done, Charged, Ended, TouchBatchImageJobSubmitting
<1>8. ASSUME FailStaleUnsubmittedBatchImageJob PROVE KnownInv'
  BY <1>8, BatchAssumption DEF JobType, LedgerType, WorkerType, RestType, SubmitInv,
    KnownInv, ClaimsInv, PC, WorkerIdle, WorkerBusy, Provider, Spent, Has, Did, Terminal,
    Unsubmitted, Done, Charged, Ended, FailStaleUnsubmittedBatchImageJob, WithStatus
<1>9. ASSUME RecoveryRelease PROVE KnownInv'
  BY <1>9, BatchAssumption DEF JobType, LedgerType, WorkerType, RestType, SubmitInv,
    KnownInv, ClaimsInv, PC, WorkerIdle, WorkerBusy, Provider, Spent, Has, Did, Terminal,
    Unsubmitted, Done, Charged, Ended, RecoveryRelease, ReleaseBatchImageBalance, Apply,
    ReleaseFails, ReleaseInsufficient
<1>10. ASSUME EnqueueReleaseRetry PROVE KnownInv'
  BY <1>10, BatchAssumption DEF JobType, LedgerType, WorkerType, RestType, SubmitInv,
    KnownInv, ClaimsInv, PC, WorkerIdle, WorkerBusy, Provider, Spent, Has, Did, Terminal,
    Unsubmitted, Done, Charged, Ended, EnqueueReleaseRetry, Enqueue
<1>11. ASSUME NEW c \in Cancellers, CancelRead(c) PROVE KnownInv'
  BY <1>11, BatchAssumption DEF JobType, LedgerType, WorkerType, RestType, SubmitInv,
    KnownInv, ClaimsInv, PC, WorkerIdle, WorkerBusy, Provider, Spent, Has, Did, Terminal,
    Unsubmitted, Done, Charged, Ended, CancelRead, CancelTo
<1>12. ASSUME NEW c \in Cancellers, CancelUpstream(c) PROVE KnownInv'
  BY <1>12, BatchAssumption DEF JobType, LedgerType, WorkerType, RestType, SubmitInv,
    KnownInv, ClaimsInv, PC, WorkerIdle, WorkerBusy, Provider, Spent, Has, Did, Terminal,
    Unsubmitted, Done, Charged, Ended, CancelUpstream, CancelTo, ProviderCancel
<1>13. ASSUME NEW c \in Cancellers, CancelTransition(c) PROVE KnownInv'
  BY <1>13, CancelTransitionMoves DEF JobType, LedgerType, WorkerType, RestType, SubmitInv,
    KnownInv, ClaimsInv, PC, WorkerIdle, WorkerBusy, Provider, Spent, Has, Did, Terminal,
    Unsubmitted, Done, Charged, Ended, JobTo, WorkerTo
<1>14. ASSUME NEW c \in Cancellers, CancelRelease(c) PROVE KnownInv'
  BY <1>14, BatchAssumption DEF JobType, LedgerType, WorkerType, RestType, SubmitInv,
    KnownInv, ClaimsInv, PC, WorkerIdle, WorkerBusy, Provider, Spent, Has, Did, Terminal,
    Unsubmitted, Done, Charged, Ended, CancelRelease, CancelTo, ReleaseBatchImageBalance,
    Apply, ReleaseFails, ReleaseInsufficient
<1>15. ASSUME NEW c \in Cancellers, CancelEnqueue(c) PROVE KnownInv'
  BY <1>15, BatchAssumption DEF JobType, LedgerType, WorkerType, RestType, SubmitInv,
    KnownInv, ClaimsInv, PC, WorkerIdle, WorkerBusy, Provider, Spent, Has, Did, Terminal,
    Unsubmitted, Done, Charged, Ended, CancelEnqueue, CancelTo, Enqueue
<1>16. ASSUME NEW c \in Cancellers, CancelDies(c) PROVE KnownInv'
  BY <1>16, BatchAssumption DEF JobType, LedgerType, WorkerType, RestType, SubmitInv,
    KnownInv, ClaimsInv, PC, WorkerIdle, WorkerBusy, Provider, Spent, Has, Did, Terminal,
    Unsubmitted, Done, Charged, Ended, CancelDies, CancelTo
<1>17. ASSUME NEW w \in Workers, QueueReserve(w) PROVE KnownInv'
  BY <1>17, BatchAssumption DEF JobType, LedgerType, WorkerType, RestType, SubmitInv,
    KnownInv, ClaimsInv, PC, WorkerIdle, WorkerBusy, Provider, Spent, Has, Did, Terminal,
    Unsubmitted, Done, Charged, Ended, QueueReserve, Goto, At
<1>18. ASSUME NEW w \in Workers, TryAcquireJobLock(w) PROVE KnownInv'
  BY <1>18, BatchAssumption DEF JobType, LedgerType, WorkerType, RestType, SubmitInv,
    KnownInv, ClaimsInv, PC, WorkerIdle, WorkerBusy, Provider, Spent, Has, Did, Terminal,
    Unsubmitted, Done, Charged, Ended, TryAcquireJobLock, Goto, At
<1>19. ASSUME NEW w \in Workers, PipelineProcess(w) PROVE KnownInv'
  BY <1>19, BatchAssumption DEF JobType, LedgerType, WorkerType, RestType, SubmitInv,
    KnownInv, ClaimsInv, PC, WorkerIdle, WorkerBusy, Provider, Spent, Has, Did, Terminal,
    Unsubmitted, Done, Charged, Ended, PipelineProcess, Goto, At, ProcessFails
<1>20. ASSUME NEW w \in Workers, ProviderProcess(w) PROVE KnownInv'
  BY <1>20, BatchAssumption DEF JobType, LedgerType, WorkerType, RestType, SubmitInv,
    KnownInv, ClaimsInv, PC, WorkerIdle, WorkerBusy, Provider, Spent, Has, Did, Terminal,
    Unsubmitted, Done, Charged, Ended, ProviderProcess, Goto, At, ProcessFails
<1>21. ASSUME NEW w \in Workers, ProviderGet(w) PROVE KnownInv'
  <2>1. /\ UNCHANGED <<job, ledger, cancel, recovery>>
        /\ PC(w)' \in {"apply", "requeue"}
        /\ \A v \in Workers : v # w => worker'[v] = worker[v]
    BY <1>21 DEF ProviderGet, ProcessFails, Goto, At, PC, WorkerType
  <2> QED
    BY <2>1 DEF KnownInv, PC, Spent, Has, Did
<1>22. ASSUME NEW w \in Workers, ApplyProviderState(w) PROVE KnownInv'
  BY <1>22, ApplyMoves DEF JobType, LedgerType, WorkerType, RestType, SubmitInv, KnownInv,
    ClaimsInv, PC, WorkerIdle, WorkerBusy, Provider, Spent, Has, Did, Terminal,
    Unsubmitted, Done, Charged, Ended, JobTo, WorkerTo
<1>23. ASSUME NEW w \in Workers, Index(w) PROVE KnownInv'
  BY <1>23, BatchAssumption DEF JobType, LedgerType, WorkerType, RestType, SubmitInv,
    KnownInv, ClaimsInv, PC, WorkerIdle, WorkerBusy, Provider, Spent, Has, Did, Terminal,
    Unsubmitted, Done, Charged, Ended, Index, Goto, At
<1>24. ASSUME NEW w \in Workers, Indexed(w) PROVE KnownInv'
  BY <1>24, IndexedMoves DEF JobType, LedgerType, WorkerType, RestType, SubmitInv,
    KnownInv, ClaimsInv, PC, WorkerIdle, WorkerBusy, Provider, Spent, Has, Did, Terminal,
    Unsubmitted, Done, Charged, Ended, JobTo, WorkerTo
<1>25. ASSUME NEW w \in Workers, ReleaseTerminalHold(w) PROVE KnownInv'
  BY <1>25, BatchAssumption DEF JobType, LedgerType, WorkerType, RestType, SubmitInv,
    KnownInv, ClaimsInv, PC, WorkerIdle, WorkerBusy, Provider, Spent, Has, Did, Terminal,
    Unsubmitted, Done, Charged, Ended, ReleaseTerminalHold, Goto, At,
    ReleaseBatchImageBalance, Apply, ReleaseFails, ReleaseInsufficient
<1>26. ASSUME NEW w \in Workers, Settle(w) PROVE KnownInv'
  BY <1>26, BatchAssumption DEF JobType, LedgerType, WorkerType, RestType, SubmitInv,
    KnownInv, ClaimsInv, PC, WorkerIdle, WorkerBusy, Provider, Spent, Has, Did, Terminal,
    Unsubmitted, Done, Charged, Ended, Settle, Goto, At, ProcessFails
<1>27. ASSUME NEW w \in Workers, CaptureHold(w) PROVE KnownInv'
  BY <1>27, BatchAssumption DEF JobType, LedgerType, WorkerType, RestType, SubmitInv,
    KnownInv, ClaimsInv, PC, WorkerIdle, WorkerBusy, Provider, Spent, Has, Did, Terminal,
    Unsubmitted, Done, Charged, Ended, CaptureHold, Goto, At, CaptureBatchImageBalance,
    CaptureInsufficient, Apply
<1>28. ASSUME NEW w \in Workers, MarkBatchImageJobSettled(w) PROVE KnownInv'
  BY <1>28, MarkMoves DEF JobType, LedgerType, WorkerType, RestType, SubmitInv, KnownInv,
    ClaimsInv, PC, WorkerIdle, WorkerBusy, Provider, Spent, Has, Did, Terminal,
    Unsubmitted, Done, Charged, Ended, JobTo, WorkerTo
<1>29. ASSUME NEW w \in Workers, RecordSettlementFailure(w) PROVE KnownInv'
  BY <1>29, BatchAssumption DEF JobType, LedgerType, WorkerType, RestType, SubmitInv,
    KnownInv, ClaimsInv, PC, WorkerIdle, WorkerBusy, Provider, Spent, Has, Did, Terminal,
    Unsubmitted, Done, Charged, Ended, RecordSettlementFailure, Goto, At, CountedRetry
<1>30. ASSUME NEW w \in Workers, ReleaseExhausted(w) PROVE KnownInv'
  BY <1>30, BatchAssumption DEF JobType, LedgerType, WorkerType, RestType, SubmitInv,
    KnownInv, ClaimsInv, PC, WorkerIdle, WorkerBusy, Provider, Spent, Has, Did, Terminal,
    Unsubmitted, Done, Charged, Ended, ReleaseExhausted, Goto, At, CountedRetry,
    ReleaseBatchImageBalance, Apply, ReleaseFails, ReleaseInsufficient
<1>31. ASSUME NEW w \in Workers, FailExhausted(w) PROVE KnownInv'
  BY <1>31, FailExhaustedMoves DEF JobType, LedgerType, WorkerType, RestType, SubmitInv,
    KnownInv, ClaimsInv, PC, WorkerIdle, WorkerBusy, Provider, Spent, Has, Did, Terminal,
    Unsubmitted, Done, Charged, Ended, JobTo, WorkerTo
<1>32. ASSUME NEW w \in Workers, Reread(w) PROVE KnownInv'
  BY <1>32, BatchAssumption DEF JobType, LedgerType, WorkerType, RestType, SubmitInv,
    KnownInv, ClaimsInv, PC, WorkerIdle, WorkerBusy, Provider, Spent, Has, Did, Terminal,
    Unsubmitted, Done, Charged, Ended, Reread, Goto, At, ProcessFails
<1>33. ASSUME NEW w \in Workers, RequeueAfter(w) PROVE KnownInv'
  BY <1>33, BatchAssumption DEF JobType, LedgerType, WorkerType, RestType, SubmitInv,
    KnownInv, ClaimsInv, PC, WorkerIdle, WorkerBusy, Provider, Spent, Has, Did, Terminal,
    Unsubmitted, Done, Charged, Ended, RequeueAfter, Goto, At
<1>34. ASSUME NEW w \in Workers, Ack(w) PROVE KnownInv'
  BY <1>34, BatchAssumption DEF JobType, LedgerType, WorkerType, RestType, SubmitInv,
    KnownInv, ClaimsInv, PC, WorkerIdle, WorkerBusy, Provider, Spent, Has, Did, Terminal,
    Unsubmitted, Done, Charged, Ended, Ack, Goto, At
<1>35. ASSUME NEW w \in Workers, ReleaseJobLock(w) PROVE KnownInv'
  BY <1>35, BatchAssumption DEF JobType, LedgerType, WorkerType, RestType, SubmitInv,
    KnownInv, ClaimsInv, PC, WorkerIdle, WorkerBusy, Provider, Spent, Has, Did, Terminal,
    Unsubmitted, Done, Charged, Ended, ReleaseJobLock, Goto, At
<1>36. ASSUME NEW w \in Workers, WorkerDies(w) PROVE KnownInv'
  BY <1>36, BatchAssumption DEF JobType, LedgerType, WorkerType, RestType, SubmitInv,
    KnownInv, ClaimsInv, PC, WorkerIdle, WorkerBusy, Provider, Spent, Has, Did, Terminal,
    Unsubmitted, Done, Charged, Ended, WorkerDies, Goto, At
<1>37. ASSUME GrowStale PROVE KnownInv'
  BY <1>37, BatchAssumption DEF JobType, LedgerType, WorkerType, RestType, SubmitInv,
    KnownInv, ClaimsInv, PC, WorkerIdle, WorkerBusy, Provider, Spent, Has, Did, Terminal,
    Unsubmitted, Done, Charged, Ended, GrowStale
<1>38. ASSUME MarkBatchImageOutputDeleted PROVE KnownInv'
  BY <1>38, BatchAssumption DEF JobType, LedgerType, WorkerType, RestType, SubmitInv,
    KnownInv, ClaimsInv, PC, WorkerIdle, WorkerBusy, Provider, Spent, Has, Did, Terminal,
    Unsubmitted, Done, Charged, Ended, MarkBatchImageOutputDeleted, WithStatus
<1>39. ASSUME RecoveryDies PROVE KnownInv'
  BY <1>39, BatchAssumption DEF JobType, LedgerType, WorkerType, RestType, SubmitInv,
    KnownInv, ClaimsInv, PC, WorkerIdle, WorkerBusy, Provider, Spent, Has, Did, Terminal,
    Unsubmitted, Done, Charged, Ended, RecoveryDies
<1>40. ASSUME UNCHANGED <<job, ledger, worker, cancel, recovery>> PROVE KnownInv'
  BY <1>40 DEF JobType, LedgerType, WorkerType, RestType, SubmitInv, KnownInv, ClaimsInv,
    PC, WorkerIdle, WorkerBusy, Provider, Spent, Has, Did, Terminal, Unsubmitted, Done,
    Charged, Ended
<1> QED
  BY <1>1, <1>2, <1>3, <1>4, <1>5, <1>6, <1>7, <1>8, <1>9, <1>10, <1>11, <1>12, <1>13,
    <1>14, <1>15, <1>16, <1>17, <1>18, <1>19, <1>20, <1>21, <1>22, <1>23, <1>24, <1>25,
    <1>26, <1>27, <1>28, <1>29, <1>30, <1>31, <1>32, <1>33, <1>34, <1>35, <1>36, <1>37,
    <1>38, <1>39, <1>40 DEF Next, SubmitStep, RecoveryStep, CancelStep, WorkerStep,
    Timers, vars, SubmitItems, SubmitProvider, AbortOrphanProviderJob, SubmitEnqueue,
    SubmitEnqueueBillingRetry, Resubmit, MoveDueDelayedToReady, RecoverStaleActive,
    LockExpires, UpstreamEnds, SubmitDies

-----------------------------------------------------------------------------
(* The worker with the lock *)

\* The lock of a worker at work goes only with its lease.
LEMMA LockKeeps ==
    ASSUME FaultsType, WorkerType, RestType, LockInv, [Next]_vars
    PROVE  LockInv'
<1>0. faults.lapsed => faults'.lapsed
  BY FaultsMove
<1>1. ASSUME NEW w \in Workers, QueueReserve(w) PROVE LockInv'
  BY <1>1, BatchAssumption, <1>0 DEF WorkerType, RestType, LockInv, PC, WorkerIdle,
    WorkerBusy, QueueReserve, Goto, At
<1>2. ASSUME NEW w \in Workers, TryAcquireJobLock(w) PROVE LockInv'
  BY <1>2, BatchAssumption, <1>0 DEF WorkerType, RestType, LockInv, PC, WorkerIdle,
    WorkerBusy, TryAcquireJobLock, Goto, At
<1>3. ASSUME NEW w \in Workers, PipelineProcess(w) PROVE LockInv'
  BY <1>3, BatchAssumption, <1>0 DEF WorkerType, RestType, LockInv, PC, WorkerIdle,
    WorkerBusy, PipelineProcess, Goto, At, ProcessFails
<1>4. ASSUME NEW w \in Workers, ProviderProcess(w) PROVE LockInv'
  BY <1>4, BatchAssumption, <1>0 DEF WorkerType, RestType, LockInv, PC, WorkerIdle,
    WorkerBusy, ProviderProcess, Goto, At, ProcessFails
<1>5. ASSUME NEW w \in Workers, ProviderGet(w) PROVE LockInv'
  BY <1>5, BatchAssumption, <1>0 DEF WorkerType, RestType, LockInv, PC, WorkerIdle,
    WorkerBusy, ProviderGet, Goto, At, ProcessFails
<1>6. ASSUME NEW w \in Workers, ApplyProviderState(w) PROVE LockInv'
  BY <1>6, BatchAssumption, <1>0 DEF WorkerType, RestType, LockInv, PC, WorkerIdle,
    WorkerBusy, ApplyProviderState, Goto, At, ProcessFails, TransitionBatchImageJobStatus,
    CanTransitionBatchImageJob, WithStatus, StatusFor, StepFor
<1>7. ASSUME NEW w \in Workers, Index(w) PROVE LockInv'
  BY <1>7, BatchAssumption, <1>0 DEF WorkerType, RestType, LockInv, PC, WorkerIdle,
    WorkerBusy, Index, Goto, At
<1>8. ASSUME NEW w \in Workers, Indexed(w) PROVE LockInv'
  BY <1>8, BatchAssumption, <1>0 DEF WorkerType, RestType, LockInv, PC, WorkerIdle,
    WorkerBusy, Indexed, Goto, At, ProcessFails, TransitionBatchImageJobStatus,
    CanTransitionBatchImageJob, WithStatus
<1>9. ASSUME NEW w \in Workers, ReleaseTerminalHold(w) PROVE LockInv'
  BY <1>9, BatchAssumption, <1>0 DEF WorkerType, RestType, LockInv, PC, WorkerIdle,
    WorkerBusy, ReleaseTerminalHold, Goto, At, ReleaseBatchImageBalance, Apply,
    ReleaseFails, ReleaseInsufficient
<1>10. ASSUME NEW w \in Workers, Settle(w) PROVE LockInv'
  BY <1>10, BatchAssumption, <1>0 DEF WorkerType, RestType, LockInv, PC, WorkerIdle,
    WorkerBusy, Settle, Goto, At, ProcessFails
<1>11. ASSUME NEW w \in Workers, CaptureHold(w) PROVE LockInv'
  BY <1>11, BatchAssumption, <1>0 DEF WorkerType, RestType, LockInv, PC, WorkerIdle,
    WorkerBusy, CaptureHold, Goto, At, CaptureBatchImageBalance, CaptureInsufficient,
    Apply
<1>12. ASSUME NEW w \in Workers, MarkBatchImageJobSettled(w) PROVE LockInv'
  BY <1>12, BatchAssumption, <1>0 DEF WorkerType, RestType, LockInv, PC, WorkerIdle,
    WorkerBusy, MarkBatchImageJobSettled, Goto, At, ProcessFails, WithStatus
<1>13. ASSUME NEW w \in Workers, RecordSettlementFailure(w) PROVE LockInv'
  BY <1>13, BatchAssumption, <1>0 DEF WorkerType, RestType, LockInv, PC, WorkerIdle,
    WorkerBusy, RecordSettlementFailure, Goto, At, CountedRetry
<1>14. ASSUME NEW w \in Workers, ReleaseExhausted(w) PROVE LockInv'
  BY <1>14, BatchAssumption, <1>0 DEF WorkerType, RestType, LockInv, PC, WorkerIdle,
    WorkerBusy, ReleaseExhausted, Goto, At, CountedRetry, ReleaseBatchImageBalance, Apply,
    ReleaseFails, ReleaseInsufficient
<1>15. ASSUME NEW w \in Workers, FailExhausted(w) PROVE LockInv'
  BY <1>15, BatchAssumption, <1>0 DEF WorkerType, RestType, LockInv, PC, WorkerIdle,
    WorkerBusy, FailExhausted, Goto, At, ProcessFails, TransitionBatchImageJobStatus,
    CanTransitionBatchImageJob, WithStatus
<1>16. ASSUME NEW w \in Workers, Reread(w) PROVE LockInv'
  BY <1>16, BatchAssumption, <1>0 DEF WorkerType, RestType, LockInv, PC, WorkerIdle,
    WorkerBusy, Reread, Goto, At, ProcessFails
<1>17. ASSUME NEW w \in Workers, RequeueAfter(w) PROVE LockInv'
  BY <1>17, BatchAssumption, <1>0 DEF WorkerType, RestType, LockInv, PC, WorkerIdle,
    WorkerBusy, RequeueAfter, Goto, At
<1>18. ASSUME NEW w \in Workers, Ack(w) PROVE LockInv'
  BY <1>18, BatchAssumption, <1>0 DEF WorkerType, RestType, LockInv, PC, WorkerIdle,
    WorkerBusy, Ack, Goto, At
<1>19. ASSUME NEW w \in Workers, ReleaseJobLock(w) PROVE LockInv'
  BY <1>19, BatchAssumption, <1>0 DEF WorkerType, RestType, LockInv, PC, WorkerIdle,
    WorkerBusy, ReleaseJobLock, Goto, At
<1>20. ASSUME NEW w \in Workers, WorkerDies(w) PROVE LockInv'
  BY <1>20, BatchAssumption, <1>0 DEF WorkerType, RestType, LockInv, PC, WorkerIdle,
    WorkerBusy, WorkerDies, Goto, At
<1>21. ASSUME LockExpires PROVE LockInv'
  BY <1>21, <1>0, Lapses DEF WorkerType, RestType, LockInv, PC, WorkerIdle, WorkerBusy,
    LockExpires
<1>22. ASSUME UNCHANGED <<worker, lock>> PROVE LockInv'
  BY <1>22, <1>0 DEF WorkerType, RestType, LockInv, PC, WorkerIdle, WorkerBusy
<1> QED
  BY <1>1, <1>2, <1>3, <1>4, <1>5, <1>6, <1>7, <1>8, <1>9, <1>10, <1>11, <1>12, <1>13,
    <1>14, <1>15, <1>16, <1>17, <1>18, <1>19, <1>20, <1>21, <1>22 DEF Next, SubmitStep,
    RecoveryStep, CancelStep, WorkerStep, Timers, vars, CreateBatchImageJob,
    SubmitReserve, SubmitItems, SubmitUpload, SubmitProvider,
    UpdateBatchImageJobProviderSubmit, AbortOrphanProviderJob, SubmitEnqueue,
    SubmitRelease, RecordBatchImageJobSubmitFailure, SubmitEnqueueBillingRetry,
    TouchBatchImageJobSubmitting, Resubmit, FailStaleUnsubmittedBatchImageJob,
    RecoveryRelease, EnqueueReleaseRetry, CancelRead, CancelUpstream, CancelTransition,
    CancelRelease, CancelEnqueue, CancelDies, MoveDueDelayedToReady, RecoverStaleActive,
    GrowStale, UpstreamEnds, MarkBatchImageOutputDeleted, SubmitDies, RecoveryDies

\* Nobody else moves the row of a job that a worker settles.
LEMMA SoleKeeps ==
    ASSUME JobType, LedgerType, WorkerType, SubmitInv, UpstreamInv, KnownInv, LockInv,
           SoleInv, CompletedIsCharged, ClaimsInv, FaultsType, RestType, [Next]_vars
    PROVE  SoleInv'
<1>0. faults.lapsed => faults'.lapsed
  BY FaultsMove
<1>1. ASSUME CreateBatchImageJob PROVE SoleInv'
  BY <1>1, BatchAssumption, <1>0 DEF JobType, LedgerType, WorkerType, SubmitInv,
    UpstreamInv, KnownInv, LockInv, SoleInv, CompletedIsCharged, ClaimsInv, PC,
    WorkerIdle, WorkerBusy, Provider, Spent, Has, Did, Terminal, Unsubmitted, Done,
    Charged, Ended, CreateBatchImageJob, WithStatus, SubmitTo
<1>2. ASSUME SubmitReserve PROVE SoleInv'
  BY <1>2, BatchAssumption, <1>0 DEF JobType, LedgerType, WorkerType, SubmitInv,
    UpstreamInv, KnownInv, LockInv, SoleInv, CompletedIsCharged, ClaimsInv, PC,
    WorkerIdle, WorkerBusy, Provider, Spent, Has, Did, Terminal, Unsubmitted, Done,
    Charged, Ended, SubmitReserve, ReserveBatchImageBalance, Apply, SubmitTo
<1>3. ASSUME SubmitUpload PROVE SoleInv'
  BY <1>3, UploadMoves, <1>0 DEF JobType, LedgerType, WorkerType, SubmitInv, UpstreamInv,
    KnownInv, LockInv, SoleInv, CompletedIsCharged, ClaimsInv, PC, WorkerIdle, WorkerBusy,
    Provider, Spent, Has, Did, Terminal, Unsubmitted, Done, Charged, Ended, JobTo,
    WorkerTo
<1>4. ASSUME UpdateBatchImageJobProviderSubmit PROVE SoleInv'
  BY <1>4, UpdateMoves, <1>0 DEF JobType, LedgerType, WorkerType, SubmitInv, UpstreamInv,
    KnownInv, LockInv, SoleInv, CompletedIsCharged, ClaimsInv, PC, WorkerIdle, WorkerBusy,
    Provider, Spent, Has, Did, Terminal, Unsubmitted, Done, Charged, Ended, JobTo,
    WorkerTo
<1>5. ASSUME SubmitRelease PROVE SoleInv'
  BY <1>5, BatchAssumption, <1>0 DEF JobType, LedgerType, WorkerType, SubmitInv,
    UpstreamInv, KnownInv, LockInv, SoleInv, CompletedIsCharged, ClaimsInv, PC,
    WorkerIdle, WorkerBusy, Provider, Spent, Has, Did, Terminal, Unsubmitted, Done,
    Charged, Ended, SubmitRelease, SubmitTo, ReleaseBatchImageBalance, Apply,
    ReleaseFails, ReleaseInsufficient
<1>6. ASSUME RecordBatchImageJobSubmitFailure PROVE SoleInv'
  BY <1>6, FailureMoves, <1>0 DEF JobType, LedgerType, WorkerType, SubmitInv, UpstreamInv,
    KnownInv, LockInv, SoleInv, CompletedIsCharged, ClaimsInv, PC, WorkerIdle, WorkerBusy,
    Provider, Spent, Has, Did, Terminal, Unsubmitted, Done, Charged, Ended, JobTo,
    WorkerTo
<1>7. ASSUME TouchBatchImageJobSubmitting PROVE SoleInv'
  BY <1>7, BatchAssumption, <1>0 DEF JobType, LedgerType, WorkerType, SubmitInv,
    UpstreamInv, KnownInv, LockInv, SoleInv, CompletedIsCharged, ClaimsInv, PC,
    WorkerIdle, WorkerBusy, Provider, Spent, Has, Did, Terminal, Unsubmitted, Done,
    Charged, Ended, TouchBatchImageJobSubmitting
<1>8. ASSUME FailStaleUnsubmittedBatchImageJob PROVE SoleInv'
  BY <1>8, BatchAssumption, <1>0 DEF JobType, LedgerType, WorkerType, SubmitInv,
    UpstreamInv, KnownInv, LockInv, SoleInv, CompletedIsCharged, ClaimsInv, PC,
    WorkerIdle, WorkerBusy, Provider, Spent, Has, Did, Terminal, Unsubmitted, Done,
    Charged, Ended, FailStaleUnsubmittedBatchImageJob, WithStatus
<1>9. ASSUME RecoveryRelease PROVE SoleInv'
  BY <1>9, BatchAssumption, <1>0 DEF JobType, LedgerType, WorkerType, SubmitInv,
    UpstreamInv, KnownInv, LockInv, SoleInv, CompletedIsCharged, ClaimsInv, PC,
    WorkerIdle, WorkerBusy, Provider, Spent, Has, Did, Terminal, Unsubmitted, Done,
    Charged, Ended, RecoveryRelease, ReleaseBatchImageBalance, Apply, ReleaseFails,
    ReleaseInsufficient
<1>10. ASSUME NEW c \in Cancellers, CancelTransition(c) PROVE SoleInv'
  BY <1>10, CancelTransitionMoves, <1>0 DEF JobType, LedgerType, WorkerType, SubmitInv,
    UpstreamInv, KnownInv, LockInv, SoleInv, CompletedIsCharged, ClaimsInv, PC,
    WorkerIdle, WorkerBusy, Provider, Spent, Has, Did, Terminal, Unsubmitted, Done,
    Charged, Ended, JobTo, WorkerTo
<1>11. ASSUME NEW c \in Cancellers, CancelRelease(c) PROVE SoleInv'
  BY <1>11, BatchAssumption, <1>0 DEF JobType, LedgerType, WorkerType, SubmitInv,
    UpstreamInv, KnownInv, LockInv, SoleInv, CompletedIsCharged, ClaimsInv, PC,
    WorkerIdle, WorkerBusy, Provider, Spent, Has, Did, Terminal, Unsubmitted, Done,
    Charged, Ended, CancelRelease, CancelTo, ReleaseBatchImageBalance, Apply,
    ReleaseFails, ReleaseInsufficient
<1>12. ASSUME NEW w \in Workers, QueueReserve(w) PROVE SoleInv'
  BY <1>12, BatchAssumption, <1>0 DEF JobType, LedgerType, WorkerType, SubmitInv,
    UpstreamInv, KnownInv, LockInv, SoleInv, CompletedIsCharged, ClaimsInv, PC,
    WorkerIdle, WorkerBusy, Provider, Spent, Has, Did, Terminal, Unsubmitted, Done,
    Charged, Ended, QueueReserve, Goto, At
<1>13. ASSUME NEW w \in Workers, TryAcquireJobLock(w) PROVE SoleInv'
  BY <1>13, BatchAssumption, <1>0 DEF JobType, LedgerType, WorkerType, SubmitInv,
    UpstreamInv, KnownInv, LockInv, SoleInv, CompletedIsCharged, ClaimsInv, PC,
    WorkerIdle, WorkerBusy, Provider, Spent, Has, Did, Terminal, Unsubmitted, Done,
    Charged, Ended, TryAcquireJobLock, Goto, At
<1>14. ASSUME NEW w \in Workers, PipelineProcess(w) PROVE SoleInv'
  BY <1>14, BatchAssumption, <1>0 DEF JobType, LedgerType, WorkerType, SubmitInv,
    UpstreamInv, KnownInv, LockInv, SoleInv, CompletedIsCharged, ClaimsInv, PC,
    WorkerIdle, WorkerBusy, Provider, Spent, Has, Did, Terminal, Unsubmitted, Done,
    Charged, Ended, PipelineProcess, Goto, At, ProcessFails
<1>15. ASSUME NEW w \in Workers, ProviderProcess(w) PROVE SoleInv'
  BY <1>15, BatchAssumption, <1>0 DEF JobType, LedgerType, WorkerType, SubmitInv,
    UpstreamInv, KnownInv, LockInv, SoleInv, CompletedIsCharged, ClaimsInv, PC,
    WorkerIdle, WorkerBusy, Provider, Spent, Has, Did, Terminal, Unsubmitted, Done,
    Charged, Ended, ProviderProcess, Goto, At, ProcessFails
<1>16. ASSUME NEW w \in Workers, ProviderGet(w) PROVE SoleInv'
  BY <1>16, BatchAssumption, <1>0 DEF JobType, LedgerType, WorkerType, SubmitInv,
    UpstreamInv, KnownInv, LockInv, SoleInv, CompletedIsCharged, ClaimsInv, PC,
    WorkerIdle, WorkerBusy, Provider, Spent, Has, Did, Terminal, Unsubmitted, Done,
    Charged, Ended, ProviderGet, Goto, At, ProcessFails
<1>17. ASSUME NEW w \in Workers, ApplyProviderState(w) PROVE SoleInv'
  BY <1>17, ApplyMoves, <1>0 DEF JobType, LedgerType, WorkerType, SubmitInv, UpstreamInv,
    KnownInv, LockInv, SoleInv, CompletedIsCharged, ClaimsInv, PC, WorkerIdle, WorkerBusy,
    Provider, Spent, Has, Did, Terminal, Unsubmitted, Done, Charged, Ended, JobTo,
    WorkerTo
<1>18. ASSUME NEW w \in Workers, Index(w) PROVE SoleInv'
  BY <1>18, BatchAssumption, <1>0 DEF JobType, LedgerType, WorkerType, SubmitInv,
    UpstreamInv, KnownInv, LockInv, SoleInv, CompletedIsCharged, ClaimsInv, PC,
    WorkerIdle, WorkerBusy, Provider, Spent, Has, Did, Terminal, Unsubmitted, Done,
    Charged, Ended, Index, Goto, At
<1>19. ASSUME NEW w \in Workers, Indexed(w) PROVE SoleInv'
  BY <1>19, IndexedMoves, <1>0 DEF JobType, LedgerType, WorkerType, SubmitInv, UpstreamInv,
    KnownInv, LockInv, SoleInv, CompletedIsCharged, ClaimsInv, PC, WorkerIdle, WorkerBusy,
    Provider, Spent, Has, Did, Terminal, Unsubmitted, Done, Charged, Ended, JobTo,
    WorkerTo
<1>20. ASSUME NEW w \in Workers, ReleaseTerminalHold(w) PROVE SoleInv'
  BY <1>20, BatchAssumption, <1>0 DEF JobType, LedgerType, WorkerType, SubmitInv,
    UpstreamInv, KnownInv, LockInv, SoleInv, CompletedIsCharged, ClaimsInv, PC,
    WorkerIdle, WorkerBusy, Provider, Spent, Has, Did, Terminal, Unsubmitted, Done,
    Charged, Ended, ReleaseTerminalHold, Goto, At, ReleaseBatchImageBalance, Apply,
    ReleaseFails, ReleaseInsufficient
<1>21. ASSUME NEW w \in Workers, Settle(w) PROVE SoleInv'
  BY <1>21, BatchAssumption, <1>0 DEF JobType, LedgerType, WorkerType, SubmitInv,
    UpstreamInv, KnownInv, LockInv, SoleInv, CompletedIsCharged, ClaimsInv, PC,
    WorkerIdle, WorkerBusy, Provider, Spent, Has, Did, Terminal, Unsubmitted, Done,
    Charged, Ended, Settle, Goto, At, ProcessFails
<1>22. ASSUME NEW w \in Workers, CaptureHold(w) PROVE SoleInv'
  BY <1>22, BatchAssumption, <1>0 DEF JobType, LedgerType, WorkerType, SubmitInv,
    UpstreamInv, KnownInv, LockInv, SoleInv, CompletedIsCharged, ClaimsInv, PC,
    WorkerIdle, WorkerBusy, Provider, Spent, Has, Did, Terminal, Unsubmitted, Done,
    Charged, Ended, CaptureHold, Goto, At, CaptureBatchImageBalance, CaptureInsufficient,
    Apply
<1>23. ASSUME NEW w \in Workers, MarkBatchImageJobSettled(w) PROVE SoleInv'
  BY <1>23, MarkMoves, <1>0 DEF JobType, LedgerType, WorkerType, SubmitInv, UpstreamInv,
    KnownInv, LockInv, SoleInv, CompletedIsCharged, ClaimsInv, PC, WorkerIdle, WorkerBusy,
    Provider, Spent, Has, Did, Terminal, Unsubmitted, Done, Charged, Ended, JobTo,
    WorkerTo
<1>24. ASSUME NEW w \in Workers, RecordSettlementFailure(w) PROVE SoleInv'
  BY <1>24, BatchAssumption, <1>0 DEF JobType, LedgerType, WorkerType, SubmitInv,
    UpstreamInv, KnownInv, LockInv, SoleInv, CompletedIsCharged, ClaimsInv, PC,
    WorkerIdle, WorkerBusy, Provider, Spent, Has, Did, Terminal, Unsubmitted, Done,
    Charged, Ended, RecordSettlementFailure, Goto, At, CountedRetry
<1>25. ASSUME NEW w \in Workers, ReleaseExhausted(w) PROVE SoleInv'
  BY <1>25, BatchAssumption, <1>0 DEF JobType, LedgerType, WorkerType, SubmitInv,
    UpstreamInv, KnownInv, LockInv, SoleInv, CompletedIsCharged, ClaimsInv, PC,
    WorkerIdle, WorkerBusy, Provider, Spent, Has, Did, Terminal, Unsubmitted, Done,
    Charged, Ended, ReleaseExhausted, Goto, At, CountedRetry, ReleaseBatchImageBalance,
    Apply, ReleaseFails, ReleaseInsufficient
<1>26. ASSUME NEW w \in Workers, FailExhausted(w) PROVE SoleInv'
  BY <1>26, FailExhaustedMoves, <1>0 DEF JobType, LedgerType, WorkerType, SubmitInv,
    UpstreamInv, KnownInv, LockInv, SoleInv, CompletedIsCharged, ClaimsInv, PC,
    WorkerIdle, WorkerBusy, Provider, Spent, Has, Did, Terminal, Unsubmitted, Done,
    Charged, Ended, JobTo, WorkerTo
<1>27. ASSUME NEW w \in Workers, Reread(w) PROVE SoleInv'
  BY <1>27, BatchAssumption, <1>0 DEF JobType, LedgerType, WorkerType, SubmitInv,
    UpstreamInv, KnownInv, LockInv, SoleInv, CompletedIsCharged, ClaimsInv, PC,
    WorkerIdle, WorkerBusy, Provider, Spent, Has, Did, Terminal, Unsubmitted, Done,
    Charged, Ended, Reread, Goto, At, ProcessFails
<1>28. ASSUME NEW w \in Workers, RequeueAfter(w) PROVE SoleInv'
  BY <1>28, BatchAssumption, <1>0 DEF JobType, LedgerType, WorkerType, SubmitInv,
    UpstreamInv, KnownInv, LockInv, SoleInv, CompletedIsCharged, ClaimsInv, PC,
    WorkerIdle, WorkerBusy, Provider, Spent, Has, Did, Terminal, Unsubmitted, Done,
    Charged, Ended, RequeueAfter, Goto, At
<1>29. ASSUME NEW w \in Workers, Ack(w) PROVE SoleInv'
  BY <1>29, BatchAssumption, <1>0 DEF JobType, LedgerType, WorkerType, SubmitInv,
    UpstreamInv, KnownInv, LockInv, SoleInv, CompletedIsCharged, ClaimsInv, PC,
    WorkerIdle, WorkerBusy, Provider, Spent, Has, Did, Terminal, Unsubmitted, Done,
    Charged, Ended, Ack, Goto, At
<1>30. ASSUME NEW w \in Workers, ReleaseJobLock(w) PROVE SoleInv'
  BY <1>30, BatchAssumption, <1>0 DEF JobType, LedgerType, WorkerType, SubmitInv,
    UpstreamInv, KnownInv, LockInv, SoleInv, CompletedIsCharged, ClaimsInv, PC,
    WorkerIdle, WorkerBusy, Provider, Spent, Has, Did, Terminal, Unsubmitted, Done,
    Charged, Ended, ReleaseJobLock, Goto, At
<1>31. ASSUME NEW w \in Workers, WorkerDies(w) PROVE SoleInv'
  BY <1>31, BatchAssumption, <1>0 DEF JobType, LedgerType, WorkerType, SubmitInv,
    UpstreamInv, KnownInv, LockInv, SoleInv, CompletedIsCharged, ClaimsInv, PC,
    WorkerIdle, WorkerBusy, Provider, Spent, Has, Did, Terminal, Unsubmitted, Done,
    Charged, Ended, WorkerDies, Goto, At
<1>32. ASSUME GrowStale PROVE SoleInv'
  BY <1>32, BatchAssumption, <1>0 DEF JobType, LedgerType, WorkerType, SubmitInv,
    UpstreamInv, KnownInv, LockInv, SoleInv, CompletedIsCharged, ClaimsInv, PC,
    WorkerIdle, WorkerBusy, Provider, Spent, Has, Did, Terminal, Unsubmitted, Done,
    Charged, Ended, GrowStale
<1>33. ASSUME MarkBatchImageOutputDeleted PROVE SoleInv'
  BY <1>33, BatchAssumption, <1>0 DEF JobType, LedgerType, WorkerType, SubmitInv,
    UpstreamInv, KnownInv, LockInv, SoleInv, CompletedIsCharged, ClaimsInv, PC,
    WorkerIdle, WorkerBusy, Provider, Spent, Has, Did, Terminal, Unsubmitted, Done,
    Charged, Ended, MarkBatchImageOutputDeleted, WithStatus
<1>34. ASSUME UNCHANGED <<job, ledger, worker>> PROVE SoleInv'
  BY <1>34, <1>0 DEF JobType, LedgerType, WorkerType, SubmitInv, UpstreamInv, KnownInv,
    LockInv, SoleInv, CompletedIsCharged, ClaimsInv, PC, WorkerIdle, WorkerBusy, Provider,
    Spent, Has, Did, Terminal, Unsubmitted, Done, Charged, Ended
<1> QED
  BY <1>1, <1>2, <1>3, <1>4, <1>5, <1>6, <1>7, <1>8, <1>9, <1>10, <1>11, <1>12, <1>13,
    <1>14, <1>15, <1>16, <1>17, <1>18, <1>19, <1>20, <1>21, <1>22, <1>23, <1>24, <1>25,
    <1>26, <1>27, <1>28, <1>29, <1>30, <1>31, <1>32, <1>33, <1>34 DEF Next, SubmitStep,
    RecoveryStep, CancelStep, WorkerStep, Timers, vars, SubmitItems, SubmitProvider,
    AbortOrphanProviderJob, SubmitEnqueue, SubmitEnqueueBillingRetry, Resubmit,
    EnqueueReleaseRetry, CancelRead, CancelUpstream, CancelEnqueue, CancelDies,
    MoveDueDelayedToReady, RecoverStaleActive, LockExpires, UpstreamEnds, SubmitDies,
    RecoveryDies

\* The status tells whether the hold was captured or released.
LEMMA MovedKeeps ==
    ASSUME JobType, LedgerType, SubmitInv, UpstreamInv, KnownInv, SoleInv, MovedInv,
           ClaimsInv, WorkerType, RestType, FaultsType, [Next]_vars
    PROVE  MovedInv'
<1>0. faults.lapsed => faults'.lapsed
  BY FaultsMove
<1>1. ASSUME CreateBatchImageJob PROVE MovedInv'
  BY <1>1, BatchAssumption, <1>0 DEF JobType, LedgerType, SubmitInv, UpstreamInv,
    KnownInv, SoleInv, MovedInv, ClaimsInv, PC, WorkerIdle, WorkerBusy, Provider, Spent,
    Has, Did, Terminal, Unsubmitted, Done, Charged, Ended, Early, CreateBatchImageJob,
    WithStatus, SubmitTo
<1>2. ASSUME SubmitReserve PROVE MovedInv'
  BY <1>2, BatchAssumption, <1>0 DEF JobType, LedgerType, SubmitInv, UpstreamInv,
    KnownInv, SoleInv, MovedInv, ClaimsInv, PC, WorkerIdle, WorkerBusy, Provider, Spent,
    Has, Did, Terminal, Unsubmitted, Done, Charged, Ended, Early, SubmitReserve,
    ReserveBatchImageBalance, Apply, SubmitTo
<1>3. ASSUME SubmitItems PROVE MovedInv'
  BY <1>3, BatchAssumption, <1>0 DEF JobType, LedgerType, SubmitInv, UpstreamInv,
    KnownInv, SoleInv, MovedInv, ClaimsInv, PC, WorkerIdle, WorkerBusy, Provider, Spent,
    Has, Did, Terminal, Unsubmitted, Done, Charged, Ended, Early, SubmitItems, SubmitTo
<1>4. ASSUME SubmitUpload PROVE MovedInv'
  BY <1>4, UploadMoves, <1>0 DEF JobType, LedgerType, SubmitInv, UpstreamInv, KnownInv,
    SoleInv, MovedInv, ClaimsInv, PC, WorkerIdle, WorkerBusy, Provider, Spent, Has, Did,
    Terminal, Unsubmitted, Done, Charged, Ended, Early, JobTo, WorkerTo
<1>5. ASSUME SubmitProvider PROVE MovedInv'
  BY <1>5, BatchAssumption, <1>0 DEF JobType, LedgerType, SubmitInv, UpstreamInv,
    KnownInv, SoleInv, MovedInv, ClaimsInv, PC, WorkerIdle, WorkerBusy, Provider, Spent,
    Has, Did, Terminal, Unsubmitted, Done, Charged, Ended, Early, SubmitProvider, SubmitTo
<1>6. ASSUME UpdateBatchImageJobProviderSubmit PROVE MovedInv'
  BY <1>6, UpdateMoves, <1>0 DEF JobType, LedgerType, SubmitInv, UpstreamInv, KnownInv,
    SoleInv, MovedInv, ClaimsInv, PC, WorkerIdle, WorkerBusy, Provider, Spent, Has, Did,
    Terminal, Unsubmitted, Done, Charged, Ended, Early, JobTo, WorkerTo
<1>7. ASSUME AbortOrphanProviderJob PROVE MovedInv'
  BY <1>7, BatchAssumption, <1>0 DEF JobType, LedgerType, SubmitInv, UpstreamInv,
    KnownInv, SoleInv, MovedInv, ClaimsInv, PC, WorkerIdle, WorkerBusy, Provider, Spent,
    Has, Did, Terminal, Unsubmitted, Done, Charged, Ended, Early, AbortOrphanProviderJob,
    SubmitTo, ProviderCancel
<1>8. ASSUME SubmitEnqueue PROVE MovedInv'
  BY <1>8, BatchAssumption, <1>0 DEF JobType, LedgerType, SubmitInv, UpstreamInv,
    KnownInv, SoleInv, MovedInv, ClaimsInv, PC, WorkerIdle, WorkerBusy, Provider, Spent,
    Has, Did, Terminal, Unsubmitted, Done, Charged, Ended, Early, SubmitEnqueue, SubmitTo,
    Enqueue
<1>9. ASSUME SubmitRelease PROVE MovedInv'
  BY <1>9, BatchAssumption, <1>0 DEF JobType, LedgerType, SubmitInv, UpstreamInv,
    KnownInv, SoleInv, MovedInv, ClaimsInv, PC, WorkerIdle, WorkerBusy, Provider, Spent,
    Has, Did, Terminal, Unsubmitted, Done, Charged, Ended, Early, SubmitRelease, SubmitTo,
    ReleaseBatchImageBalance, Apply, ReleaseFails, ReleaseInsufficient
<1>10. ASSUME RecordBatchImageJobSubmitFailure PROVE MovedInv'
  BY <1>10, FailureMoves, <1>0 DEF JobType, LedgerType, SubmitInv, UpstreamInv, KnownInv,
    SoleInv, MovedInv, ClaimsInv, PC, WorkerIdle, WorkerBusy, Provider, Spent, Has, Did,
    Terminal, Unsubmitted, Done, Charged, Ended, Early, JobTo, WorkerTo
<1>11. ASSUME SubmitEnqueueBillingRetry PROVE MovedInv'
  BY <1>11, BatchAssumption, <1>0 DEF JobType, LedgerType, SubmitInv, UpstreamInv,
    KnownInv, SoleInv, MovedInv, ClaimsInv, PC, WorkerIdle, WorkerBusy, Provider, Spent,
    Has, Did, Terminal, Unsubmitted, Done, Charged, Ended, Early,
    SubmitEnqueueBillingRetry, SubmitTo, Enqueue
<1>12. ASSUME TouchBatchImageJobSubmitting PROVE MovedInv'
  BY <1>12, BatchAssumption, <1>0 DEF JobType, LedgerType, SubmitInv, UpstreamInv,
    KnownInv, SoleInv, MovedInv, ClaimsInv, PC, WorkerIdle, WorkerBusy, Provider, Spent,
    Has, Did, Terminal, Unsubmitted, Done, Charged, Ended, Early,
    TouchBatchImageJobSubmitting
<1>13. ASSUME FailStaleUnsubmittedBatchImageJob PROVE MovedInv'
  BY <1>13, BatchAssumption, <1>0 DEF JobType, LedgerType, SubmitInv, UpstreamInv,
    KnownInv, SoleInv, MovedInv, ClaimsInv, PC, WorkerIdle, WorkerBusy, Provider, Spent,
    Has, Did, Terminal, Unsubmitted, Done, Charged, Ended, Early,
    FailStaleUnsubmittedBatchImageJob, WithStatus
<1>14. ASSUME RecoveryRelease PROVE MovedInv'
  BY <1>14, BatchAssumption, <1>0 DEF JobType, LedgerType, SubmitInv, UpstreamInv,
    KnownInv, SoleInv, MovedInv, ClaimsInv, PC, WorkerIdle, WorkerBusy, Provider, Spent,
    Has, Did, Terminal, Unsubmitted, Done, Charged, Ended, Early, RecoveryRelease,
    ReleaseBatchImageBalance, Apply, ReleaseFails, ReleaseInsufficient
<1>15. ASSUME NEW c \in Cancellers, CancelTransition(c) PROVE MovedInv'
  BY <1>15, CancelTransitionMoves, <1>0 DEF JobType, LedgerType, SubmitInv, UpstreamInv,
    KnownInv, SoleInv, MovedInv, ClaimsInv, PC, WorkerIdle, WorkerBusy, Provider, Spent,
    Has, Did, Terminal, Unsubmitted, Done, Charged, Ended, Early, JobTo, WorkerTo
<1>16. ASSUME NEW c \in Cancellers, CancelRelease(c) PROVE MovedInv'
  BY <1>16, BatchAssumption, <1>0 DEF JobType, LedgerType, SubmitInv, UpstreamInv,
    KnownInv, SoleInv, MovedInv, ClaimsInv, PC, WorkerIdle, WorkerBusy, Provider, Spent,
    Has, Did, Terminal, Unsubmitted, Done, Charged, Ended, Early, CancelRelease, CancelTo,
    ReleaseBatchImageBalance, Apply, ReleaseFails, ReleaseInsufficient
<1>17. ASSUME NEW w \in Workers, ApplyProviderState(w) PROVE MovedInv'
  BY <1>17, ApplyMoves, <1>0 DEF JobType, LedgerType, SubmitInv, UpstreamInv, KnownInv,
    SoleInv, MovedInv, ClaimsInv, PC, WorkerIdle, WorkerBusy, Provider, Spent, Has, Did,
    Terminal, Unsubmitted, Done, Charged, Ended, Early, JobTo, WorkerTo
<1>18. ASSUME NEW w \in Workers, Index(w) PROVE MovedInv'
  BY <1>18, BatchAssumption, <1>0 DEF JobType, LedgerType, SubmitInv, UpstreamInv,
    KnownInv, SoleInv, MovedInv, ClaimsInv, PC, WorkerIdle, WorkerBusy, Provider, Spent,
    Has, Did, Terminal, Unsubmitted, Done, Charged, Ended, Early, Index, Goto, At
<1>19. ASSUME NEW w \in Workers, Indexed(w) PROVE MovedInv'
  BY <1>19, IndexedMoves, <1>0 DEF JobType, LedgerType, SubmitInv, UpstreamInv, KnownInv,
    SoleInv, MovedInv, ClaimsInv, PC, WorkerIdle, WorkerBusy, Provider, Spent, Has, Did,
    Terminal, Unsubmitted, Done, Charged, Ended, Early, JobTo, WorkerTo
<1>20. ASSUME NEW w \in Workers, ReleaseTerminalHold(w) PROVE MovedInv'
  BY <1>20, BatchAssumption, <1>0 DEF JobType, LedgerType, SubmitInv, UpstreamInv,
    KnownInv, SoleInv, MovedInv, ClaimsInv, PC, WorkerIdle, WorkerBusy, Provider, Spent,
    Has, Did, Terminal, Unsubmitted, Done, Charged, Ended, Early, ReleaseTerminalHold,
    Goto, At, ReleaseBatchImageBalance, Apply, ReleaseFails, ReleaseInsufficient
<1>21. ASSUME NEW w \in Workers, CaptureHold(w) PROVE MovedInv'
  BY <1>21, BatchAssumption, <1>0 DEF JobType, LedgerType, SubmitInv, UpstreamInv,
    KnownInv, SoleInv, MovedInv, ClaimsInv, PC, WorkerIdle, WorkerBusy, Provider, Spent,
    Has, Did, Terminal, Unsubmitted, Done, Charged, Ended, Early, CaptureHold, Goto, At,
    CaptureBatchImageBalance, CaptureInsufficient, Apply
<1>22. ASSUME NEW w \in Workers, MarkBatchImageJobSettled(w) PROVE MovedInv'
  BY <1>22, MarkMoves, <1>0 DEF JobType, LedgerType, SubmitInv, UpstreamInv, KnownInv,
    SoleInv, MovedInv, ClaimsInv, PC, WorkerIdle, WorkerBusy, Provider, Spent, Has, Did,
    Terminal, Unsubmitted, Done, Charged, Ended, Early, JobTo, WorkerTo
<1>23. ASSUME NEW w \in Workers, RecordSettlementFailure(w) PROVE MovedInv'
  BY <1>23, BatchAssumption, <1>0 DEF JobType, LedgerType, SubmitInv, UpstreamInv,
    KnownInv, SoleInv, MovedInv, ClaimsInv, PC, WorkerIdle, WorkerBusy, Provider, Spent,
    Has, Did, Terminal, Unsubmitted, Done, Charged, Ended, Early, RecordSettlementFailure,
    Goto, At, CountedRetry
<1>24. ASSUME NEW w \in Workers, ReleaseExhausted(w) PROVE MovedInv'
  BY <1>24, BatchAssumption, <1>0 DEF JobType, LedgerType, SubmitInv, UpstreamInv,
    KnownInv, SoleInv, MovedInv, ClaimsInv, PC, WorkerIdle, WorkerBusy, Provider, Spent,
    Has, Did, Terminal, Unsubmitted, Done, Charged, Ended, Early, ReleaseExhausted, Goto,
    At, CountedRetry, ReleaseBatchImageBalance, Apply, ReleaseFails, ReleaseInsufficient
<1>25. ASSUME NEW w \in Workers, FailExhausted(w) PROVE MovedInv'
  BY <1>25, FailExhaustedMoves, <1>0 DEF JobType, LedgerType, SubmitInv, UpstreamInv,
    KnownInv, SoleInv, MovedInv, ClaimsInv, PC, WorkerIdle, WorkerBusy, Provider, Spent,
    Has, Did, Terminal, Unsubmitted, Done, Charged, Ended, Early, JobTo, WorkerTo
<1>26. ASSUME GrowStale PROVE MovedInv'
  BY <1>26, BatchAssumption, <1>0 DEF JobType, LedgerType, SubmitInv, UpstreamInv,
    KnownInv, SoleInv, MovedInv, ClaimsInv, PC, WorkerIdle, WorkerBusy, Provider, Spent,
    Has, Did, Terminal, Unsubmitted, Done, Charged, Ended, Early, GrowStale
<1>27. ASSUME MarkBatchImageOutputDeleted PROVE MovedInv'
  BY <1>27, BatchAssumption, <1>0 DEF JobType, LedgerType, SubmitInv, UpstreamInv,
    KnownInv, SoleInv, MovedInv, ClaimsInv, PC, WorkerIdle, WorkerBusy, Provider, Spent,
    Has, Did, Terminal, Unsubmitted, Done, Charged, Ended, Early,
    MarkBatchImageOutputDeleted, WithStatus
<1>28. ASSUME SubmitDies PROVE MovedInv'
  BY <1>28, BatchAssumption, <1>0 DEF JobType, LedgerType, SubmitInv, UpstreamInv,
    KnownInv, SoleInv, MovedInv, ClaimsInv, PC, WorkerIdle, WorkerBusy, Provider, Spent,
    Has, Did, Terminal, Unsubmitted, Done, Charged, Ended, Early, SubmitDies, SubmitTo
<1>29. ASSUME UNCHANGED <<job, ledger, submit>> PROVE MovedInv'
  BY <1>29, <1>0 DEF JobType, LedgerType, SubmitInv, UpstreamInv, KnownInv, SoleInv,
    MovedInv, ClaimsInv, PC, WorkerIdle, WorkerBusy, Provider, Spent, Has, Did, Terminal,
    Unsubmitted, Done, Charged, Ended, Early
<1> QED
  BY <1>1, <1>2, <1>3, <1>4, <1>5, <1>6, <1>7, <1>8, <1>9, <1>10, <1>11, <1>12, <1>13,
    <1>14, <1>15, <1>16, <1>17, <1>18, <1>19, <1>20, <1>21, <1>22, <1>23, <1>24, <1>25,
    <1>26, <1>27, <1>28, <1>29 DEF Next, SubmitStep, RecoveryStep, CancelStep, WorkerStep,
    Timers, vars, Resubmit, EnqueueReleaseRetry, CancelRead, CancelUpstream,
    CancelEnqueue, CancelDies, QueueReserve, TryAcquireJobLock, PipelineProcess,
    ProviderProcess, ProviderGet, Settle, Reread, RequeueAfter, Ack, ReleaseJobLock,
    WorkerDies, MoveDueDelayedToReady, RecoverStaleActive, LockExpires, UpstreamEnds,
    RecoveryDies

\* A hold is captured or released, not both.
LEMMA OnceKeeps ==
    ASSUME JobType, LedgerType, SubmitInv, KnownInv, SoleInv, MovedInv, ClaimsInv,
           SettledOnce, WorkerType, RestType, FaultsType, [Next]_vars
    PROVE  SettledOnce'
<1>0. faults.lapsed => faults'.lapsed
  BY FaultsMove
<1>1. ASSUME CreateBatchImageJob PROVE SettledOnce'
  BY <1>1, BatchAssumption, <1>0 DEF JobType, LedgerType, SubmitInv, KnownInv, SoleInv,
    MovedInv, ClaimsInv, SettledOnce, ExhaustedAfterCapture, PC, WorkerIdle, WorkerBusy,
    Provider, Spent, Has, Did, Terminal, Unsubmitted, Done, Charged, Ended, Early,
    CreateBatchImageJob, WithStatus, SubmitTo
<1>2. ASSUME SubmitReserve PROVE SettledOnce'
  BY <1>2, BatchAssumption, <1>0 DEF JobType, LedgerType, SubmitInv, KnownInv, SoleInv,
    MovedInv, ClaimsInv, SettledOnce, ExhaustedAfterCapture, PC, WorkerIdle, WorkerBusy,
    Provider, Spent, Has, Did, Terminal, Unsubmitted, Done, Charged, Ended, Early,
    SubmitReserve, ReserveBatchImageBalance, Apply, SubmitTo
<1>3. ASSUME SubmitUpload PROVE SettledOnce'
  BY <1>3, UploadMoves, <1>0 DEF JobType, LedgerType, SubmitInv, KnownInv, SoleInv,
    MovedInv, ClaimsInv, SettledOnce, ExhaustedAfterCapture, PC, WorkerIdle, WorkerBusy,
    Provider, Spent, Has, Did, Terminal, Unsubmitted, Done, Charged, Ended, Early, JobTo,
    WorkerTo
<1>4. ASSUME UpdateBatchImageJobProviderSubmit PROVE SettledOnce'
  BY <1>4, UpdateMoves, <1>0 DEF JobType, LedgerType, SubmitInv, KnownInv, SoleInv,
    MovedInv, ClaimsInv, SettledOnce, ExhaustedAfterCapture, PC, WorkerIdle, WorkerBusy,
    Provider, Spent, Has, Did, Terminal, Unsubmitted, Done, Charged, Ended, Early, JobTo,
    WorkerTo
<1>5. ASSUME SubmitRelease PROVE SettledOnce'
  BY <1>5, BatchAssumption, <1>0 DEF JobType, LedgerType, SubmitInv, KnownInv, SoleInv,
    MovedInv, ClaimsInv, SettledOnce, ExhaustedAfterCapture, PC, WorkerIdle, WorkerBusy,
    Provider, Spent, Has, Did, Terminal, Unsubmitted, Done, Charged, Ended, Early,
    SubmitRelease, SubmitTo, ReleaseBatchImageBalance, Apply, ReleaseFails,
    ReleaseInsufficient
<1>6. ASSUME RecordBatchImageJobSubmitFailure PROVE SettledOnce'
  BY <1>6, FailureMoves, <1>0 DEF JobType, LedgerType, SubmitInv, KnownInv, SoleInv,
    MovedInv, ClaimsInv, SettledOnce, ExhaustedAfterCapture, PC, WorkerIdle, WorkerBusy,
    Provider, Spent, Has, Did, Terminal, Unsubmitted, Done, Charged, Ended, Early, JobTo,
    WorkerTo
<1>7. ASSUME TouchBatchImageJobSubmitting PROVE SettledOnce'
  BY <1>7, BatchAssumption, <1>0 DEF JobType, LedgerType, SubmitInv, KnownInv, SoleInv,
    MovedInv, ClaimsInv, SettledOnce, ExhaustedAfterCapture, PC, WorkerIdle, WorkerBusy,
    Provider, Spent, Has, Did, Terminal, Unsubmitted, Done, Charged, Ended, Early,
    TouchBatchImageJobSubmitting
<1>8. ASSUME FailStaleUnsubmittedBatchImageJob PROVE SettledOnce'
  BY <1>8, BatchAssumption, <1>0 DEF JobType, LedgerType, SubmitInv, KnownInv, SoleInv,
    MovedInv, ClaimsInv, SettledOnce, ExhaustedAfterCapture, PC, WorkerIdle, WorkerBusy,
    Provider, Spent, Has, Did, Terminal, Unsubmitted, Done, Charged, Ended, Early,
    FailStaleUnsubmittedBatchImageJob, WithStatus
<1>9. ASSUME RecoveryRelease PROVE SettledOnce'
  BY <1>9, BatchAssumption, <1>0 DEF JobType, LedgerType, SubmitInv, KnownInv, SoleInv,
    MovedInv, ClaimsInv, SettledOnce, ExhaustedAfterCapture, PC, WorkerIdle, WorkerBusy,
    Provider, Spent, Has, Did, Terminal, Unsubmitted, Done, Charged, Ended, Early,
    RecoveryRelease, ReleaseBatchImageBalance, Apply, ReleaseFails, ReleaseInsufficient
<1>10. ASSUME NEW c \in Cancellers, CancelTransition(c) PROVE SettledOnce'
  BY <1>10, CancelTransitionMoves, <1>0 DEF JobType, LedgerType, SubmitInv, KnownInv,
    SoleInv, MovedInv, ClaimsInv, SettledOnce, ExhaustedAfterCapture, PC, WorkerIdle,
    WorkerBusy, Provider, Spent, Has, Did, Terminal, Unsubmitted, Done, Charged, Ended,
    Early, JobTo, WorkerTo
<1>11. ASSUME NEW c \in Cancellers, CancelRelease(c) PROVE SettledOnce'
  BY <1>11, BatchAssumption, <1>0 DEF JobType, LedgerType, SubmitInv, KnownInv, SoleInv,
    MovedInv, ClaimsInv, SettledOnce, ExhaustedAfterCapture, PC, WorkerIdle, WorkerBusy,
    Provider, Spent, Has, Did, Terminal, Unsubmitted, Done, Charged, Ended, Early,
    CancelRelease, CancelTo, ReleaseBatchImageBalance, Apply, ReleaseFails,
    ReleaseInsufficient
<1>12. ASSUME NEW w \in Workers, ApplyProviderState(w) PROVE SettledOnce'
  BY <1>12, ApplyMoves, <1>0 DEF JobType, LedgerType, SubmitInv, KnownInv, SoleInv,
    MovedInv, ClaimsInv, SettledOnce, ExhaustedAfterCapture, PC, WorkerIdle, WorkerBusy,
    Provider, Spent, Has, Did, Terminal, Unsubmitted, Done, Charged, Ended, Early, JobTo,
    WorkerTo
<1>13. ASSUME NEW w \in Workers, Index(w) PROVE SettledOnce'
  BY <1>13, BatchAssumption, <1>0 DEF JobType, LedgerType, SubmitInv, KnownInv, SoleInv,
    MovedInv, ClaimsInv, SettledOnce, ExhaustedAfterCapture, PC, WorkerIdle, WorkerBusy,
    Provider, Spent, Has, Did, Terminal, Unsubmitted, Done, Charged, Ended, Early, Index,
    Goto, At
<1>14. ASSUME NEW w \in Workers, Indexed(w) PROVE SettledOnce'
  BY <1>14, IndexedMoves, <1>0 DEF JobType, LedgerType, SubmitInv, KnownInv, SoleInv,
    MovedInv, ClaimsInv, SettledOnce, ExhaustedAfterCapture, PC, WorkerIdle, WorkerBusy,
    Provider, Spent, Has, Did, Terminal, Unsubmitted, Done, Charged, Ended, Early, JobTo,
    WorkerTo
<1>15. ASSUME NEW w \in Workers, ReleaseTerminalHold(w) PROVE SettledOnce'
  BY <1>15, BatchAssumption, <1>0 DEF JobType, LedgerType, SubmitInv, KnownInv, SoleInv,
    MovedInv, ClaimsInv, SettledOnce, ExhaustedAfterCapture, PC, WorkerIdle, WorkerBusy,
    Provider, Spent, Has, Did, Terminal, Unsubmitted, Done, Charged, Ended, Early,
    ReleaseTerminalHold, Goto, At, ReleaseBatchImageBalance, Apply, ReleaseFails,
    ReleaseInsufficient
<1>16. ASSUME NEW w \in Workers, CaptureHold(w) PROVE SettledOnce'
  BY <1>16, BatchAssumption, <1>0 DEF JobType, LedgerType, SubmitInv, KnownInv, SoleInv,
    MovedInv, ClaimsInv, SettledOnce, ExhaustedAfterCapture, PC, WorkerIdle, WorkerBusy,
    Provider, Spent, Has, Did, Terminal, Unsubmitted, Done, Charged, Ended, Early,
    CaptureHold, Goto, At, CaptureBatchImageBalance, CaptureInsufficient, Apply
<1>17. ASSUME NEW w \in Workers, MarkBatchImageJobSettled(w) PROVE SettledOnce'
  BY <1>17, MarkMoves, <1>0 DEF JobType, LedgerType, SubmitInv, KnownInv, SoleInv,
    MovedInv, ClaimsInv, SettledOnce, ExhaustedAfterCapture, PC, WorkerIdle, WorkerBusy,
    Provider, Spent, Has, Did, Terminal, Unsubmitted, Done, Charged, Ended, Early, JobTo,
    WorkerTo
<1>18. ASSUME NEW w \in Workers, RecordSettlementFailure(w) PROVE SettledOnce'
  BY <1>18, BatchAssumption, <1>0 DEF JobType, LedgerType, SubmitInv, KnownInv, SoleInv,
    MovedInv, ClaimsInv, SettledOnce, ExhaustedAfterCapture, PC, WorkerIdle, WorkerBusy,
    Provider, Spent, Has, Did, Terminal, Unsubmitted, Done, Charged, Ended, Early,
    RecordSettlementFailure, Goto, At, CountedRetry
<1>19. ASSUME NEW w \in Workers, ReleaseExhausted(w) PROVE SettledOnce'
  BY <1>19, BatchAssumption, <1>0 DEF JobType, LedgerType, SubmitInv, KnownInv, SoleInv,
    MovedInv, ClaimsInv, SettledOnce, ExhaustedAfterCapture, PC, WorkerIdle, WorkerBusy,
    Provider, Spent, Has, Did, Terminal, Unsubmitted, Done, Charged, Ended, Early,
    ReleaseExhausted, Goto, At, CountedRetry, ReleaseBatchImageBalance, Apply,
    ReleaseFails, ReleaseInsufficient
<1>20. ASSUME NEW w \in Workers, FailExhausted(w) PROVE SettledOnce'
  BY <1>20, FailExhaustedMoves, <1>0 DEF JobType, LedgerType, SubmitInv, KnownInv, SoleInv,
    MovedInv, ClaimsInv, SettledOnce, ExhaustedAfterCapture, PC, WorkerIdle, WorkerBusy,
    Provider, Spent, Has, Did, Terminal, Unsubmitted, Done, Charged, Ended, Early, JobTo,
    WorkerTo
<1>21. ASSUME GrowStale PROVE SettledOnce'
  BY <1>21, BatchAssumption, <1>0 DEF JobType, LedgerType, SubmitInv, KnownInv, SoleInv,
    MovedInv, ClaimsInv, SettledOnce, ExhaustedAfterCapture, PC, WorkerIdle, WorkerBusy,
    Provider, Spent, Has, Did, Terminal, Unsubmitted, Done, Charged, Ended, Early,
    GrowStale
<1>22. ASSUME MarkBatchImageOutputDeleted PROVE SettledOnce'
  BY <1>22, BatchAssumption, <1>0 DEF JobType, LedgerType, SubmitInv, KnownInv, SoleInv,
    MovedInv, ClaimsInv, SettledOnce, ExhaustedAfterCapture, PC, WorkerIdle, WorkerBusy,
    Provider, Spent, Has, Did, Terminal, Unsubmitted, Done, Charged, Ended, Early,
    MarkBatchImageOutputDeleted, WithStatus
<1>23. ASSUME UNCHANGED <<job, ledger>> PROVE SettledOnce'
  BY <1>23, <1>0 DEF JobType, LedgerType, SubmitInv, KnownInv, SoleInv, MovedInv,
    ClaimsInv, SettledOnce, ExhaustedAfterCapture, PC, WorkerIdle, WorkerBusy, Provider,
    Spent, Has, Did, Terminal, Unsubmitted, Done, Charged, Ended, Early
<1> QED
  BY <1>1, <1>2, <1>3, <1>4, <1>5, <1>6, <1>7, <1>8, <1>9, <1>10, <1>11, <1>12, <1>13,
    <1>14, <1>15, <1>16, <1>17, <1>18, <1>19, <1>20, <1>21, <1>22, <1>23 DEF Next,
    SubmitStep, RecoveryStep, CancelStep, WorkerStep, Timers, vars, SubmitItems,
    SubmitProvider, AbortOrphanProviderJob, SubmitEnqueue, SubmitEnqueueBillingRetry,
    Resubmit, EnqueueReleaseRetry, CancelRead, CancelUpstream, CancelEnqueue, CancelDies,
    QueueReserve, TryAcquireJobLock, PipelineProcess, ProviderProcess, ProviderGet,
    Settle, Reread, RequeueAfter, Ack, ReleaseJobLock, WorkerDies, MoveDueDelayedToReady,
    RecoverStaleActive, LockExpires, UpstreamEnds, SubmitDies, RecoveryDies

\* Only the settled mark completes a job, and it comes after the capture.
LEMMA ChargedKeeps ==
    ASSUME JobType, LedgerType, KnownInv, CompletedIsCharged, SubmitInv, WorkerType,
           RestType, [Next]_vars
    PROVE  CompletedIsCharged'
<1>1. ASSUME CreateBatchImageJob PROVE CompletedIsCharged'
  BY <1>1 DEF JobType, LedgerType, KnownInv, CompletedIsCharged, SubmitInv, PC,
    WorkerIdle, WorkerBusy, Provider, Spent, Has, Did, Terminal, Unsubmitted, Done,
    Charged, Ended, CreateBatchImageJob, WithStatus, SubmitTo
<1>2. ASSUME SubmitReserve PROVE CompletedIsCharged'
  BY <1>2 DEF JobType, LedgerType, KnownInv, CompletedIsCharged, SubmitInv, PC,
    WorkerIdle, WorkerBusy, Provider, Spent, Has, Did, Terminal, Unsubmitted, Done,
    Charged, Ended, SubmitReserve, ReserveBatchImageBalance, Apply, SubmitTo
<1>3. ASSUME SubmitUpload PROVE CompletedIsCharged'
  BY <1>3, UploadMoves DEF JobType, LedgerType, KnownInv, CompletedIsCharged, SubmitInv,
    PC, WorkerIdle, WorkerBusy, Provider, Spent, Has, Did, Terminal, Unsubmitted, Done,
    Charged, Ended, JobTo, WorkerTo
<1>4. ASSUME UpdateBatchImageJobProviderSubmit PROVE CompletedIsCharged'
  BY <1>4, UpdateMoves DEF JobType, LedgerType, KnownInv, CompletedIsCharged, SubmitInv,
    PC, WorkerIdle, WorkerBusy, Provider, Spent, Has, Did, Terminal, Unsubmitted, Done,
    Charged, Ended, JobTo, WorkerTo
<1>5. ASSUME SubmitRelease PROVE CompletedIsCharged'
  BY <1>5 DEF JobType, LedgerType, KnownInv, CompletedIsCharged, SubmitInv, PC,
    WorkerIdle, WorkerBusy, Provider, Spent, Has, Did, Terminal, Unsubmitted, Done,
    Charged, Ended, SubmitRelease, SubmitTo, ReleaseBatchImageBalance, Apply,
    ReleaseFails, ReleaseInsufficient
<1>6. ASSUME RecordBatchImageJobSubmitFailure PROVE CompletedIsCharged'
  BY <1>6, FailureMoves DEF JobType, LedgerType, KnownInv, CompletedIsCharged, SubmitInv,
    PC, WorkerIdle, WorkerBusy, Provider, Spent, Has, Did, Terminal, Unsubmitted, Done,
    Charged, Ended, JobTo, WorkerTo
<1>7. ASSUME TouchBatchImageJobSubmitting PROVE CompletedIsCharged'
  BY <1>7 DEF JobType, LedgerType, KnownInv, CompletedIsCharged, SubmitInv, PC,
    WorkerIdle, WorkerBusy, Provider, Spent, Has, Did, Terminal, Unsubmitted, Done,
    Charged, Ended, TouchBatchImageJobSubmitting
<1>8. ASSUME FailStaleUnsubmittedBatchImageJob PROVE CompletedIsCharged'
  BY <1>8 DEF JobType, LedgerType, KnownInv, CompletedIsCharged, SubmitInv, PC,
    WorkerIdle, WorkerBusy, Provider, Spent, Has, Did, Terminal, Unsubmitted, Done,
    Charged, Ended, FailStaleUnsubmittedBatchImageJob, WithStatus
<1>9. ASSUME RecoveryRelease PROVE CompletedIsCharged'
  BY <1>9 DEF JobType, LedgerType, KnownInv, CompletedIsCharged, SubmitInv, PC,
    WorkerIdle, WorkerBusy, Provider, Spent, Has, Did, Terminal, Unsubmitted, Done,
    Charged, Ended, RecoveryRelease, ReleaseBatchImageBalance, Apply, ReleaseFails,
    ReleaseInsufficient
<1>10. ASSUME NEW c \in Cancellers, CancelTransition(c) PROVE CompletedIsCharged'
  BY <1>10, CancelTransitionMoves DEF JobType, LedgerType, KnownInv, CompletedIsCharged,
    SubmitInv, PC, WorkerIdle, WorkerBusy, Provider, Spent, Has, Did, Terminal,
    Unsubmitted, Done, Charged, Ended, JobTo, WorkerTo
<1>11. ASSUME NEW c \in Cancellers, CancelRelease(c) PROVE CompletedIsCharged'
  BY <1>11 DEF JobType, LedgerType, KnownInv, CompletedIsCharged, SubmitInv, PC,
    WorkerIdle, WorkerBusy, Provider, Spent, Has, Did, Terminal, Unsubmitted, Done,
    Charged, Ended, CancelRelease, CancelTo, ReleaseBatchImageBalance, Apply,
    ReleaseFails, ReleaseInsufficient
<1>12. ASSUME NEW w \in Workers, ApplyProviderState(w) PROVE CompletedIsCharged'
  BY <1>12, ApplyMoves DEF JobType, LedgerType, KnownInv, CompletedIsCharged, SubmitInv,
    PC, WorkerIdle, WorkerBusy, Provider, Spent, Has, Did, Terminal, Unsubmitted, Done,
    Charged, Ended, JobTo, WorkerTo
<1>13. ASSUME NEW w \in Workers, Index(w) PROVE CompletedIsCharged'
  BY <1>13 DEF JobType, LedgerType, KnownInv, CompletedIsCharged, SubmitInv, PC,
    WorkerIdle, WorkerBusy, Provider, Spent, Has, Did, Terminal, Unsubmitted, Done,
    Charged, Ended, Index, Goto, At
<1>14. ASSUME NEW w \in Workers, Indexed(w) PROVE CompletedIsCharged'
  BY <1>14, IndexedMoves DEF JobType, LedgerType, KnownInv, CompletedIsCharged, SubmitInv,
    PC, WorkerIdle, WorkerBusy, Provider, Spent, Has, Did, Terminal, Unsubmitted, Done,
    Charged, Ended, JobTo, WorkerTo
<1>15. ASSUME NEW w \in Workers, ReleaseTerminalHold(w) PROVE CompletedIsCharged'
  BY <1>15 DEF JobType, LedgerType, KnownInv, CompletedIsCharged, SubmitInv, PC,
    WorkerIdle, WorkerBusy, Provider, Spent, Has, Did, Terminal, Unsubmitted, Done,
    Charged, Ended, ReleaseTerminalHold, Goto, At, ReleaseBatchImageBalance, Apply,
    ReleaseFails, ReleaseInsufficient
<1>16. ASSUME NEW w \in Workers, CaptureHold(w) PROVE CompletedIsCharged'
  BY <1>16 DEF JobType, LedgerType, KnownInv, CompletedIsCharged, SubmitInv, PC,
    WorkerIdle, WorkerBusy, Provider, Spent, Has, Did, Terminal, Unsubmitted, Done,
    Charged, Ended, CaptureHold, Goto, At, CaptureBatchImageBalance, CaptureInsufficient,
    Apply
<1>17. ASSUME NEW w \in Workers, MarkBatchImageJobSettled(w) PROVE CompletedIsCharged'
  BY <1>17, MarkMoves DEF JobType, LedgerType, KnownInv, CompletedIsCharged, SubmitInv, PC,
    WorkerIdle, WorkerBusy, Provider, Spent, Has, Did, Terminal, Unsubmitted, Done,
    Charged, Ended, JobTo, WorkerTo
<1>18. ASSUME NEW w \in Workers, RecordSettlementFailure(w) PROVE CompletedIsCharged'
  BY <1>18 DEF JobType, LedgerType, KnownInv, CompletedIsCharged, SubmitInv, PC,
    WorkerIdle, WorkerBusy, Provider, Spent, Has, Did, Terminal, Unsubmitted, Done,
    Charged, Ended, RecordSettlementFailure, Goto, At, CountedRetry
<1>19. ASSUME NEW w \in Workers, ReleaseExhausted(w) PROVE CompletedIsCharged'
  BY <1>19 DEF JobType, LedgerType, KnownInv, CompletedIsCharged, SubmitInv, PC,
    WorkerIdle, WorkerBusy, Provider, Spent, Has, Did, Terminal, Unsubmitted, Done,
    Charged, Ended, ReleaseExhausted, Goto, At, CountedRetry, ReleaseBatchImageBalance,
    Apply, ReleaseFails, ReleaseInsufficient
<1>20. ASSUME NEW w \in Workers, FailExhausted(w) PROVE CompletedIsCharged'
  BY <1>20, FailExhaustedMoves DEF JobType, LedgerType, KnownInv, CompletedIsCharged,
    SubmitInv, PC, WorkerIdle, WorkerBusy, Provider, Spent, Has, Did, Terminal,
    Unsubmitted, Done, Charged, Ended, JobTo, WorkerTo
<1>21. ASSUME GrowStale PROVE CompletedIsCharged'
  BY <1>21 DEF JobType, LedgerType, KnownInv, CompletedIsCharged, SubmitInv, PC,
    WorkerIdle, WorkerBusy, Provider, Spent, Has, Did, Terminal, Unsubmitted, Done,
    Charged, Ended, GrowStale
<1>22. ASSUME MarkBatchImageOutputDeleted PROVE CompletedIsCharged'
  BY <1>22 DEF JobType, LedgerType, KnownInv, CompletedIsCharged, SubmitInv, PC,
    WorkerIdle, WorkerBusy, Provider, Spent, Has, Did, Terminal, Unsubmitted, Done,
    Charged, Ended, MarkBatchImageOutputDeleted, WithStatus
<1>23. ASSUME UNCHANGED <<job, ledger>> PROVE CompletedIsCharged'
  BY <1>23 DEF JobType, LedgerType, KnownInv, CompletedIsCharged, SubmitInv, PC,
    WorkerIdle, WorkerBusy, Provider, Spent, Has, Did, Terminal, Unsubmitted, Done,
    Charged, Ended
<1> QED
  BY <1>1, <1>2, <1>3, <1>4, <1>5, <1>6, <1>7, <1>8, <1>9, <1>10, <1>11, <1>12, <1>13,
    <1>14, <1>15, <1>16, <1>17, <1>18, <1>19, <1>20, <1>21, <1>22, <1>23 DEF Next,
    SubmitStep, RecoveryStep, CancelStep, WorkerStep, Timers, vars, SubmitItems,
    SubmitProvider, AbortOrphanProviderJob, SubmitEnqueue, SubmitEnqueueBillingRetry,
    Resubmit, EnqueueReleaseRetry, CancelRead, CancelUpstream, CancelEnqueue, CancelDies,
    QueueReserve, TryAcquireJobLock, PipelineProcess, ProviderProcess, ProviderGet,
    Settle, Reread, RequeueAfter, Ack, ReleaseJobLock, WorkerDies, MoveDueDelayedToReady,
    RecoverStaleActive, LockExpires, UpstreamEnds, SubmitDies, RecoveryDies

\* As long as the hold can be released somebody owes its release.
LEMMA CustodyKeeps ==
    ASSUME JobType, LedgerType, QueueType, RestType, FaultsType, SubmitInv, UpstreamInv,
           SoleInv, KnownInv, QueueInv, CustodyInv, WorkerType, [Next]_vars
    PROVE  CustodyInv'
<1>0. /\ faults.lapsed => faults'.lapsed
      /\ faults.stranded => faults'.stranded
  BY FaultsMove
<1>1. ASSUME CreateBatchImageJob PROVE CustodyInv'
  BY <1>1, BatchAssumption, <1>0 DEF JobType, LedgerType, QueueType, RestType, FaultsType,
    SubmitInv, UpstreamInv, SoleInv, KnownInv, QueueInv, CustodyInv, Custody, Token, PC,
    WorkerIdle, WorkerBusy, Provider, Spent, Has, Did, Terminal, Unsubmitted, Done,
    Charged, Ended, Early, Owing, SubmitEnded, CreateBatchImageJob, WithStatus, SubmitTo
<1>2. ASSUME SubmitReserve PROVE CustodyInv'
  BY <1>2, BatchAssumption, <1>0 DEF JobType, LedgerType, QueueType, RestType, FaultsType,
    SubmitInv, UpstreamInv, SoleInv, KnownInv, QueueInv, CustodyInv, Custody, Token, PC,
    WorkerIdle, WorkerBusy, Provider, Spent, Has, Did, Terminal, Unsubmitted, Done,
    Charged, Ended, Early, Owing, SubmitEnded, SubmitReserve, ReserveBatchImageBalance,
    Apply, SubmitTo
<1>3. ASSUME SubmitItems PROVE CustodyInv'
  BY <1>3, BatchAssumption, <1>0 DEF JobType, LedgerType, QueueType, RestType, FaultsType,
    SubmitInv, UpstreamInv, SoleInv, KnownInv, QueueInv, CustodyInv, Custody, Token, PC,
    WorkerIdle, WorkerBusy, Provider, Spent, Has, Did, Terminal, Unsubmitted, Done,
    Charged, Ended, Early, Owing, SubmitEnded, SubmitItems, SubmitTo
<1>4. ASSUME SubmitUpload PROVE CustodyInv'
  BY <1>4, UploadMoves, <1>0 DEF RestType, FaultsType, SubmitInv, UpstreamInv, SoleInv,
    KnownInv, QueueInv, CustodyInv, Custody, Token, PC, WorkerIdle, WorkerBusy, Provider,
    Spent, Has, Did, Terminal, Unsubmitted, Done, Charged, Ended, Early, Owing,
    SubmitEnded, JobTo, WorkerTo
<1>5. ASSUME SubmitProvider PROVE CustodyInv'
  BY <1>5, BatchAssumption, <1>0 DEF JobType, LedgerType, QueueType, RestType, FaultsType,
    SubmitInv, UpstreamInv, SoleInv, KnownInv, QueueInv, CustodyInv, Custody, Token, PC,
    WorkerIdle, WorkerBusy, Provider, Spent, Has, Did, Terminal, Unsubmitted, Done,
    Charged, Ended, Early, Owing, SubmitEnded, SubmitProvider, SubmitTo
<1>6. ASSUME UpdateBatchImageJobProviderSubmit PROVE CustodyInv'
  BY <1>6, UpdateMoves, <1>0 DEF RestType, FaultsType, SubmitInv, UpstreamInv, SoleInv,
    KnownInv, QueueInv, CustodyInv, Custody, Token, PC, WorkerIdle, WorkerBusy, Provider,
    Spent, Has, Did, Terminal, Unsubmitted, Done, Charged, Ended, Early, Owing,
    SubmitEnded, JobTo, WorkerTo
<1>7. ASSUME AbortOrphanProviderJob PROVE CustodyInv'
  BY <1>7, BatchAssumption, <1>0 DEF JobType, LedgerType, QueueType, RestType, FaultsType,
    SubmitInv, UpstreamInv, SoleInv, KnownInv, QueueInv, CustodyInv, Custody, Token, PC,
    WorkerIdle, WorkerBusy, Provider, Spent, Has, Did, Terminal, Unsubmitted, Done,
    Charged, Ended, Early, Owing, SubmitEnded, AbortOrphanProviderJob, SubmitTo,
    ProviderCancel
<1>8. ASSUME SubmitEnqueue PROVE CustodyInv'
  <2>1. ASSUME Enqueue PROVE CustodyInv'
    BY <2>1, EnqueueMoves DEF CustodyInv, Custody
  <2>2. ASSUME EnqueueFails PROVE CustodyInv'
    BY <2>2, Strands DEF CustodyInv
  <2> QED
    BY <1>8, <2>1, <2>2 DEF SubmitEnqueue
<1>9. ASSUME SubmitRelease PROVE CustodyInv'
  BY <1>9, BatchAssumption, <1>0 DEF JobType, LedgerType, QueueType, RestType, FaultsType,
    SubmitInv, UpstreamInv, SoleInv, KnownInv, QueueInv, CustodyInv, Custody, Token, PC,
    WorkerIdle, WorkerBusy, Provider, Spent, Has, Did, Terminal, Unsubmitted, Done,
    Charged, Ended, Early, Owing, SubmitEnded, SubmitRelease, SubmitTo,
    ReleaseBatchImageBalance, Apply, ReleaseFails, ReleaseInsufficient
<1>10. ASSUME RecordBatchImageJobSubmitFailure PROVE CustodyInv'
  BY <1>10, FailureMoves, <1>0 DEF RestType, FaultsType, SubmitInv, UpstreamInv, SoleInv,
    KnownInv, QueueInv, CustodyInv, Custody, Token, PC, WorkerIdle, WorkerBusy, Provider,
    Spent, Has, Did, Terminal, Unsubmitted, Done, Charged, Ended, Early, Owing,
    SubmitEnded, JobTo, WorkerTo
<1>11. ASSUME SubmitEnqueueBillingRetry PROVE CustodyInv'
  <2>1. ASSUME Enqueue PROVE CustodyInv'
    BY <2>1, EnqueueMoves DEF CustodyInv, Custody
  <2>2. ASSUME EnqueueFails PROVE CustodyInv'
    BY <2>2, Strands DEF CustodyInv
  <2> QED
    BY <1>11, <2>1, <2>2 DEF SubmitEnqueueBillingRetry
<1>12. ASSUME TouchBatchImageJobSubmitting PROVE CustodyInv'
  BY <1>12, BatchAssumption, <1>0 DEF JobType, LedgerType, QueueType, RestType,
    FaultsType, SubmitInv, UpstreamInv, SoleInv, KnownInv, QueueInv, CustodyInv, Custody,
    Token, PC, WorkerIdle, WorkerBusy, Provider, Spent, Has, Did, Terminal, Unsubmitted,
    Done, Charged, Ended, Early, Owing, SubmitEnded, TouchBatchImageJobSubmitting
<1>13. ASSUME Resubmit PROVE CustodyInv'
  <2>1. ASSUME Enqueue PROVE CustodyInv'
    BY <2>1, EnqueueMoves DEF CustodyInv, Custody
  <2> QED
    BY <1>13, <2>1 DEF Resubmit
<1>14. ASSUME FailStaleUnsubmittedBatchImageJob PROVE CustodyInv'
  BY <1>14, BatchAssumption, <1>0 DEF JobType, LedgerType, QueueType, RestType,
    FaultsType, SubmitInv, UpstreamInv, SoleInv, KnownInv, QueueInv, CustodyInv, Custody,
    Token, PC, WorkerIdle, WorkerBusy, Provider, Spent, Has, Did, Terminal, Unsubmitted,
    Done, Charged, Ended, Early, Owing, SubmitEnded, FailStaleUnsubmittedBatchImageJob,
    WithStatus
<1>15. ASSUME RecoveryRelease PROVE CustodyInv'
  BY <1>15, BatchAssumption, <1>0 DEF JobType, LedgerType, QueueType, RestType,
    FaultsType, SubmitInv, UpstreamInv, SoleInv, KnownInv, QueueInv, CustodyInv, Custody,
    Token, PC, WorkerIdle, WorkerBusy, Provider, Spent, Has, Did, Terminal, Unsubmitted,
    Done, Charged, Ended, Early, Owing, SubmitEnded, RecoveryRelease,
    ReleaseBatchImageBalance, Apply, ReleaseFails, ReleaseInsufficient
<1>16. ASSUME EnqueueReleaseRetry PROVE CustodyInv'
  <2>1. ASSUME Enqueue PROVE CustodyInv'
    BY <2>1, EnqueueMoves DEF CustodyInv, Custody
  <2>2. ASSUME EnqueueFails PROVE CustodyInv'
    BY <2>2, Strands DEF CustodyInv
  <2> QED
    BY <1>16, <2>1, <2>2 DEF EnqueueReleaseRetry
<1>17. ASSUME NEW c \in Cancellers, CancelRead(c) PROVE CustodyInv'
  BY <1>17, BatchAssumption, <1>0 DEF JobType, LedgerType, QueueType, RestType,
    FaultsType, SubmitInv, UpstreamInv, SoleInv, KnownInv, QueueInv, CustodyInv, Custody,
    Token, PC, WorkerIdle, WorkerBusy, Provider, Spent, Has, Did, Terminal, Unsubmitted,
    Done, Charged, Ended, Early, Owing, SubmitEnded, CancelRead, CancelTo
<1>18. ASSUME NEW c \in Cancellers, CancelUpstream(c) PROVE CustodyInv'
  BY <1>18, BatchAssumption, <1>0 DEF JobType, LedgerType, QueueType, RestType,
    FaultsType, SubmitInv, UpstreamInv, SoleInv, KnownInv, QueueInv, CustodyInv, Custody,
    Token, PC, WorkerIdle, WorkerBusy, Provider, Spent, Has, Did, Terminal, Unsubmitted,
    Done, Charged, Ended, Early, Owing, SubmitEnded, CancelUpstream, CancelTo,
    ProviderCancel
<1>19. ASSUME NEW c \in Cancellers, CancelTransition(c) PROVE CustodyInv'
  BY <1>19, CancelTransitionMoves, <1>0 DEF RestType, FaultsType, SubmitInv, UpstreamInv,
    SoleInv, KnownInv, QueueInv, CustodyInv, Custody, Token, PC, WorkerIdle, WorkerBusy,
    Provider, Spent, Has, Did, Terminal, Unsubmitted, Done, Charged, Ended, Early, Owing,
    SubmitEnded, JobTo, WorkerTo
<1>20. ASSUME NEW c \in Cancellers, CancelRelease(c) PROVE CustodyInv'
  BY <1>20, BatchAssumption, <1>0 DEF JobType, LedgerType, QueueType, RestType,
    FaultsType, SubmitInv, UpstreamInv, SoleInv, KnownInv, QueueInv, CustodyInv, Custody,
    Token, PC, WorkerIdle, WorkerBusy, Provider, Spent, Has, Did, Terminal, Unsubmitted,
    Done, Charged, Ended, Early, Owing, SubmitEnded, CancelRelease, CancelTo,
    ReleaseBatchImageBalance, Apply, ReleaseFails, ReleaseInsufficient
<1>21. ASSUME NEW c \in Cancellers, CancelEnqueue(c) PROVE CustodyInv'
  <2>1. ASSUME Enqueue PROVE CustodyInv'
    BY <2>1, EnqueueMoves DEF CustodyInv, Custody
  <2>2. ASSUME EnqueueFails PROVE CustodyInv'
    BY <2>2, Strands DEF CustodyInv
  <2>3. ASSUME cancel[c] # "retry", UNCHANGED queue PROVE CustodyInv'
    BY <1>21, <2>3, <1>0 DEF CancelEnqueue, CancelTo, RestType, CustodyInv, Custody, Token, Has
  <2> QED
    BY <1>21, <2>1, <2>2, <2>3 DEF CancelEnqueue
<1>22. ASSUME NEW c \in Cancellers, CancelDies(c) PROVE CustodyInv'
  <2>1. CASE cancel[c] \in {"release", "retry"}
    <3>1. Dies(TRUE)
      BY <1>22, <2>1 DEF CancelDies, Dies, Fault
    <3> QED
      BY <3>1, Strands DEF CustodyInv
  <2>2. CASE cancel[c] \notin {"release", "retry"}
    BY <1>22, <2>2, <1>0 DEF CancelDies, CancelTo, RestType, CustodyInv, Custody, Token, Has
  <2> QED
    BY <2>1, <2>2
<1>23. ASSUME NEW w \in Workers, QueueReserve(w) PROVE CustodyInv'
  BY <1>23, BatchAssumption, <1>0 DEF JobType, LedgerType, QueueType, RestType,
    FaultsType, SubmitInv, UpstreamInv, SoleInv, KnownInv, QueueInv, CustodyInv, Custody,
    Token, PC, WorkerIdle, WorkerBusy, Provider, Spent, Has, Did, Terminal, Unsubmitted,
    Done, Charged, Ended, Early, Owing, SubmitEnded, QueueReserve, Goto, At
<1>24. ASSUME NEW w \in Workers, ApplyProviderState(w) PROVE CustodyInv'
  BY <1>24, ApplyMoves, <1>0 DEF RestType, FaultsType, SubmitInv, UpstreamInv, SoleInv,
    KnownInv, QueueInv, CustodyInv, Custody, Token, PC, WorkerIdle, WorkerBusy, Provider,
    Spent, Has, Did, Terminal, Unsubmitted, Done, Charged, Ended, Early, Owing,
    SubmitEnded, JobTo, WorkerTo
<1>25. ASSUME NEW w \in Workers, Index(w) PROVE CustodyInv'
  BY <1>25, BatchAssumption, <1>0 DEF JobType, LedgerType, QueueType, RestType,
    FaultsType, SubmitInv, UpstreamInv, SoleInv, KnownInv, QueueInv, CustodyInv, Custody,
    Token, PC, WorkerIdle, WorkerBusy, Provider, Spent, Has, Did, Terminal, Unsubmitted,
    Done, Charged, Ended, Early, Owing, SubmitEnded, Index, Goto, At
<1>26. ASSUME NEW w \in Workers, Indexed(w) PROVE CustodyInv'
  BY <1>26, IndexedMoves, <1>0 DEF RestType, FaultsType, SubmitInv, UpstreamInv, SoleInv,
    KnownInv, QueueInv, CustodyInv, Custody, Token, PC, WorkerIdle, WorkerBusy, Provider,
    Spent, Has, Did, Terminal, Unsubmitted, Done, Charged, Ended, Early, Owing,
    SubmitEnded, JobTo, WorkerTo
<1>27. ASSUME NEW w \in Workers, ReleaseTerminalHold(w) PROVE CustodyInv'
  BY <1>27, BatchAssumption, <1>0 DEF JobType, LedgerType, QueueType, RestType,
    FaultsType, SubmitInv, UpstreamInv, SoleInv, KnownInv, QueueInv, CustodyInv, Custody,
    Token, PC, WorkerIdle, WorkerBusy, Provider, Spent, Has, Did, Terminal, Unsubmitted,
    Done, Charged, Ended, Early, Owing, SubmitEnded, ReleaseTerminalHold, Goto, At,
    ReleaseBatchImageBalance, Apply, ReleaseFails, ReleaseInsufficient
<1>28. ASSUME NEW w \in Workers, CaptureHold(w) PROVE CustodyInv'
  BY <1>28, BatchAssumption, <1>0 DEF JobType, LedgerType, QueueType, RestType,
    FaultsType, SubmitInv, UpstreamInv, SoleInv, KnownInv, QueueInv, CustodyInv, Custody,
    Token, PC, WorkerIdle, WorkerBusy, Provider, Spent, Has, Did, Terminal, Unsubmitted,
    Done, Charged, Ended, Early, Owing, SubmitEnded, CaptureHold, Goto, At,
    CaptureBatchImageBalance, CaptureInsufficient, Apply
<1>29. ASSUME NEW w \in Workers, MarkBatchImageJobSettled(w) PROVE CustodyInv'
  BY <1>29, MarkMoves, <1>0 DEF RestType, FaultsType, SubmitInv, UpstreamInv, SoleInv,
    KnownInv, QueueInv, CustodyInv, Custody, Token, PC, WorkerIdle, WorkerBusy, Provider,
    Spent, Has, Did, Terminal, Unsubmitted, Done, Charged, Ended, Early, Owing,
    SubmitEnded, JobTo, WorkerTo
<1>30. ASSUME NEW w \in Workers, RecordSettlementFailure(w) PROVE CustodyInv'
  BY <1>30, BatchAssumption, <1>0 DEF JobType, LedgerType, QueueType, RestType,
    FaultsType, SubmitInv, UpstreamInv, SoleInv, KnownInv, QueueInv, CustodyInv, Custody,
    Token, PC, WorkerIdle, WorkerBusy, Provider, Spent, Has, Did, Terminal, Unsubmitted,
    Done, Charged, Ended, Early, Owing, SubmitEnded, RecordSettlementFailure, Goto, At,
    CountedRetry
<1>31. ASSUME NEW w \in Workers, ReleaseExhausted(w) PROVE CustodyInv'
  BY <1>31, BatchAssumption, <1>0 DEF JobType, LedgerType, QueueType, RestType,
    FaultsType, SubmitInv, UpstreamInv, SoleInv, KnownInv, QueueInv, CustodyInv, Custody,
    Token, PC, WorkerIdle, WorkerBusy, Provider, Spent, Has, Did, Terminal, Unsubmitted,
    Done, Charged, Ended, Early, Owing, SubmitEnded, ReleaseExhausted, Goto, At,
    CountedRetry, ReleaseBatchImageBalance, Apply, ReleaseFails, ReleaseInsufficient
<1>32. ASSUME NEW w \in Workers, FailExhausted(w) PROVE CustodyInv'
  BY <1>32, FailExhaustedMoves, <1>0 DEF RestType, FaultsType, SubmitInv, UpstreamInv,
    SoleInv, KnownInv, QueueInv, CustodyInv, Custody, Token, PC, WorkerIdle, WorkerBusy,
    Provider, Spent, Has, Did, Terminal, Unsubmitted, Done, Charged, Ended, Early, Owing,
    SubmitEnded, JobTo, WorkerTo
<1>33. ASSUME NEW w \in Workers, RequeueAfter(w) PROVE CustodyInv'
  BY <1>33, BatchAssumption, <1>0 DEF JobType, LedgerType, QueueType, RestType,
    FaultsType, SubmitInv, UpstreamInv, SoleInv, KnownInv, QueueInv, CustodyInv, Custody,
    Token, PC, WorkerIdle, WorkerBusy, Provider, Spent, Has, Did, Terminal, Unsubmitted,
    Done, Charged, Ended, Early, Owing, SubmitEnded, RequeueAfter, Goto, At
<1>34. ASSUME NEW w \in Workers, Ack(w) PROVE CustodyInv'
  BY <1>34, BatchAssumption, <1>0 DEF JobType, LedgerType, QueueType, RestType,
    FaultsType, SubmitInv, UpstreamInv, SoleInv, KnownInv, QueueInv, CustodyInv, Custody,
    Token, PC, WorkerIdle, WorkerBusy, Provider, Spent, Has, Did, Terminal, Unsubmitted,
    Done, Charged, Ended, Early, Owing, SubmitEnded, Ack, Goto, At
<1>35. ASSUME MoveDueDelayedToReady PROVE CustodyInv'
  BY <1>35, BatchAssumption, <1>0 DEF JobType, LedgerType, QueueType, RestType,
    FaultsType, SubmitInv, UpstreamInv, SoleInv, KnownInv, QueueInv, CustodyInv, Custody,
    Token, PC, WorkerIdle, WorkerBusy, Provider, Spent, Has, Did, Terminal, Unsubmitted,
    Done, Charged, Ended, Early, Owing, SubmitEnded, MoveDueDelayedToReady
<1>36. ASSUME RecoverStaleActive PROVE CustodyInv'
  BY <1>36, BatchAssumption, <1>0 DEF JobType, LedgerType, QueueType, RestType,
    FaultsType, SubmitInv, UpstreamInv, SoleInv, KnownInv, QueueInv, CustodyInv, Custody,
    Token, PC, WorkerIdle, WorkerBusy, Provider, Spent, Has, Did, Terminal, Unsubmitted,
    Done, Charged, Ended, Early, Owing, SubmitEnded, RecoverStaleActive
<1>37. ASSUME GrowStale PROVE CustodyInv'
  BY <1>37, BatchAssumption, <1>0 DEF JobType, LedgerType, QueueType, RestType,
    FaultsType, SubmitInv, UpstreamInv, SoleInv, KnownInv, QueueInv, CustodyInv, Custody,
    Token, PC, WorkerIdle, WorkerBusy, Provider, Spent, Has, Did, Terminal, Unsubmitted,
    Done, Charged, Ended, Early, Owing, SubmitEnded, GrowStale
<1>38. ASSUME MarkBatchImageOutputDeleted PROVE CustodyInv'
  BY <1>38, BatchAssumption, <1>0 DEF JobType, LedgerType, QueueType, RestType,
    FaultsType, SubmitInv, UpstreamInv, SoleInv, KnownInv, QueueInv, CustodyInv, Custody,
    Token, PC, WorkerIdle, WorkerBusy, Provider, Spent, Has, Did, Terminal, Unsubmitted,
    Done, Charged, Ended, Early, Owing, SubmitEnded, MarkBatchImageOutputDeleted,
    WithStatus
<1>39. ASSUME SubmitDies PROVE CustodyInv'
  <2>1. CASE submit \in Owing /\ job.status \notin Unsubmitted
    <3>1. Dies(TRUE)
      BY <1>39, <2>1 DEF SubmitDies, Owing, Dies, Fault
    <3> QED
      BY <3>1, Strands DEF CustodyInv
  <2>2. CASE submit \notin Owing \/ job.status \in Unsubmitted
    BY <1>39, <2>2, <1>0 DEF SubmitDies, SubmitTo, CustodyInv, Custody, Token, Has
  <2> QED
    BY <2>1, <2>2
<1>40. ASSUME RecoveryDies PROVE CustodyInv'
  <2>1. Dies(TRUE)
    BY <1>40 DEF RecoveryDies
  <2> QED
    BY <2>1, Strands DEF CustodyInv
<1>41. ASSUME UNCHANGED <<job, ledger, queue, submit, cancel, recovery>> PROVE CustodyInv'
  BY <1>41, <1>0 DEF JobType, LedgerType, QueueType, RestType, FaultsType, SubmitInv,
    UpstreamInv, SoleInv, KnownInv, QueueInv, CustodyInv, Custody, Token, PC, WorkerIdle,
    WorkerBusy, Provider, Spent, Has, Did, Terminal, Unsubmitted, Done, Charged, Ended,
    Early, Owing, SubmitEnded
<1> QED
  BY <1>1, <1>2, <1>3, <1>4, <1>5, <1>6, <1>7, <1>8, <1>9, <1>10, <1>11, <1>12, <1>13,
    <1>14, <1>15, <1>16, <1>17, <1>18, <1>19, <1>20, <1>21, <1>22, <1>23, <1>24, <1>25,
    <1>26, <1>27, <1>28, <1>29, <1>30, <1>31, <1>32, <1>33, <1>34, <1>35, <1>36, <1>37,
    <1>38, <1>39, <1>40, <1>41 DEF Next, SubmitStep, RecoveryStep, CancelStep, WorkerStep,
    Timers, vars, TryAcquireJobLock, PipelineProcess, ProviderProcess, ProviderGet,
    Settle, Reread, ReleaseJobLock, WorkerDies, LockExpires, UpstreamEnds

-----------------------------------------------------------------------------
(* The specification *)

\* Before Submit there is nothing.
LEMMA InitInv == Init => IInv
<1> SUFFICES ASSUME Init PROVE IInv
  OBVIOUS
<1>1. JobType
  BY BatchAssumption DEF Init, JobType, Statuses
<1>2. LedgerType
  BY BatchAssumption DEF Init, LedgerType
<1>3. QueueType /\ UpstreamType /\ FaultsType
  BY BatchAssumption DEF Init, QueueType, UpstreamType, UpstreamStates, FaultsType
<1>4. WorkerType /\ RestType
  BY DEF Init, WorkerType, RestType, At, WorkerIdle, WorkerBusy, Statuses, UpstreamStates, SubmitSteps,
    CancelSteps
<1>5. /\ job.status = "none" /\ ~job.provider /\ submit = "idle"
      /\ ledger.claims = {} /\ ledger.moved = {}
      /\ upstream.state = "none" /\ ~queue.inflight /\ recovery = "idle"
  BY DEF Init
<1>6. /\ \A w \in Workers : PC(w) = "idle"
      /\ \A c \in Cancellers : cancel[c] = "idle"
  BY DEF Init, PC, At
<1>7. ClaimsInv /\ SubmitInv
  BY <1>5 DEF ClaimsInv, SubmitInv, Has, Did, Provider, Unsubmitted, Charged
<1>8. UpstreamInv /\ KnownInv
  BY <1>5, <1>6 DEF UpstreamInv, KnownInv, Provider
<1>9. LockInv /\ SoleInv /\ QueueInv
  BY <1>5, <1>6 DEF LockInv, SoleInv, QueueInv, WorkerBusy
<1>10. MovedInv /\ SettledOnce /\ CompletedIsCharged /\ CustodyInv
  BY <1>5 DEF MovedInv, SettledOnce, CompletedIsCharged, CustodyInv, Has, Did
<1> QED
  BY <1>1, <1>2, <1>3, <1>4, <1>7, <1>8, <1>9, <1>10 DEF IInv

\* The invariant is inductive.
LEMMA StepInv ==
    ASSUME IInv, [Next]_vars
    PROVE  IInv'
<1> USE DEF IInv
<1>1. JobType' /\ LedgerType' /\ UpstreamType' /\ WorkerType' /\ RestType'
  BY JobKeepsType, LedgerKeepsType, UpstreamKeepsType, WorkerKeepsType, RestKeepsType
<1>2. QueueType' /\ QueueInv' /\ FaultsType'
  BY QueueKeeps, FaultsMove
<1>3. ClaimsInv' /\ SubmitInv' /\ UpstreamInv' /\ KnownInv'
  BY ClaimsKeep, SubmitKeeps, UpstreamKeeps, KnownKeeps
<1>4. LockInv' /\ SoleInv' /\ MovedInv'
  BY LockKeeps, SoleKeeps, MovedKeeps
<1>5. SettledOnce' /\ CompletedIsCharged' /\ CustodyInv'
  BY OnceKeeps, ChargedKeeps, CustodyKeeps
<1> QED
  BY <1>1, <1>2, <1>3, <1>4, <1>5

\* So it holds in every reachable state.
LEMMA Invariance == Spec => []IInv
<1>1. IInv /\ [Next]_vars => IInv'
  BY StepInv
<1> QED
  BY InitInv, <1>1, PTL DEF Spec

\* Every reachable state has its types; the balance and the frozen balance are never
\* negative, though the frozen balance is shared with the user's other jobs.
THEOREM TypeCorrect == Spec => []TypeOK
<1>1. IInv => TypeOK
  BY DEF IInv, JobType, LedgerType, QueueType, UpstreamType, UpstreamStates, WorkerType, RestType,
    FaultsType, TypeOK
<1> QED
  BY <1>1, Invariance, PTL

\* The capture and the release of a hold are alternatives for any number of workers and
\* Cancel requests, unless the settlement gave up after a capture or the lock lapsed.
THEOREM CapturedOrReleased == Spec => []SettledOnce
<1>1. IInv => SettledOnce
  BY DEF IInv
<1> QED
  BY <1>1, Invariance, PTL

\* No job is completed without its cost having been taken.
THEOREM CompletedCharged == Spec => []CompletedIsCharged
<1>1. IInv => CompletedIsCharged
  BY DEF IInv
<1> QED
  BY <1>1, Invariance, PTL

\* No job that failed keeps running at the provider once its submission has ended.
THEOREM GivenUpAborted == Spec => []GivenUpIsAborted
<1>1. IInv => GivenUpIsAborted
  BY DEF IInv, UpstreamInv, GivenUpIsAborted
<1> QED
  BY <1>1, Invariance, PTL

\* As long as money is held for the job somebody is left to settle or release it, but for
\* the faults the code has no answer to.
THEOREM HoldKept == Spec => []HoldInCustody
<1>1. ASSUME IInv, Held, ~Excused PROVE InCustody
  <2>1. Has("hold") /\ ~Has("release") /\ ~Has("capture")
    BY <1>1 DEF IInv, ClaimsInv, Held, Excused, ReleasedTooEarly, Has, Did
  <2>2. ~faults.stranded /\ ~faults.lapsed
    BY <1>1 DEF Excused
  <2>3. Custody
    BY <1>1, <2>1, <2>2 DEF IInv, CustodyInv
  <2> QED
    BY <2>3 DEF Custody, InCustody, Token, Owing, SubmitEnded
<1>2. IInv => HoldInCustody
  BY <1>1 DEF HoldInCustody
<1> QED
  BY <1>2, Invariance, PTL

-----------------------------------------------------------------------------
(* The refinement *)

\* A step of the hold, or none that moves money.
HoldStep == [Ledger!HNext]_(Ledger!holdVars)

\* The reservation.
LEMMA ReserveRefines ==
    ASSUME LedgerType, ClaimsInv, ReserveBatchImageBalance
    PROVE  HoldStep
<1>1. CASE UNCHANGED ledger
  BY <1>1 DEF HoldStep, Ledger!holdVars, HoldState
<1>2. CASE ~Has("hold") /\ ledger.balance >= Hold /\ Apply("hold", "reserved", -Hold, Hold)
  <2>1. ledger.moved = {} /\ HoldState = "none"
    BY <1>2 DEF ClaimsInv, Did, LedgerType, HoldState
  <2>2. /\ ledger'.moved = {"reserved"}
        /\ ledger'.balance = ledger.balance + (-Hold) /\ ledger'.frozen = ledger.frozen + Hold
    BY <1>2, <2>1 DEF Apply
  <2>3. HoldState' = "held"
    BY <2>2 DEF HoldState
  <2>4. ledger'.balance = ledger.balance - Hold
    BY <2>2, BatchAssumption DEF LedgerType
  <2>5. Ledger!Reserve
    BY <1>2, <2>1, <2>2, <2>3, <2>4 DEF Ledger!Reserve
  <2> QED
    BY <2>5 DEF HoldStep, Ledger!HNext
<1> QED
  BY <1>1, <1>2 DEF ReserveBatchImageBalance, Has

\* The release, of a hold or of one that was captured before.
LEMMA ReleaseRefines ==
    ASSUME LedgerType, ClaimsInv, ReleaseBatchImageBalance
    PROVE  HoldStep
<1>1. CASE UNCHANGED <<ledger.balance, ledger.frozen, ledger.moved>>
  BY <1>1 DEF HoldStep, Ledger!holdVars, HoldState
<1>2. CASE /\ ~Has("release") /\ Has("hold")
           /\ ledger.frozen >= Hold /\ Apply("release", "released", Hold, -Hold)
  <2>1. Did("reserved") /\ ~Did("released")
    BY <1>2 DEF ClaimsInv
  <2>2. /\ ledger'.moved = ledger.moved \cup {"released"}
        /\ ledger'.balance = ledger.balance + Hold /\ ledger'.frozen = ledger.frozen + (-Hold)
    BY <1>2 DEF Apply
  <2>3. ledger'.frozen = ledger.frozen - Hold
    BY <2>2, BatchAssumption DEF LedgerType
  <2>4. CASE Did("captured")
    <3>1. HoldState = "captured" /\ HoldState' = "both"
      BY <2>1, <2>2, <2>4 DEF Did, HoldState
    <3>2. Ledger!MoveAgain
      BY <1>2, <2>2, <2>3, <3>1 DEF Ledger!MoveAgain, Ledger!Move
    <3> QED
      BY <3>2 DEF HoldStep, Ledger!HNext
  <2>5. CASE ~Did("captured")
    <3>1. HoldState = "held" /\ HoldState' = "released"
      BY <2>1, <2>2, <2>5 DEF Did, HoldState
    <3>2. Ledger!Release
      BY <1>2, <2>2, <2>3, <3>1 DEF Ledger!Release, Ledger!Move
    <3> QED
      BY <3>2 DEF HoldStep, Ledger!HNext
  <2> QED
    BY <2>4, <2>5
<1>3. CASE ledger' = [ledger EXCEPT !.claims = @ \cup {"release"}]
  BY <1>1, <1>3 DEF LedgerType
<1>4. CASE UNCHANGED ledger
  BY <1>1, <1>4
<1> QED
  BY <1>2, <1>3, <1>4 DEF ReleaseBatchImageBalance, Has

\* The capture, of a hold or of one that was released before.
LEMMA CaptureRefines ==
    ASSUME LedgerType, ClaimsInv, Did("reserved"), job.cost \in 0..Hold, CaptureBatchImageBalance
    PROVE  HoldStep
<1>1. CASE UNCHANGED ledger
  BY <1>1 DEF HoldStep, Ledger!holdVars, HoldState
<1>2. CASE /\ ~Has("capture") /\ ledger.frozen >= Hold
           /\ Apply("capture", "captured", Hold - job.cost, -Hold)
  <2>1. ~Did("captured")
    BY <1>2 DEF ClaimsInv
  <2>2. /\ ledger'.moved = ledger.moved \cup {"captured"}
        /\ ledger'.balance = ledger.balance + (Hold - job.cost)
        /\ ledger'.frozen = ledger.frozen + (-Hold)
    BY <1>2 DEF Apply
  <2>3. ledger'.frozen = ledger.frozen - Hold
    BY <2>2, BatchAssumption DEF LedgerType
  <2>4. CASE Did("released")
    <3>1. HoldState = "released" /\ HoldState' = "both"
      BY <2>1, <2>2, <2>4 DEF Did, HoldState
    <3>2. Ledger!Move("both", Hold - job.cost)
      BY <1>2, <2>2, <2>3, <3>1 DEF Ledger!Move
    <3>3. Ledger!MoveAgain
      BY <3>1, <3>2 DEF Ledger!MoveAgain
    <3> QED
      BY <3>3 DEF HoldStep, Ledger!HNext
  <2>5. CASE ~Did("released")
    <3>1. HoldState = "held" /\ HoldState' = "captured"
      BY <2>1, <2>2, <2>5 DEF Did, HoldState
    <3>2. Ledger!Move("captured", Hold - job.cost)
      BY <1>2, <2>2, <2>3, <3>1 DEF Ledger!Move
    <3>3. Ledger!Capture
      BY <3>1, <3>2 DEF Ledger!Capture
    <3> QED
      BY <3>3 DEF HoldStep, Ledger!HNext
  <2> QED
    BY <2>4, <2>5
<1> QED
  BY <1>1, <1>2 DEF CaptureBatchImageBalance, Has

\* Every step is a step of the hold, or leaves the user's money alone.
LEMMA StepRefines ==
    ASSUME IInv, [Next]_vars
    PROVE  HoldStep
<1>0. UNCHANGED ledger => HoldStep
  BY DEF HoldStep, Ledger!holdVars, HoldState
<1>1. ASSUME SubmitReserve PROVE HoldStep
  BY <1>1, <1>0, ReserveRefines DEF IInv, SubmitReserve
<1>2. ASSUME SubmitRelease PROVE HoldStep
  BY <1>2, <1>0, ReleaseRefines DEF IInv, SubmitRelease, ReleaseFails
<1>3. ASSUME RecoveryRelease PROVE HoldStep
  BY <1>3, <1>0, ReleaseRefines DEF IInv, RecoveryRelease, ReleaseFails
<1>4. ASSUME NEW c \in Cancellers, CancelRelease(c) PROVE HoldStep
  BY <1>4, <1>0, ReleaseRefines DEF IInv, CancelRelease, ReleaseFails
<1>5. ASSUME NEW w \in Workers, ReleaseTerminalHold(w) PROVE HoldStep
  BY <1>5, <1>0, ReleaseRefines DEF IInv, ReleaseTerminalHold, ReleaseFails
<1>6. ASSUME NEW w \in Workers, CaptureHold(w) PROVE HoldStep
  <2>1. PC(w) = "capture"
    BY <1>6 DEF CaptureHold, PC
  <2>2. job.cost <= Hold
    BY <2>1 DEF IInv, KnownInv
  <2>6. Provider
    BY <2>1 DEF IInv, UpstreamInv
  <2>7. Did("reserved")
    BY <2>6 DEF IInv, SubmitInv, ClaimsInv
  <2>3. job.cost \in Costs \cup {0}
    BY DEF IInv, JobType
  <2>4. \A n \in Costs \cup {0} : n \in Nat
    BY BatchAssumption
  <2>5. job.cost \in 0..Hold
    <3>1. job.cost \in Nat
      BY <2>3, <2>4
    <3>2. Hold \in Nat
      BY BatchAssumption
    <3> QED
      BY <2>2, <3>1, <3>2
  <2> QED
    BY <1>6, <1>0, <2>5, <2>7, CaptureRefines DEF IInv, CaptureHold
<1>7. ASSUME NEW w \in Workers, ReleaseExhausted(w) PROVE HoldStep
  BY <1>7, <1>0, ReleaseRefines DEF IInv, ReleaseExhausted, ReleaseFails
<1>8. ASSUME UNCHANGED ledger PROVE HoldStep
  BY <1>8 DEF HoldStep, Ledger!holdVars, HoldState
<1> QED
  BY <1>1, <1>2, <1>3, <1>4, <1>5, <1>6, <1>7, <1>8 DEF Next, SubmitStep, RecoveryStep,
    CancelStep, WorkerStep, Timers, vars, CreateBatchImageJob, SubmitItems, SubmitUpload,
    SubmitProvider, UpdateBatchImageJobProviderSubmit, AbortOrphanProviderJob,
    SubmitEnqueue, RecordBatchImageJobSubmitFailure, SubmitEnqueueBillingRetry,
    TouchBatchImageJobSubmitting, Resubmit, FailStaleUnsubmittedBatchImageJob,
    EnqueueReleaseRetry, CancelRead, CancelUpstream, CancelTransition, CancelEnqueue,
    CancelDies, QueueReserve, TryAcquireJobLock, PipelineProcess, ProviderProcess,
    ProviderGet, ApplyProviderState, Index, Indexed, Settle, MarkBatchImageJobSettled,
    RecordSettlementFailure, FailExhausted, Reread, RequeueAfter, Ack, ReleaseJobLock,
    WorkerDies, MoveDueDelayedToReady, RecoverStaleActive, LockExpires, GrowStale,
    UpstreamEnds, MarkBatchImageOutputDeleted, SubmitDies, RecoveryDies

\* All the processes together move the user's money only as BatchHold says: one hold, made
\* once, captured or released once, and at most once more at the expense of other holds.
THEOREM MovesAsHold == Spec => LedgerSpec
<1>1. Init => Ledger!HInit
  BY DEF Init, Ledger!HInit, HoldState
<1>2. IInv /\ [Next]_vars => [Ledger!HNext]_(Ledger!holdVars)
  BY StepRefines DEF HoldStep
<1> QED
  BY <1>1, <1>2, Invariance, PTL DEF Spec, LedgerSpec, Ledger!HSpec
=============================================================================
