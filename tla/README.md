# LevelUpAPI: TLA+ models, model checks and proofs

LevelUpAPI is a Go server that resells access to LLM APIs: it forwards requests
to pooled upstream accounts, meters and bills them, and sells balance,
subscriptions and goods through payment providers. This directory models the
parts in which an error costs money, loses an upstream account or runs something
twice: payment orders and their fulfilment, refunds, the idempotency records of
write requests, the lock of the system operations, the life of a batch image job
with its balance hold, the concurrency slots of the gateway, and the refresh of
the upstream accounts' OAuth credentials.

Paths below are relative to `src/backend/internal/`.

## 1. Inventory

| Component | State | Operations | What is hard | What makes it correct |
|---|---|---|---|---|
| Payment orders (`service/payment_order*.go`, `payment_fulfillment.go`) | the row of `payment_orders`, its redeem code, the user's balance or subscription, the audit log, the provider's side | create, notify, verify, cancel, expire, fulfil, retry, fulfil by hand | webhooks are repeated and late; fulfilment is a chain of statements that may fail or die anywhere; a time-out competes with a slow worker; an admin acts on a status read earlier | granted at most once, only against a payment, never COMPLETED without the grant; a payment is never forgotten; no order hangs |
| Refunds (`service/payment_refund.go`) | the same row, the deduction, the money returned | request, prepare, execute, roll back | two money movements (ours and the provider's) without a common transaction; unconditional updates | REFUNDING is a lock; a refund that is called off is undone; REFUNDED means returned |
| Idempotency (`service/idempotency.go`, `repository/idempotency_repo.go`, `service/idempotency_cleanup_service.go`) | one record per key | `Execute`; create, reclaim, mark, delete expired | locks and TTLs computed from an early clock reading; marks by id alone; the record expires under a running request | one handler at a time, one effect per life, replays are of the right request |
| System operation lock (`service/system_operation_lock_service.go`) | one such record and a renewal goroutine | acquire, renew, release | lease expiry, late renewal | two system operations never run together |
| Concurrency slots, message queue (`service/concurrency_service.go`, `repository/concurrency_cache.go`) | Redis sorted sets and counters | acquire, release, wait, clean up | process crashes, slot TTL, failing open | the limit holds; slots and wait counts do not leak |
| Batch image jobs (`service/batch_image_*.go`) | job rows, Redis queue, balance hold | submit, process, settle, cancel, recover | redelivery, stale locks, hold captured or released by competing paths | a hold is captured or released exactly once |
| Usage billing (`repository/usage_billing_repo.go`, `service/billing_cache_service.go`, worker pool) | ledgers, write-behind cache, bounded queues | apply, deduct, invalidate, flush | asynchronous cache writes out of order, dropped tasks | a request is billed once; the cache converges to the database |
| Shop (`service/shop.go`) | stock, orders, cards | reserve, pay, deliver, release | reservation against payment and expiry | a card is sold once |
| Token refresh (`service/oauth_refresh_api.go`, `token_refresh_service.go`, `handler/admin/account_handler.go`) | OAuth credentials, local and distributed lock | refresh if needed, refresh by hand, authorize again, edit | single-use refresh tokens, lock TTL, lock deleted by key alone, administrators' calls without a lock that write back a whole row | a refresh token is used once; the newest one is stored |
| Scheduler snapshots and outboxes (`service/scheduler_snapshot_service.go`, `repository/*_outbox_repo.go`) | outbox table, watermark, versioned snapshots | poll, rebuild, retire | commit order against id order, several rebuilders | no event is skipped; an old snapshot does not replace a newer one |
| Prompt audit, usage cleanup, WebSocket pool, withdrawals, subscriptions | queues, leases, rows | claim, finish, release | the usual ones of a leased queue | each item handled once |
| Gateway, protocol translation, CRUD services, monitoring, frontend, generated code | — | — | streaming I/O and data conversion | not in TLC's reach or read-mostly |

How they meet: a webhook, an HTTP request, an admin call and the expiry job all
work on the same order rows; fulfilment calls the redeem and the subscription
services; refunds use the order row as a lock against all of them; the write
requests of users and admins run inside `Execute`; the system lock is one more
record of the idempotency table and is swept by the same cleanup job. A batch
image job is worked on by its Submit request, Cancel requests, the recovery job
and the worker loops of all instances, which share the job row, the Redis queue
and the user's ledger. Every gateway request takes slots in Redis and reads the
access token that the refresh writes; instances share nothing but Redis and the
database.

`PROJECT.json` lists every component with its status, and every hazard at its
line.

## 2. Plan

1. **PaymentOrder** (done, proved) – the order's life.
2. **PaymentRefund** (done, proved) – extends PaymentOrder with refunds.
3. **IdempotencyStore**, **Idempotency**, **SystemOperationLock** (done, proved) – the
   record operators and their two users.
4. **BatchHold**, **BatchImage** (done, proved) – what the ledger promises about one
   hold, and the job's life, shown to implement it: Submit, Cancel, recovery,
   queue with redelivery, job lock, settlement.
5. **ConcurrencySlots** (done, proved) – slots, queue counters, dying and starting
   processes, cleaners.
6. **TokenRefresh** (done, proved) – single-use refresh tokens, local and distributed
   lock, the access-token cache, and the administrators' calls that take no lock:
   reauthorization, manual refresh, account edits.
7. **UsageBilling** – deduplicated `Apply`, balance cache with queued writes.
8. **SchedulerSnapshot** – outbox, watermark, fenced snapshot writes.
9. **Shop**, then the user message queue, prompt audit, usage cleanup and the
   WebSocket pool.

Every safety property that a run checks is also a theorem (section 5), the
refinement of BatchHold included. Theorems to follow are those of the planned
modules.

## 3. Modules

The step of every model is one SQL statement, one transaction whose statements
nobody else can observe separately, or one call of an external service. A
handler is a process with a `pc`; the local variables that outlive a statement
are variables of the model, and decisions on a row belong to the statement that
read it. Races inside one PostgreSQL statement are not modelled.

### PaymentOrder

| Variable | Code |
|---|---|
| `status`, `paidAt` | columns of `payment_orders` |
| `age`, `ttl` | `now - updated_at` and `expires_at - now`, the two distances the code compares, saturating one unit behind the last value a comparison can tell apart; `age` runs only in EXPIRED and RECHARGING, where it is compared |
| `gateway` | the order at the provider (external): none, open, closed, paid as the order says, or `mispaid` (amount, merchant or provider differ) |
| `code` | the redeem code `PAY-<id>` |
| `granted` | how often balance was credited or the subscription extended |
| `audited` | `RECHARGE_SUCCESS` / `SUBSCRIPTION_SUCCESS` in the audit log |
| `manual` | `ORDER_MANUAL_FULFILL`: an admin vouched for the payment |
| `aborts` | how many handlers died or ended at a failing statement |
| `pc`, `job`, `arg` | a handler's next statement, its order, the status it holds in a local variable |

Actions are named after the functions: `CheckPendingLimit` and `InsertOrder`
(createOrderInTx), `CreatePayment` and `SavePaymentDetails` (invokeProvider),
`FailCreate` (CreateOrder's error path), `HandlePaymentNotification`,
`RejectPayment` (confirmPayment's mismatch errors), `ToPaid`,
`AlreadyProcessed`, `Claim` (Execute…Fulfillment), `ResolveRedeemAction`,
`CreateCode`, `Redeem` (doBalance), `CheckSubscription`, `AssignSubscription`
(doSub), `MarkCompleted`, `WriteSuccessAudit`, `MarkFailed`, `RetryFulfillment`,
`AdminManualFulfillOrder`, `MarkPaidManually`, `CancelOrder`,
`ExpireTimedOutOrder`, `VerifyOrderByOutTradeNo`, `CheckPaid`, `CancelCore`,
`FailStaleRecharging`. A statement whose failure the code handles has an error
branch, including an error reported after the commit (`Redeem`) and a query of the
audit log whose failure counts as "no entry" (`CheckSubscription`). A statement
whose failure just ends the handler (`Unhandled`, among them the reads and the
UPDATE of the claim) fails in `StatementFails`; `Crash` ends a handler between two
statements. `UserPays` and `Tick` are the environment.

Abstracted: amounts (a payment matches its order or does not; after a manual
fulfilment, which may change pay_amount, either), currencies, choice of provider,
resume tokens, notification mails.

### PaymentRefund

Extends PaymentOrder; `OrderStep` is any of its steps, with the grant reaching
`balance` or `days`. `RInit` begins with the recorded payment, by the provider
or by an admin, and with the payment window over; the order has a trade number or
not, and one that an admin vouched for may have any state at the provider.
Everything after it, including a fulfilment that competes with the refund, is
explored. `tradeNo` says whether `payment_trade_no` is set (`SetTradeNo`: toPaid,
checkPaid and the manual fulfilment write it); the plan keeps what it read, and
`GwRefund` skips the provider by that alone. Actions:
`RequestRefund`, `MarkRefundRequested`, `PrepareRefund`, `LockRefund`, `Deduct`,
`GwRefund`, `MarkRefundOk`, `RollbackRefund`, `RestoreStatus`,
`MarkRefundFailed`; `Spend` is the user's consumption. `taken`, `returned`,
`skipped` and `rollbackFailed` are the books the properties compare. The provider
is assumed not to return more than was paid; its answer may be lost.

### IdempotencyStore, Idempotency, SystemOperationLock

IdempotencyStore has one operator per SQL statement of the repository, on the
record of one key (`NoRow` when there is none; a NULL `locked_until` is 0, which
satisfies `locked_until <= now` like NULL does in the statement). Idempotency is
`Execute`, one process per request: `Begin` reads the clock once; `Create`,
`GetExisting`, `ReclaimExpired`, `GetLatest`, `ReclaimFailed`, `Execute`,
`ExecuteSucceeded`, `ExecuteFailed` are its statements; `Abort` is any failing
statement or a crash. The protected handler has all of its effect or none.
SystemOperationLock has `Acquire`, `Create`, `GetExisting`, `Reclaim`, `Release`
and `Mark` for the request and `RenewTick`, `Renew`, `RenewFails`, `StopRenewing`
for its renewal goroutine, which may run once more after the release. The clock is
read in `Acquire`, `RenewTick` and `Release`; the statements that use the reading
(`now`, `renewNow`) are later steps, so that a renewal's UPDATE may reach the
record after the lock was released and acquired again. `CleanupOnce` is the cleanup
job in both.

History variables: `claimedAt`, `effects`, `late` and `overtaken`; `leaseEnd`,
`lapsed` and `shortened`, which says that such a late UPDATE brought the
`locked_until` of another holder forward. `overtaken` says that a request which had read the record as expired
took it although another one had given it a new life in between (section 6).
`late` and `lapsed` say that a request or
operation overran the time it wrote into its own record; no lease can protect
against that, so the exclusion properties are stated for the behaviours without
it. For Idempotency this includes a request that stalls for a whole
`ProcessingTimeout` between reading the clock and claiming the record, since it
then writes a lock that is already over.

### BatchHold, BatchImage

BatchHold is the abstract specification: one amount moves from the balance to
the frozen balance and from there back, wholly (released) or less the cost
(captured). As the frozen balance is one number per user and the request ids of
capture and release differ, the ledger alone cannot exclude that both happen;
`MoveAgain` is that step and `SettledOnce` says when it can occur.

BatchImage is one job.

| Variable | Code |
|---|---|
| `job` | the row of `batch_image_jobs`: status, whether `provider_job_name` is set, whether `updated_at` is older than the recovery's cutoff, `retry_count`, cost |
| `ledger` | `users.balance`, `frozen_balance`, the claimed request ids of `usage_billing_dedup`, and (history) the movements made |
| `queue` | the job in the Redis ready list, active and delayed sets, and the in-flight key |
| `lock` | the token in the job's lock key |
| `upstream` | the provider's batch job (external) |
| `submit`, `cancel`, `recovery`, `worker` | the next step of each process, and what a worker has read |

Actions: `CreateBatchImageJob` … `SubmitEnqueue` and the error path with release
and billing retry (Submit); `Resubmit` (a repeated Submit); `CancelRead`,
`CancelTransition`, `CancelUpstream`, `CancelRelease`, `CancelEnqueue` (Cancel);
`FailStaleUnsubmittedBatchImageJob`, `RecoveryRelease`, `EnqueueReleaseRetry`
(recovery); `QueueReserve`, `TryAcquireJobLock`, `PipelineProcess`,
`ProviderProcess`, `ProviderGet`, `ApplyProviderState`, `Index`, `Indexed`,
`ReleaseTerminalHold`, `Settle`, `CaptureHold`, `MarkBatchImageJobSettled`,
`RecordSettlementFailure`, `ReleaseExhausted`, `FailExhausted`, `Reread`,
`RequeueAfter`, `Ack`, `ReleaseJobLock` (RunOnce and what it calls); the timers
of the queue, the lock and the recovery, the output cleanup, and the death of
every process. Every call may fail. Abstracted: items and images (only their
cost), prices, paging of results.

### ConcurrencySlots

The requests of one user on one account. `slots` holds the members of the two
sorted sets, `age` the ticks since the Redis time a member carries (time itself
needs no bound), `wait` the queue counters, `proc` the processes; a request id is
one of the two a handler can leave behind, its first attempt's and the queue's.
A script gets a time that was read up to `MaxLag` ticks before it runs.
`AcquireSlot`, `IncrementWaitCount`, `DecrementWaitCount`, `ReleaseSlot` have a
failing form each; a lost answer leaves a slot nobody holds. `ReleaseOnDone` is
the context's callback, `StartupSweep` and `StartupDrop` the cleanup at start,
`CleanupExpired` the periodic one, `KeyExpires` and `WaitKeyExpires` Redis.
`swept` and `drift` are history: whose slot a starting process removed, and
which counter may be too low or too high.

### TokenRefresh

One account. A credential is a number: the provider issues the next one for the
last and takes each once. `account` is the row (credentials, `_token_version`,
whether it is due, status, refusals in a row), `lock` and `cache` are the two
Redis keys, `work` the background attempts and requests with the account object
they read. `RefreshIfNeeded` is `AcquireRefreshLock` … `ReleaseRefreshLock`;
`HandleNonRetryable`, `InvalidateToken`, `CheckTokenVersion` and `SetAccessToken`
are what its callers do with the result. `setup` chooses between a Grok account
(conditional writes) and another one (unconditional writes, requests that refresh),
places the workers in processes and says which calls administrators may make.

`admin` are the calls of administrators. None takes the mutex or the Redis lock, and
all write through UpdateAccount, which reads the row (`ReadRow`), changes some
columns and writes the whole of it back later (`Updated`, `WriteRow`); `seen` is the
account the handler loaded first, `row` what UpdateAccount read.

| Call | Code |
|---|---|
| `apply` | ApplyOAuthCredentials with credentials of a new authorization: write, ClearAccountError, invalidate |
| `refresh` | refreshSingleAccount: call the provider, write with the `_token_version` of the old credentials, invalidate, RecoverAccountState; a refusal sets the error without a comparison (`SetAccountError`), another error a cooldown |
| `plain` | the handlers that only refresh and write (the Grok and OpenAI OAuth handlers) |
| `edit` | UpdateAccount from the edit form, which sends back what it loaded or leaves it out |

ClearAccountError is five statements; `ClearError` and `ClearTempUnschedulable` are
the two that touch modelled columns.

`past` records what can no longer be blamed on the locked refresh: successors that
were lost (`orphans`), which credentials have no version of their own
(`unstamped`), and `kinds` of events: a refresh without the lock (`degraded`) or
beyond its lease (`outlived`: set by every passed deadline, also when it is a
client's leaving), a cache that was not reached (`uncached`, `unchecked`) or written
after a change (`raced`), an error not cleared (`uncleared`); and of the
administrators' writes, an edit that put an old row back (`reverted`), a manual
refresh over credentials other than the ones it used (`overtaken`), an error set
while the row had or was about to get other credentials (`blind`). Abstracted:
durations (a background attempt's deadline is shorter than the lock's TTL, a request
has none), cooldowns, rate gates.

## 4. Runs

| Run | Shows | Instance |
|---|---|---|
| `payment_balance` | `TypeOK`, `BalanceGrantedOnce`, `CompletedIsGranted`, `GrantIsBacked`, `PaymentNotForgotten`, `CompletedIsFinal` | one top-up, paid as agreed or not, three handlers, one of which dies or ends at a failing statement |
| `payment_subscription` | under fairness `RechargingEnds`, `PendingEnds`, `PaidEndsUnlessAborted` for a subscription | one subscription, two handlers, one abort, two grants, no symmetry |
| `refund_balance` | `RTypeOK`, `RefundIsExclusive`, `CalledOffIsUndone`, `RefundedIsReturned`, `NoCreditAfterRefund` | one top-up of 2 units, with and without a trade number, two handlers |
| `refund_subscription` | `CalledOffIsUndone` for a subscription | one subscription, two handlers, one abort |
| `idempotency` | `OneOwner`, `OneEffectPerLife`, `ReplaysLatest` | three equal requests, TTL 3, lock 2, clock to 6 |
| `idempotency_liveness` | under fairness `InProgressEnds`, also when the key is reused with another payload | two requests with different payloads, no symmetry |
| `system_lock` | `ExclusiveUntilLapse`, `ReleasedIsAcquirable` | three operations, two interchangeable ones with one operation id, lease 2, TTL 3, clock to 5 |
| `batch_image` | `TypeOK`, `SettledOnce`, `CompletedIsCharged`, `GivenUpIsAborted`, `HoldInCustody`, the refinement `LedgerSpec` (BatchImage implements BatchHold), and under fairness `JobEnds` | two workers, one Cancel request, hold 2, balance 1 or 2, other holds 0 or 2, cost 1 or 3, one settlement retry, two faults |
| `concurrency_slots` | `HolderIsCounted`, `WithinLimit`, `QueueIsBounded`, `NobodyCountedInVain`, and under fairness `RequestsEnd`, `Drains` | two requests, one slot of the user or of the account, one place in the queue, a running process and one that may start, TTL 1, lag 1, one fault |
| `token_refresh` | `OneRefreshAtATime`, `StoredTokenLives`, `ReauthorizationSticks`, `ErrorIsDeserved`, `CacheIsCurrent`, and under fairness `DueIsRefreshed` | two workers, three credentials, threshold 3. Grok: two background workers and one call (`apply` with one fault, `refresh` or `edit` without), one worker with `apply` beside `refresh`, `plain` or `edit` and one fault. Other accounts: a background worker and a request, in two processes or one with one fault, or beside one call without; about 630,000 states |

and the runs that end in a violation, section 6.

Why these bounds. Orders are independent except for the pending limit, so one
order (two for the limit) shows every race on a row; three handlers are enough
for a stale worker, its replacement and an interfering admin or webhook. Grace
and order time-out are 1: every comparison is met from both sides, and the
distances saturate only behind the last such value. One abort (`MaxAborts`: a crash,
or an unhandled failing statement) at any statement, with the steps of the other
handlers around it, is what the recovery is for; the error branches do not count
against it. `MaxGrants` bounds repeated subscription
extensions, `IdsLeft` the requests by the unused order rows. In the idempotency
runs the clock lets a record be claimed, expire and be claimed again (`MaxClock`
= 2 TTL), and three requests are one more than a reclaim race needs. In
`system_lock` the clock lets a renewal be read, overtaken by a release and a reclaim,
and written; an instance of this size reaches `shortened` and two holders after it.
In `batch_image` the balance suffices for the hold or does not, the cost is within
the hold or above it, and the other holds can or cannot pay for a second
movement; two faults and one retry are what a capture that is applied and then
given up needs (a failed mark, a failed second capture), and also a crash with a
recovered queue entry. In `concurrency_slots` two requests on one slot meet in
every order, with a lagging script on either side of the expiry; the stage
without a limit shows the other one at work. In `token_refresh` the credentials
change twice (any two of locked refresh, manual refresh and reauthorization), which
is what a stale writer needs; with two calls of administrators the second meets the
whole-row write of the first at every step. Each failing call, passed deadline, lapsed lock or
death counts as a fault, so one fault at any step meets all orders of the rest.
Workers and equal requests are symmetric where a cfg says so; no liveness run uses symmetry.
`CHECK_DEADLOCK FALSE` is set where the system comes to rest by itself: every
request has returned and the clock is at its bound.

### Fairness

*PaymentOrder*: a running handler goes on (`WF` of `Step(w)`: the Go scheduler;
a crash or a failing statement is not excluded, it ends the handler), time passes, and the expiry job's
goroutine gets its turn. The job picks a PENDING, timed-out order on every tick
of its ticker; as other handlers may occupy the modelled workers in between, its
start is strongly fair. No user, provider or admin is assumed to do anything.
*Idempotency*: requests go on, the cleanup ticker fires, time passes; no request
need arrive.
*BatchImage*: the steps of every process that is alive, the timers of the queue
and of the recovery, the expiry of keys and the end of the provider's job; no
client creates, cancels or repeats anything, and nothing has to fail. Faults are
bounded, which is the assumption that calls do not fail for ever.
*ConcurrencySlots*: handlers and Redis's own expiry go on while any of them can;
nothing is assumed of clients, processes or the cleanup worker.
*TokenRefresh*: each worker goes on (calls have time-outs, the loop a ticker, a
dead process is started again) and Redis expires the lock. No administrator need
call, but a call that was made goes on.

## 5. Proofs

TLC checks the instances of section 4; the theorems hold for all values of the
constants that satisfy the named assumptions of the module. Every safety
property of a passing run is proved, each from an inductive invariant `IInv` that
was first checked by TLC on the run's instance. Its conjuncts say what the
handlers know between two statements, which the properties themselves do not.
The proofs are laid out alike: lemmas on what one statement writes, one lemma per
part of `IInv` with a step for every action, then `InitInv`, `StepInv` and the
temporal theorems.

| Module | Theorems | Assumptions |
|---|---|---|
| `PaymentOrderProofs` | `TypeCorrect`, `BalanceOnce`, `CompletedGranted`, `GrantBacked`, `PaymentKept`, `CompletedFinal` | `OrderTypesAssumption`, `TimeAssumption`, `BoundAssumption`: any orders, workers, time-outs |
| `PaymentRefundProofs` | `RTypeCorrect`, `RefundExclusive`, `CalledOffUndone`, `RefundedReturned`, `NoCreditOnceRefunding` | those and `RefundAssumption`: any amount and balance |
| `IdempotencyProofs` | `TypeCorrect`, `AtMostOneOwner`, `OncePerLife`, `ReplaysTheLatest` | any requests and payloads; a lock is not longer than the TTL (`TimeoutAssumption`) |
| `SystemOperationLockProofs` | `TypeCorrect`, `Exclusive`, `Acquirable` | any operations; the lease is not longer than the TTL (`LeaseAssumption`) |
| `BatchImageProofs` | `TypeCorrect`, `CapturedOrReleased`, `CompletedCharged`, `GivenUpAborted`, `HoldKept`, `MovesAsHold` | `BatchAssumption`: any workers, Cancel requests, amounts, retries, faults |
| `ConcurrencySlotsProofs` | `TypeCorrect`, `HoldersCounted`, `LimitsHold`, `QueueBounded`, `NobodyInVain` | `SlotsAssumption`: finitely many requests, any processes, limits, queue length, TTL and lag |
| `TokenRefreshProofs` | `TypeCorrect`, `OnlyOneRefreshes`, `TheStoredTokenLives`, `TheReauthorizationSticks`, `TheErrorIsDeserved`, `TheCacheIsCurrent` | `RefreshAssumption`: any workers, processes, administrators' calls and faults, both kinds of accounts |

**PaymentOrder.**

* `CreationInv` – a creating request is alone on its row, and the provider does
  not know the order before `CreatePayment` (else `InsertOrder`, `CreatePayment`
  and `FailCreate` could disturb a paid order).
* `LocalsInv` – the status a cancelling or manual handler holds is one it can
  have read; an order it read as PAID stays paid.
* `PaidInv` – PAID, RECHARGING and COMPLETED imply `paid_at`, `paid_at` implies a
  payment or an admin's word, and every handler between the claim and the grant
  works on a paid order. This is what makes the claim's acceptance of FAILED
  orders safe.
* `CodeInv` – a top-up that was credited has a used code: the code counts.
* `GrantInv` – a used code or a success entry implies the grant, and a handler
  about to complete has granted, also after another worker took the order over.

`CompletedFinal` uses that every writer of the status column but `FailCreate`
states in its UPDATE which statuses it leaves, and COMPLETED is none of them (for
`MarkPaidManually` and `CancelCore` through `LocalsInv`).

**PaymentRefund.** The steps of PaymentOrder are summed up once: none moves an
order whose refund has begun (`OrderMoves`). `RefundIsExclusive` is then kept by
the conditional update of `LockRefund`, which also covers the unconditional ones
after it. `TakenInv` relates what is missing from the balance to the plan of the
handler at work, `ReturnInv` what the provider returned to the step before
`MarkRefundOk`: the plan's amount, or the provider was skipped. `CodeInv` (a top-up that was ever completed has used its code) is
why a slow fulfilment cannot credit a refunded order.

**Idempotency, SystemOperationLock.** An owner that is not late finds the record
as it wrote it (`OwnsAlone`: id, status, lock and expiry), is the only owner, and
was the last to claim it; the marks by id alone are safe for this reason.
`LivesOn` says that a success occupies the record until the life it gave it is
over, which together with `overtaken` gives `OneEffectPerLife`. `PayloadInv` (the
record with a request's id has the request's payload) is what `ReplaysLatest`
needs. For the lock, `HasTheRecord` says that until a lease lapses or is cut short the
record is locked at least to the end of its holder's lease. A renewal left over from
an earlier operation with the same id may prolong that lock, or, when it was late,
bring it forward: the theorem excepts the behaviours in which it did (`shortened`).
`ExpiryInv` (a record in progress does not expire before its lock) keeps the cleanup
job away from it. `UnlockedInv` (a record not in progress has no `locked_until` in the
future, since the renewal's UPDATE asks for the status) carries `Acquirable`: both
forms of "not busy", released and lapsed, are matched by the reclaim.

**BatchImage.** `ClaimsInv` ties the claimed request ids to the movements of
money. `LockInv` and `SoleInv` say that while no job lock expired too early the
one worker with the lock knows the row; `MovedInv` which statuses are possible
once money has moved; `SubmitInv`, `UpstreamInv` and `KnownInv` what each process
has established. `CustodyInv` is stronger than `HoldInCustody`: somebody owes the
release from the moment the hold can be made, so that a process that takes over
is there before the other one leaves. `MovesAsHold` is the refinement: with the
hold's state read off the movements, initial states map to initial states of
BatchHold, and each step to `Reserve`, `Capture`, `Release`, `MoveAgain` or a
stutter.

**ConcurrencySlots.** `HandlerInv` says which slots a handler holds at each step;
its last part, that a connected handler beyond a limited resource holds a slot of
it, carries `WithinLimit`: the requests at work map one-to-one to members of the
sorted set (`HolderIsCounted`), and the script counts the set before it adds to
it (`SetsInv`). `HolderIsCounted` itself needs that the id of an attempt is not
held yet, and that what a script with an old time removes is older than the TTL.
`QueueInv` relates the counter to the queue in both directions, and bounds it, up
to the recorded `drift`.

**TokenRefresh.** `IssuedInv` – nobody knows a credential that was not issued.
`FreshInv` – the answer a worker or a manual refresh holds is the living successor of
the credential it used, the credentials an administrator brings are live, and nobody
else has seen them. `RefusedInv` – a refused credential stays refused and no locked
refresh has its successor under way, while they do not overlap. `LockInv` – they do
not, unless a lock could not be taken or was outlived. `ErrorInv` – nothing is about
to give a disabled Grok account credentials that work, except a call that will enable
it. `VersionInv` and `CheckedInv` – while the row has a stamp of its own (`Stamped`),
one `_token_version` stands for one credential, and who is about to cache a token has
compared it. `CacheInv` names the worker that has yet to look after the cache.
Since administrators' calls and locked refreshes write the same row, the steps are
first summed up by what they do to the row, the provider and the holders of answers
(nothing, use a token, store, issue, write a whole row); each part of `IInv` is then
proved once per class.

Only model-checked: the liveness properties `RechargingEnds`, `PendingEnds`,
`PaidEndsUnlessAborted`, `InProgressEnds`, `JobEnds`, `RequestsEnd`, `Drains` and
`DueIsRefreshed` (the prover has no reasoning about fairness and ENABLED), and
the two violations.

## 6. Where code and documentation disagree

* `payment_double_extension`: the comment on doSub says the audit log prevents a
  double extension after markCompleted fails. The entry it looks for is written
  by markCompleted after the update that failed, so the retry extends again.
* `idempotency_expired_reclaim`: two requests that found the same expired,
  succeeded record both execute, one after the other: the reclaim's condition
  matches again once the first has finished. `OneEffectPerLife` names exactly this
  step (`overtaken`) as its exception. An earlier form of it, which went by the
  way in which the two requests themselves had claimed the record, held for three
  requests and is false for five; the attempt to prove it showed that.

Met while modelling, without a run of their own:

* docs/PAYMENT.md promises a maximum number of pending orders per user; the count
  and the insert are separate statements, and concurrent requests exceed it.
* The comment on ExecuteRefund says a deduction whose rollback failed is not
  repeated. The audit entry it relies on is best effort in both directions (a
  failed write is logged, a failed read counts as absent).
* A payment that confirmPayment rejects (wrong amount, merchant or provider) is only
  logged by checkPaid, which answers "already paid": cancelCore and the expiry job
  leave the order alone at every tick, and it stays PENDING (`mispaid` in
  `PendingEnds`).
* gwRefund skips the provider when the order has no trade number. An order that was
  fulfilled by hand, or whose payment was found by a query without a trade number, is
  marked refunded with nothing returned, although it was paid (`skipped` in
  `RefundedIsReturned`).
* renewLoop reads the clock before an UPDATE that may take two seconds. If the lock is
  released and reclaimed in between by an operation that leaves the fingerprint as it
  is, the leftover renewal sets the new holder's `locked_until` back, and a third
  operation may reclaim it before any lease is over (`shortened` in
  `ExclusiveUntilLapse`).
* A system operation that obtained the lock by reclaiming the record cannot renew
  it, because the record keeps the id of its first owner; `ExclusiveUntilLapse`
  is stated up to the end of the lease for this reason.
* docs/BATCH_IMAGE_MVP.md speaks of "the remaining hold" that a given-up
  settlement releases. failExhaustedSettlement does not ask whether an earlier
  attempt captured the hold; if one did, and the mark failed, the release is
  taken out of the user's other holds (`ExhaustedAfterCapture` in `SettledOnce`).
* A release before the reservation (Cancel, or the recovery, against a slow
  Submit) uses up the release's request id, and the hold made afterwards is not
  released any more (`ReleasedTooEarly` in `HoldInCustody`).
* A Cancel that read the job before it had a provider job name refunds it without
  cancelling it upstream, if the submission gets through in between.
* A Submit that dies or fails to enqueue after the provider's name is stored, and a
  Cancel or recovery that dies between failing the job and releasing, leave a job
  or a hold nobody looks at (`stranded`). A second worker that comes in through
  an expired lock and finds the job settling can Ack it away (`lapsed`).
* docs/BATCH_IMAGE_MVP.md gives the request id of a settlement as
  `batch_image_settlement:{batch_id}`; the code's begins with
  `batch_image_capture:`.
* The manual refresh of an account (refreshSingleAccount and the plain refresh
  handlers) takes neither the mutex nor the Redis lock; `OneRefreshAtATime` is about
  the locked refreshes. `StoredTokenLives` holds however the two overlap: the provider
  takes a token once, and who got the successor stores it. What the overlap does break
  is named in the other properties: a manual refresh stores its tokens over credentials
  given meanwhile (`overtaken`), it disables the account when another refresh has used
  the token first (`blind`), and it keeps the `_token_version` of the credentials it
  replaces, so that a request with the old object passes CheckTokenVersion
  (`unstamped`).
* UpdateAccount writes back the whole row it read. An edit, or any call, that read the
  row before a refresh stored its answer writes the used refresh token and the old
  status over it, with nothing lost on the way (`reverted`, `orphans`).
* For accounts other than Grok's the new credentials and the error status are
  written without a condition, so a refresh under way may overwrite or disable an
  account that was just authorized again, in spite of the comment on the
  returned snapshot in oauth_refresh_api.go; `ReauthorizationSticks` and `ErrorIsDeserved`
  are stated for Grok. Credentials given by an administrator have no
  `_token_version`, so that a request with an older account object may cache its
  token over them; between CheckTokenVersion and SetAccessToken the same can
  happen to any credentials (`raced` in `CacheIsCurrent`).

Other behaviour worth knowing, allowed by the properties: an order whose
creation request fails after the webhook has completed it becomes FAILED
(`KeepsCompleted` names this one exception); a PAID order whose worker died, or whose
claim failed, waits for an admin; an order whose refund handler died stays REFUNDING; a key in
progress is refused until its TTL is over, not only until its lock is; a starting
process sweeps the slots of all other live processes, not only of dead ones; a
failed increment lets a request queue uncounted and decrements for it all the
same; a request that refreshes has no deadline and may outlive its lock; requests
on an account whose successor credential was lost may keep the refresh lock from
the background attempt that would disable it.

## 7. Not modelled

Shop delivery in the fulfilment, amounts (beyond matching or not) and currencies,
provider adapters and signatures, mails, statistics, list queries. Of batch images: downloads, the
items' contents, input cleanup, pricing, the user's deletion mark, a provider
job whose creation succeeded while its answer was lost (the program never learns
of it), and a reservation that was committed while its answer was lost (the submission
then fails the job as if there were no hold). Of slots: a second account after a
failed first one (a request makes one attempt), the slots of API keys, the leases of
WebSocket sessions, the load queries of the scheduler; the run has limits on the user
or on the account, and the theorems cover both at once, which leaves their liveness.
Of token refresh: Grok's request path and its reconciliation, the Gemini and Antigravity providers, rate gates, the circuit
breaker, the cooldown after exhausted retries, the scheduler's copy of the account,
privacy settings; edits that set another status than they loaded; a user's edit of
an own account (UpdateOwned, the same read and whole-row write as `edit` and `plain`);
and the other writers of credentials and errors: upstream 401s
(`service/ratelimit_service.go`, `openai_token_provider.go`), `grok_credential_failure.go`, bulk updates, CRS sync
and imports.
Further the components marked `not_modelled` in `PROJECT.json` (planned ones:
section 2; gateway, protocol translation and frontend are data conversion and
I/O, the ent code is generated).

## 8. Running

    tlc -config PaymentOrderBalance.cfg MCPaymentOrder
    tlapm PaymentOrderProofs.tla

The other runs are listed in `PROJECT.json` with their module and configuration;
the other proofs are those of `PaymentRefundProofs`, `IdempotencyProofs`,
`SystemOperationLockProofs`, `BatchImageProofs`, `ConcurrencySlotsProofs` and
`TokenRefreshProofs`. The longest are those of `TokenRefreshProofs`.
A definition whose comment begins with "Mutant" is a changed form of the
definition after it; `PROJECT.json` says which property each one breaks.
