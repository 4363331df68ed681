---------------------------- MODULE PaymentOrder ----------------------------
(***************************************************************************)
(* The life of the payment orders of one user, from creation to fulfilment *)
(* (payment_order.go, payment_order_lifecycle.go, payment_fulfillment.go). *)
(*                                                                         *)
(* A worker is one goroutine running one handler: an HTTP request, a       *)
(* provider webhook, an admin call or the expiry job.  Every SQL statement *)
(* and every provider call is one step, so handlers interleave between any *)
(* two of them and may die between any two of them (Crash).  A statement   *)
(* whose failure the code handles has a branch of its own; one whose       *)
(* failure just ends the handler is StatementFails.                        *)
(*                                                                         *)
(* Time is kept as two saturating distances per order, the only ones the   *)
(* code compares: age = now - updated_at and ttl = expires_at - now.       *)
(***************************************************************************)
EXTENDS Integers, FiniteSets

CONSTANTS
    BalanceOrders,        \* orders of type "balance" (top-ups)
    SubscriptionOrders,   \* orders of type "subscription"
    Workers,              \* goroutines that may run at the same time
    Grace,                \* paymentGraceMinutes
    OrderTimeout,         \* cfg.OrderTimeoutMin
    MaxPending,           \* cfg.MaxPendingOrders
    MaxAborts,            \* bound: how many handlers may end half-way
    MaxGrants             \* bound: how often one subscription is extended

Orders == BalanceOrders \union SubscriptionOrders

ASSUME OrderTypesAssumption == BalanceOrders \intersect SubscriptionOrders = {}
ASSUME TimeAssumption == Grace \in Nat /\ OrderTimeout \in Nat \ {0}
ASSUME BoundAssumption == MaxPending \in Nat /\ MaxAborts \in Nat /\ MaxGrants \in Nat

VARIABLES
    status,    \* payment_orders.status; "NONE" before the row exists
    paidAt,    \* payment_orders.paid_at is not NULL
    age,       \* now - updated_at in the statuses of Aging, saturating at AgeCap
    ttl,       \* expires_at - now, saturating at -(Grace + 1)
    gateway,   \* the provider's side: "none", "open", "paid", "mispaid" or "closed"
    code,      \* the redeem code PAY-<id>: "absent", "unused" or "used"
    granted,   \* how often the order's value was given to the user
    audited,   \* RECHARGE_SUCCESS / SUBSCRIPTION_SUCCESS is in the audit log
    manual,    \* an admin vouched for the payment (ORDER_MANUAL_FULFILL)
    pc,        \* next statement of each worker's handler
    job,       \* the order that handler works on
    arg,       \* the status the handler holds in a local variable
    aborts     \* handlers that died, or ended at a failing statement, so far

rowVars    == <<status, paidAt, age, ttl>>
ledgerVars == <<code, granted, audited>>
procVars   == <<pc, job, arg>>
vars == <<rowVars, gateway, ledgerVars, manual, procVars, aborts>>

-----------------------------------------------------------------------------
(* Constants of the code *)

RefundStatuses == {"REFUND_REQUESTED", "REFUNDING", "PARTIALLY_REFUNDED",
                   "REFUNDED", "REFUND_FAILED"}

Statuses == {"PENDING", "PAID", "RECHARGING", "COMPLETED", "EXPIRED",
             "CANCELLED", "FAILED"} \union RefundStatuses

\* rechargingTimeout: never shorter than the payment grace period
RechargingTimeout == IF OrderTimeout < Grace THEN Grace ELSE OrderTimeout

AgeCap == RechargingTimeout + 1

Labels == {"idle", "insert", "invoke", "save", "notify", "already", "claim",
           "lookup", "create", "redeem", "group", "assign", "complete",
           "audit", "fail", "check", "cancel", "manual"}

-----------------------------------------------------------------------------
(* Step helpers *)

\* the handler goes on at l; only "cancel" still reads its local status
Continue(w, l) ==
    /\ pc'  = [pc EXCEPT ![w] = l]
    /\ arg' = [arg EXCEPT ![w] = IF l = "cancel" THEN @ ELSE "NONE"]

Begin(w, o, l, a) ==
    /\ pc[w] = "idle"
    /\ pc'  = [pc EXCEPT ![w] = l]
    /\ job' = [job EXCEPT ![w] = o]
    /\ arg' = [arg EXCEPT ![w] = a]

Keep(w, l) == Continue(w, l) /\ UNCHANGED job

\* every UPDATE of the row also refreshes updated_at
SetStatus(o, s) ==
    /\ status' = [status EXCEPT ![o] = s]
    /\ age'    = [age EXCEPT ![o] = 0]

Pending == {o \in Orders : status[o] = "PENDING"}

\* bound: no more requests are let in than there are order ids left
IdsLeft == Cardinality({w \in Workers : pc[w] = "insert"})
             < Cardinality({o \in Orders : status[o] = "NONE"})

-----------------------------------------------------------------------------
(* CreateOrder *)

\* checkPendingLimit: counts the user's PENDING rows; the row of this request
\* is inserted by a later statement of a READ COMMITTED transaction
CheckPendingLimit(w) ==
    /\ pc[w] = "idle"
    /\ Cardinality(Pending) < MaxPending
    /\ IdsLeft
    /\ Keep(w, "insert")
    /\ UNCHANGED <<rowVars, gateway, ledgerVars, manual, aborts>>

\* Mutant: the grace period is added to expires_at a second time
InsertOrderLate(w) ==
    /\ pc[w] = "insert"
    /\ \E o \in Orders :
        /\ status[o] = "NONE"
        /\ SetStatus(o, "PENDING")
        /\ ttl' = [ttl EXCEPT ![o] = OrderTimeout + Grace]
        /\ job' = [job EXCEPT ![w] = o]
    /\ Continue(w, "invoke")
    /\ UNCHANGED <<paidAt, gateway, ledgerVars, manual, aborts>>

\* the insert and the commit of createOrderInTx: the row becomes visible
InsertOrder(w) ==
    /\ pc[w] = "insert"
    /\ \E o \in Orders :
        /\ status[o] = "NONE"
        /\ SetStatus(o, "PENDING")
        /\ ttl' = [ttl EXCEPT ![o] = OrderTimeout]
        /\ job' = [job EXCEPT ![w] = o]
    /\ Continue(w, "invoke")
    /\ UNCHANGED <<paidAt, gateway, ledgerVars, manual, aborts>>

\* invokeProvider up to prov.CreatePayment: the provider knows the order
CreatePayment(w) ==
    /\ pc[w] = "invoke"
    /\ gateway' = [gateway EXCEPT ![job[w]] = "open"]
    /\ Keep(w, "save")
    /\ UNCHANGED <<rowVars, ledgerVars, manual, aborts>>

\* invokeProvider stores the trade number and the payment URL
SavePaymentDetails(w) ==
    /\ pc[w] = "save"
    /\ age' = [age EXCEPT ![job[w]] = 0]
    /\ Keep(w, "idle")
    /\ UNCHANGED <<status, paidAt, ttl, gateway, ledgerVars, manual, aborts>>

\* CreateOrder's error path: the status is overwritten without a condition
FailCreate(w) ==
    /\ pc[w] \in {"invoke", "save"}
    /\ SetStatus(job[w], "FAILED")
    /\ Keep(w, "idle")
    /\ UNCHANGED <<paidAt, ttl, gateway, ledgerVars, manual, aborts>>

\* the provider has the user's money
Collected == {"paid", "mispaid"}

\* external: the user pays at the provider, what and where the order says or not
UserPays(o) ==
    /\ gateway[o] = "open"
    /\ \E g \in Collected : gateway' = [gateway EXCEPT ![o] = g]
    /\ UNCHANGED <<rowVars, ledgerVars, manual, procVars, aborts>>

-----------------------------------------------------------------------------
(* HandlePaymentNotification, confirmPayment, toPaid, alreadyProcessed *)

\* a webhook: the provider repeats and delays it as it likes
HandlePaymentNotification(w, o) ==
    /\ gateway[o] \in Collected
    /\ Begin(w, o, "notify", "NONE")
    /\ UNCHANGED <<rowVars, gateway, ledgerVars, manual, aborts>>

\* confirmPayment compares provider, merchant and amount with the order's; an admin who
\* fulfilled the order by hand may have set its pay_amount to what was paid, or to
\* something else
Confirms(o) == gateway[o] = "paid" \/ manual[o]
Mismatches(o) == gateway[o] = "mispaid" \/ manual[o]

\* confirmPayment's error: the webhook is refused; checkPaid logs it and answers
\* "already paid" all the same, so that cancelCore leaves the order alone
RejectPayment(w) ==
    /\ pc[w] = "notify"
    /\ Mismatches(job[w])
    /\ Keep(w, "idle")
    /\ UNCHANGED <<rowVars, gateway, ledgerVars, manual, aborts>>

Payable(o) ==
    \/ status[o] \in {"PENDING", "CANCELLED"}
    \/ status[o] = "FAILED" /\ ttl[o] >= -Grace
    \/ status[o] = "EXPIRED" /\ age[o] <= Grace

\* Mutant: the webhook is answered without starting the fulfilment
ToPaidOnly(w) ==
    /\ pc[w] = "notify"
    /\ Confirms(job[w])
    /\ \/ /\ Payable(job[w])
          /\ SetStatus(job[w], "PAID")
          /\ paidAt' = [paidAt EXCEPT ![job[w]] = TRUE]
          /\ Keep(w, "idle")
       \/ /\ ~Payable(job[w])
          /\ Keep(w, "already")
          /\ UNCHANGED <<status, paidAt, age>>
    /\ UNCHANGED <<ttl, gateway, ledgerVars, manual, aborts>>

\* toPaid: one conditional UPDATE; no row changed means alreadyProcessed
ToPaid(w) ==
    /\ pc[w] = "notify"
    /\ Confirms(job[w])
    /\ \/ /\ Payable(job[w])
          /\ SetStatus(job[w], "PAID")
          /\ paidAt' = [paidAt EXCEPT ![job[w]] = TRUE]
          /\ Keep(w, "claim")
       \/ /\ ~Payable(job[w])
          /\ Keep(w, "already")
          /\ UNCHANGED <<status, paidAt, age>>
    /\ UNCHANGED <<ttl, gateway, ledgerVars, manual, aborts>>

\* only a FAILED order that was paid before is fulfilled again
AlreadyProcessed(w) ==
    /\ pc[w] = "already"
    /\ Keep(w, IF status[job[w]] = "FAILED" /\ paidAt[job[w]]
               THEN "claim" ELSE "idle")
    /\ UNCHANGED <<rowVars, gateway, ledgerVars, manual, aborts>>

-----------------------------------------------------------------------------
(* executeFulfillment: ExecuteBalanceFulfillment, ExecuteSubscriptionFulfillment *)

\* the claim {PAID, FAILED} -> RECHARGING; the read that precedes it tests the
\* same statuses, so it adds no behaviour.  paid_at is not looked at here.
Claim(w) ==
    /\ pc[w] = "claim"
    /\ IF status[job[w]] \in {"PAID", "FAILED"}
       THEN /\ SetStatus(job[w], "RECHARGING")
            /\ Keep(w, IF job[w] \in BalanceOrders THEN "lookup" ELSE "group")
       ELSE Keep(w, "idle") /\ UNCHANGED <<status, age>>
    /\ UNCHANGED <<paidAt, ttl, gateway, ledgerVars, manual, aborts>>

\* doBalance, resolveRedeemAction: a failed lookup counts as "no such code"
ResolveRedeemAction(w) ==
    /\ pc[w] = "lookup"
    /\ \/ code[job[w]] = "used"   /\ Keep(w, "complete")
       \/ code[job[w]] = "unused" /\ Keep(w, "redeem")
       \/ Keep(w, "create")
    /\ UNCHANGED <<rowVars, gateway, ledgerVars, manual, aborts>>

\* doBalance, CreateCode: code is unique, a second insert is an error
CreateCode(w) ==
    /\ pc[w] = "create"
    /\ \/ /\ code[job[w]] = "absent"
          /\ code' = [code EXCEPT ![job[w]] = "unused"]
          /\ Keep(w, "redeem")
       \/ Keep(w, "fail") /\ UNCHANGED code
    /\ UNCHANGED <<rowVars, gateway, granted, audited, manual, aborts>>

\* Mutant: the code is marked used without WHERE status = 'unused'
RedeemUnconditionally(w) ==
    /\ pc[w] = "redeem"
    /\ \/ /\ code' = [code EXCEPT ![job[w]] = "used"]
          /\ granted' = [granted EXCEPT ![job[w]] = @ + 1]
          /\ Keep(w, "complete")
       \/ Keep(w, "fail") /\ UNCHANGED <<code, granted>>
    /\ UNCHANGED <<rowVars, gateway, audited, manual, aborts>>

\* Mutant: Redeem's error is ignored
RedeemIgnoringErrors(w) ==
    /\ pc[w] = "redeem"
    /\ \/ /\ code[job[w]] = "unused"
          /\ code' = [code EXCEPT ![job[w]] = "used"]
          /\ granted' = [granted EXCEPT ![job[w]] = @ + 1]
       \/ UNCHANGED <<code, granted>>
    /\ Keep(w, "complete")
    /\ UNCHANGED <<rowVars, gateway, audited, manual, aborts>>

\* Redeem: in one transaction the code goes unused -> used and the balance is
\* credited.  It may also fail without effect (rate limit, lock, database), and
\* report an error after the commit (the final reload of the code).
Redeem(w) ==
    /\ pc[w] = "redeem"
    /\ \/ /\ code[job[w]] = "unused"
          /\ code' = [code EXCEPT ![job[w]] = "used"]
          /\ granted' = [granted EXCEPT ![job[w]] = @ + 1]
          /\ \E l \in {"complete", "fail"} : Keep(w, l)
       \/ Keep(w, "fail") /\ UNCHANGED <<code, granted>>
    /\ UNCHANGED <<rowVars, gateway, audited, manual, aborts>>

\* doSub up to the idempotency test on the audit log, where a failed query counts as
\* "no such entry"; the group may be gone
CheckSubscription(w) ==
    /\ pc[w] = "group"
    /\ \/ audited[job[w]] /\ Keep(w, "complete")
       \/ Keep(w, "assign")
       \/ Keep(w, "fail")
    /\ UNCHANGED <<rowVars, gateway, ledgerVars, manual, aborts>>

\* doSub, AssignOrExtendSubscription: adds the order's days, or fails
AssignSubscription(w) ==
    /\ pc[w] = "assign"
    /\ \/ /\ granted[job[w]] < MaxGrants
          /\ granted' = [granted EXCEPT ![job[w]] = @ + 1]
          /\ Keep(w, "complete")
       \/ Keep(w, "fail") /\ UNCHANGED granted
    /\ UNCHANGED <<rowVars, gateway, code, audited, manual, aborts>>

\* markCompleted's UPDATE: 0 rows is no error; a database error is
MarkCompleted(w) ==
    /\ pc[w] = "complete"
    /\ \/ /\ status[job[w]] = "RECHARGING"
          /\ SetStatus(job[w], "COMPLETED")
          /\ Keep(w, "audit")
       \/ /\ status[job[w]] # "RECHARGING"
          /\ Keep(w, "audit")
          /\ UNCHANGED <<status, age>>
       \/ Keep(w, "fail") /\ UNCHANGED <<status, age>>
    /\ UNCHANGED <<paidAt, ttl, gateway, ledgerVars, manual, aborts>>

\* markCompleted's audit entry, whose failure is only logged
WriteSuccessAudit(w) ==
    /\ pc[w] = "audit"
    /\ \/ audited' = [audited EXCEPT ![job[w]] = TRUE]
       \/ UNCHANGED audited
    /\ Keep(w, "idle")
    /\ UNCHANGED <<rowVars, gateway, code, granted, manual, aborts>>

\* Mutant: markFailed without WHERE status = RECHARGING
MarkFailedAlways(w) ==
    /\ pc[w] = "fail"
    /\ SetStatus(job[w], "FAILED")
    /\ Keep(w, "idle")
    /\ UNCHANGED <<paidAt, ttl, gateway, ledgerVars, manual, aborts>>

\* markFailed: only a RECHARGING order becomes FAILED
MarkFailed(w) ==
    /\ pc[w] = "fail"
    /\ IF status[job[w]] = "RECHARGING"
       THEN SetStatus(job[w], "FAILED")
       ELSE UNCHANGED <<status, age>>
    /\ Keep(w, "idle")
    /\ UNCHANGED <<paidAt, ttl, gateway, ledgerVars, manual, aborts>>

-----------------------------------------------------------------------------
(* RetryFulfillment, AdminManualFulfillOrder *)

\* Mutant: the paid_at test is missing
RetryUnpaid(w, o) ==
    /\ status[o] \in {"FAILED", "PAID"}
    /\ Begin(w, o, "claim", "NONE")
    /\ SetStatus(o, "PAID")
    /\ UNCHANGED <<paidAt, ttl, gateway, ledgerVars, manual, aborts>>

\* the reset's condition repeats the guards that can change under its feet, and
\* when it hits no row the claim that follows does not either
RetryFulfillment(w, o) ==
    /\ paidAt[o]
    /\ status[o] \in {"FAILED", "PAID"}
    /\ Begin(w, o, "claim", "NONE")
    /\ SetStatus(o, "PAID")
    /\ UNCHANGED <<paidAt, ttl, gateway, ledgerVars, manual, aborts>>

IsRechargingOrderStale(o) ==
    status[o] = "RECHARGING" /\ age[o] >= RechargingTimeout

\* AdminManualFulfillOrder's read and guards: the status is kept in a local
AdminManualFulfillOrder(w, o) ==
    /\ \/ status[o] \in {"PENDING", "EXPIRED", "CANCELLED", "FAILED", "PAID"}
       \/ IsRechargingOrderStale(o)
    /\ Begin(w, o, "manual", status[o])
    /\ UNCHANGED <<rowVars, gateway, ledgerVars, manual, aborts>>

\* ... and its update, conditional on that status unless the order was PAID
MarkPaidManually(w) ==
    /\ pc[w] = "manual"
    /\ \/ /\ arg[w] = "PAID"
          /\ paidAt' = [paidAt EXCEPT ![job[w]] = TRUE]
          /\ \E a \in {0, age[job[w]]} : age' = [age EXCEPT ![job[w]] = a]
          /\ Keep(w, "claim")
          /\ manual' = [manual EXCEPT ![job[w]] = TRUE]
          /\ UNCHANGED status
       \/ /\ arg[w] # "PAID" /\ status[job[w]] = arg[w]
          /\ SetStatus(job[w], "PAID")
          /\ paidAt' = [paidAt EXCEPT ![job[w]] = TRUE]
          /\ manual' = [manual EXCEPT ![job[w]] = TRUE]
          /\ Keep(w, "claim")
       \/ /\ arg[w] # "PAID" /\ status[job[w]] # arg[w]
          /\ Keep(w, "idle")
          /\ UNCHANGED <<status, age, paidAt, manual>>
    /\ UNCHANGED <<ttl, gateway, ledgerVars, aborts>>

-----------------------------------------------------------------------------
(* CancelOrder, AdminCancelOrder, ExpireTimedOutOrders, VerifyOrderByOutTradeNo *)

\* CancelOrder and AdminCancelOrder up to cancelCore
CancelOrder(w, o) ==
    /\ status[o] = "PENDING"
    /\ Begin(w, o, "check", "CANCELLED")
    /\ UNCHANGED <<rowVars, gateway, ledgerVars, manual, aborts>>

\* Mutant: only orders that time out at this very moment are picked
ExpireOnTheDot(w, o) ==
    /\ status[o] = "PENDING" /\ ttl[o] = 0
    /\ Begin(w, o, "check", "EXPIRED")
    /\ UNCHANGED <<rowVars, gateway, ledgerVars, manual, aborts>>

\* the expiry job picks a timed-out order and enters cancelCore
ExpireTimedOutOrder(w, o) ==
    /\ status[o] = "PENDING" /\ ttl[o] <= 0
    /\ Begin(w, o, "check", "EXPIRED")
    /\ UNCHANGED <<rowVars, gateway, ledgerVars, manual, aborts>>

\* the user asks for reconciliation; nothing is cancelled afterwards
VerifyOrderByOutTradeNo(w, o) ==
    /\ status[o] \in {"PENDING", "EXPIRED"}
    /\ Begin(w, o, "check", "NONE")
    /\ UNCHANGED <<rowVars, gateway, ledgerVars, manual, aborts>>

\* checkPaid: ask the provider.  Paid: store the trade number (which refreshes
\* updated_at) and process it like a webhook, which may reject it.  Unpaid: close
\* it where the provider can, or the query failed; then go on to cancel.
CheckPaid(w) ==
    /\ pc[w] = "check"
    /\ \/ /\ gateway[job[w]] \in Collected
          /\ \E a \in {0, age[job[w]]} : age' = [age EXCEPT ![job[w]] = a]
          /\ Keep(w, "notify")
          /\ UNCHANGED gateway
       \/ /\ gateway[job[w]] = "open"
          /\ gateway' = [gateway EXCEPT ![job[w]] = "closed"]
          /\ Keep(w, IF arg[w] = "NONE" THEN "idle" ELSE "cancel")
          /\ UNCHANGED age
       \/ /\ Keep(w, IF arg[w] = "NONE" THEN "idle" ELSE "cancel")
          /\ UNCHANGED <<age, gateway>>
    /\ UNCHANGED <<status, paidAt, ttl, ledgerVars, manual, aborts>>

\* Mutant: the status is not tested again after the provider was asked
CancelUnconditionally(w) ==
    /\ pc[w] = "cancel"
    /\ SetStatus(job[w], arg[w])
    /\ Keep(w, "idle")
    /\ UNCHANGED <<paidAt, ttl, gateway, ledgerVars, manual, aborts>>

\* cancelCore's transaction
CancelCore(w) ==
    /\ pc[w] = "cancel"
    /\ IF status[job[w]] = "PENDING"
       THEN SetStatus(job[w], arg[w])
       ELSE UNCHANGED <<status, age>>
    /\ Keep(w, "idle")
    /\ UNCHANGED <<paidAt, ttl, gateway, ledgerVars, manual, aborts>>

\* Mutant: the comparison with the cutoff is the wrong way round
FailFreshRecharging(o) ==
    /\ status[o] = "RECHARGING" /\ age[o] < RechargingTimeout
    /\ SetStatus(o, "FAILED")
    /\ UNCHANGED <<paidAt, ttl, gateway, ledgerVars, manual, procVars, aborts>>

\* failStaleRechargingOrders: one conditional UPDATE per order
FailStaleRecharging(o) ==
    /\ IsRechargingOrderStale(o)
    /\ SetStatus(o, "FAILED")
    /\ UNCHANGED <<paidAt, ttl, gateway, ledgerVars, manual, procVars, aborts>>

-----------------------------------------------------------------------------
(* Time and failures *)

\* the statuses in which updated_at is compared with the clock; every change of the
\* status sets updated_at, so that the age before it does not matter
Aging == {"EXPIRED", "RECHARGING"}

Tick ==
    /\ age' = [o \in Orders |-> IF status[o] \in Aging /\ age[o] < AgeCap THEN age[o] + 1
                                ELSE age[o]]
    /\ ttl' = [o \in Orders |-> IF ttl[o] > -(Grace + 1) THEN ttl[o] - 1 ELSE ttl[o]]
    /\ UNCHANGED <<status, paidAt, gateway, ledgerVars, manual, procVars, aborts>>

\* the process dies, or the request's context ends, between two statements
Crash(w) ==
    /\ pc[w] # "idle"
    /\ aborts < MaxAborts
    /\ aborts' = aborts + 1
    /\ Keep(w, "idle")
    /\ UNCHANGED <<rowVars, gateway, ledgerVars, manual>>

\* the statements whose error is returned, or only logged, with nothing done about it:
\* createOrderInTx, CreateOrder's update to FAILED, the reads of confirmPayment,
\* alreadyProcessed and executeFulfillment, the UPDATEs of toPaid and of the claim,
\* markFailed, the manual update and cancelCore's transaction
Unhandled == {"insert", "invoke", "save", "notify", "already", "claim", "fail",
              "manual", "cancel"}

\* one of them fails and changes nothing (one that changed something and whose answer
\* was lost is that step followed by Crash)
StatementFails(w) ==
    /\ pc[w] \in Unhandled
    /\ aborts < MaxAborts
    /\ aborts' = aborts + 1
    /\ Keep(w, "idle")
    /\ UNCHANGED <<rowVars, gateway, ledgerVars, manual>>

-----------------------------------------------------------------------------
Init ==
    /\ status  = [o \in Orders |-> "NONE"]
    /\ paidAt  = [o \in Orders |-> FALSE]
    /\ age     = [o \in Orders |-> 0]
    /\ ttl     = [o \in Orders |-> 0]
    /\ gateway = [o \in Orders |-> "none"]
    /\ code    = [o \in Orders |-> "absent"]
    /\ granted = [o \in Orders |-> 0]
    /\ audited = [o \in Orders |-> FALSE]
    /\ manual  = [o \in Orders |-> FALSE]
    /\ pc      = [w \in Workers |-> "idle"]
    /\ job     \in [Workers -> Orders]
    /\ arg     = [w \in Workers |-> "NONE"]
    /\ aborts = 0

\* what a worker does next in the handler it is running
Step(w) ==
    \/ InsertOrder(w) \/ CreatePayment(w) \/ SavePaymentDetails(w) \/ FailCreate(w)
    \/ ToPaid(w) \/ RejectPayment(w) \/ AlreadyProcessed(w) \/ Claim(w)
    \/ ResolveRedeemAction(w) \/ CreateCode(w) \/ Redeem(w)
    \/ CheckSubscription(w) \/ AssignSubscription(w)
    \/ MarkCompleted(w) \/ WriteSuccessAudit(w) \/ MarkFailed(w)
    \/ MarkPaidManually(w) \/ CheckPaid(w) \/ CancelCore(w)

\* a handler starts
Start(w) ==
    \/ CheckPendingLimit(w)
    \/ \E o \in Orders :
        \/ HandlePaymentNotification(w, o) \/ RetryFulfillment(w, o)
        \/ AdminManualFulfillOrder(w, o)   \/ CancelOrder(w, o)
        \/ ExpireTimedOutOrder(w, o)       \/ VerifyOrderByOutTradeNo(w, o)

Next ==
    \/ \E w \in Workers : Start(w) \/ Step(w) \/ Crash(w) \/ StatementFails(w)
    \/ \E o \in Orders : UserPays(o) \/ FailStaleRecharging(o)
    \/ Tick

Spec == Init /\ [][Next]_vars

-----------------------------------------------------------------------------
(* Fairness.  Handlers run on (the Go scheduler), the clock advances, the      *)
(* expiry job is a goroutine of its own with a ticker, so it gets its turn     *)
(* however busy the other handlers are: strong fairness.                       *)

FairSpec ==
    /\ Spec
    /\ WF_vars(Tick)
    /\ \A w \in Workers : WF_vars(Step(w))
    /\ \A o \in Orders :
        /\ WF_vars(FailStaleRecharging(o))
        /\ SF_vars(\E w \in Workers : ExpireTimedOutOrder(w, o))

-----------------------------------------------------------------------------
(* Properties *)

\* Type invariant: every column holds one of its values, and the two distances
\* stay inside the saturation bounds the time comparisons need.
TypeOK ==
    /\ status  \in [Orders -> Statuses \union {"NONE"}]
    /\ paidAt  \in [Orders -> BOOLEAN]
    /\ age     \in [Orders -> 0..AgeCap]
    /\ ttl     \in [Orders -> -(Grace + 1)..OrderTimeout]
    /\ gateway \in [Orders -> {"none", "open", "closed"} \union Collected]
    /\ code    \in [Orders -> {"absent", "unused", "used"}]
    /\ granted \in [Orders -> Nat]
    /\ audited \in [Orders -> BOOLEAN]
    /\ manual  \in [Orders -> BOOLEAN]
    /\ pc      \in [Workers -> Labels]
    /\ job     \in [Workers -> Orders]
    /\ arg     \in [Workers -> Statuses \union {"NONE"}]
    /\ aborts \in 0..MaxAborts

\* A top-up credits the user's balance at most once, whatever webhooks are
\* repeated, fulfilments are retried, time out or die half-way: the redeem code
\* is consumed in the transaction that credits (doBalance, Redeem).
BalanceGrantedOnce == \A o \in BalanceOrders : granted[o] <= 1

\* COMPLETED is never a lie: the user has got what the order is for, even when
\* several workers fulfil the same order at once (markCompleted).
CompletedIsGranted ==
    \A o \in Orders : status[o] = "COMPLETED" => granted[o] > 0

\* Nothing is handed out for free: an order is granted only after the provider
\* reported its payment, and the right one, or an admin vouched for it, although the claim itself
\* accepts every FAILED order, paid or not (ExecuteBalanceFulfillment).
GrantIsBacked ==
    \A o \in Orders : granted[o] > 0 => gateway[o] = "paid" \/ manual[o]

\* A recorded payment is not lost: once paid_at is set no cancellation, expiry
\* or late answer puts the order back among the unpaid ones (cancelCore).
PaymentNotForgotten ==
    \A o \in Orders :
        paidAt[o] => status[o] \notin {"NONE", "PENDING", "CANCELLED", "EXPIRED"}

\* A COMPLETED order is final here: the one writer that can take it back is the
\* error path of the request that is still creating it (CreateOrder); markFailed
\* and the expiry job cannot.
KeepsCompleted ==
    \A o \in Orders :
        status[o] = "COMPLETED" /\ status'[o] # "COMPLETED" =>
            /\ status'[o] = "FAILED"
            /\ \E w \in Workers : pc[w] \in {"invoke", "save"} /\ job[w] = o

\* No step takes a COMPLETED order back, except as KeepsCompleted says.
CompletedIsFinal == [][KeepsCompleted]_vars

\* An order whose worker died while fulfilling does not stay RECHARGING:
\* failStaleRechargingOrders hands it back as FAILED.
RechargingEnds ==
    \A o \in Orders : status[o] = "RECHARGING" ~> status[o] # "RECHARGING"

\* No order stays PENDING, handlers that die and failing statements included: the
\* expiry job cancels or settles it.  The exception is a payment that confirmPayment
\* rejects: checkPaid answers "already paid" at every tick, and nobody moves the order.
PendingEnds ==
    \A o \in Orders :
        status[o] = "PENDING" ~> status[o] # "PENDING" \/ gateway[o] = "mispaid"

\* A PAID order is picked up for fulfilment as long as no handler dies and no
\* unhandled statement fails: after either between toPaid and the claim, a repeated
\* webhook finds the order "being processed" and only an admin moves it on.
PaidEndsUnlessAborted ==
    [](aborts = 0) =>
        \A o \in Orders : status[o] = "PAID" ~> status[o] # "PAID"

\* doSub's comment: the audit log prevents a second extension on retry after
\* markCompleted fails.
SubscriptionGrantedOnce == \A o \in SubscriptionOrders : granted[o] <= 1
=============================================================================
