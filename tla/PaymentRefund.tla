---------------------------- MODULE PaymentRefund ----------------------------
(***************************************************************************)
(* Refunds (payment_refund.go), interleaved with everything PaymentOrder   *)
(* can still do to a paid order: repeated webhooks, retries, manual        *)
(* fulfilment, slow or dead fulfilment workers, the expiry job.            *)
(*                                                                         *)
(* The refund takes back what the order gave (balance or subscription      *)
(* days), asks the provider to return the money, and undoes the first step *)
(* when the second fails.                                                  *)
(*                                                                         *)
(* A refund's statement whose failure just ends the handler (the lock, the *)
(* last update) is a Crash at that statement.                              *)
(***************************************************************************)
EXTENDS PaymentOrder

CONSTANTS
    Amount,        \* payment_orders.amount; for a subscription, its days
    InitBalance,   \* the user's balance before the orders are fulfilled
    InitDays       \* days left on the user's subscription before

ASSUME RefundAssumption ==
    Amount \in Nat \ {0} /\ InitBalance \in Nat /\ InitDays \in Nat

VARIABLES
    tradeNo,         \* payment_orders.payment_trade_no is not empty
    balance,         \* users.balance
    days,            \* days left on the subscription, 0 once it is revoked
    plan,            \* RefundPlan of each worker's handler
    taken,           \* deducted for the order and not given back
    returned,        \* money the provider returned to the payer
    skipped,         \* a refund did not ask the provider (REFUND_NO_TRADE_NO)
    rollbackAudit,   \* REFUND_ROLLBACK_FAILED is in the audit log
    rollbackFailed   \* a rollback of the order has failed

refundVars == <<tradeNo, plan, taken, returned, skipped, rollbackAudit, rollbackFailed>>
rvars == <<vars, balance, days, refundVars>>

NoPlan == [from |-> "NONE", amount |-> 0, take |-> 0, tradeNo |-> FALSE]

RefundLabels == {"request", "lock", "deduct", "gateway", "refunded",
                 "rollback", "restore", "refundFailed"}

\* the statuses a refund may start from
Refundable == {"COMPLETED", "REFUND_REQUESTED", "REFUND_FAILED"}

\* the statements between ExecuteRefund's lock and its last update
InRefund == {"deduct", "gateway", "refunded", "rollback", "restore", "refundFailed"}

Smaller(a, b) == IF a < b THEN a ELSE b

Drop(w) == plan' = [plan EXCEPT ![w] = NoPlan]

-----------------------------------------------------------------------------
(* RequestRefund *)

\* validateRefundRequest and the balance test, both on values read now
RequestRefund(w, o) ==
    /\ o \in BalanceOrders
    /\ status[o] = "COMPLETED"
    /\ balance >= Amount
    /\ Begin(w, o, "request", "NONE")
    /\ UNCHANGED <<rowVars, gateway, ledgerVars, manual, aborts, balance, days, refundVars>>

MarkRefundRequested(w) ==
    /\ pc[w] = "request"
    /\ IF status[job[w]] = "COMPLETED"
       THEN SetStatus(job[w], "REFUND_REQUESTED")
       ELSE UNCHANGED <<status, age>>
    /\ Keep(w, "idle")
    /\ UNCHANGED <<paidAt, ttl, gateway, ledgerVars, manual, aborts, balance, days, refundVars>>

-----------------------------------------------------------------------------
(* PrepareRefund, ExecuteRefund *)

\* PrepareRefund and prepDeduct: the plan keeps the order as it was read, fixes how
\* much to take back from what the user has now; without "deduct" nothing is taken
PrepareRefund(w, o) ==
    /\ status[o] \in Refundable
    /\ Begin(w, o, "lock", "NONE")
    /\ \E amount \in 1..Amount, deduct \in BOOLEAN :
        plan' = [plan EXCEPT ![w] =
            [from |-> status[o], amount |-> amount, tradeNo |-> tradeNo[o],
             take |-> CASE ~deduct -> 0
                        [] deduct /\ o \in BalanceOrders -> Smaller(amount, balance)
                        [] OTHER -> IF days > 0 THEN Amount ELSE 0]]
    /\ UNCHANGED <<rowVars, gateway, ledgerVars, manual, aborts, balance, days,
                   tradeNo, taken, returned, skipped, rollbackAudit, rollbackFailed>>

\* Mutant: the refund starts whatever happened to the order since it was prepared
LockRefundUnconditionally(w) ==
    /\ pc[w] = "lock"
    /\ SetStatus(job[w], "REFUNDING")
    /\ Keep(w, "deduct")
    /\ UNCHANGED <<paidAt, ttl, gateway, ledgerVars, manual, aborts, balance, days, refundVars>>

\* ExecuteRefund's conditional UPDATE to REFUNDING is the refund's lock
LockRefund(w) ==
    /\ pc[w] = "lock"
    /\ \/ /\ status[job[w]] \in Refundable
          /\ SetStatus(job[w], "REFUNDING")
          /\ Keep(w, "deduct")
          /\ UNCHANGED plan
       \/ /\ status[job[w]] \notin Refundable
          /\ Keep(w, "idle")
          /\ Drop(w)
          /\ UNCHANGED <<status, age>>
    /\ UNCHANGED <<paidAt, ttl, gateway, ledgerVars, manual, aborts, balance, days,
                   tradeNo, taken, returned, skipped, rollbackAudit, rollbackFailed>>

\* DeductBalance has no lower bound; ExtendSubscription(-days) that would end the
\* subscription revokes it instead
TakeBack(o, n) ==
    /\ taken' = [taken EXCEPT ![o] = @ + n]
    /\ IF o \in BalanceOrders
       THEN balance' = balance - n /\ UNCHANGED days
       ELSE /\ days > 0
            /\ days' = IF days > n THEN days - n ELSE 0
            /\ UNCHANGED balance

\* the deduction, skipped when the audit log tells of a failed rollback; a failed
\* read of the log counts as "nothing there"
Deduct(w) ==
    /\ pc[w] = "deduct"
    /\ \/ /\ plan[w].take > 0
          /\ TakeBack(job[w], plan[w].take)
          /\ Keep(w, "gateway")
          /\ UNCHANGED plan
       \/ /\ plan[w].take > 0
          /\ Keep(w, "restore")
          /\ UNCHANGED <<balance, days, taken, plan>>
       \/ /\ plan[w].take > 0 /\ rollbackAudit[job[w]]
          /\ plan' = [plan EXCEPT ![w].take = 0]
          /\ Keep(w, "gateway")
          /\ UNCHANGED <<balance, days, taken>>
       \/ /\ plan[w].take <= 0
          /\ Keep(w, "gateway")
          /\ UNCHANGED <<balance, days, taken, plan>>
    /\ UNCHANGED <<rowVars, gateway, ledgerVars, manual, aborts, tradeNo, returned,
                   skipped, rollbackAudit, rollbackFailed>>

\* Mutant: the provider's error is not looked at
GwRefundIgnoringErrors(w) ==
    /\ pc[w] = "gateway"
    /\ \/ /\ gateway[job[w]] \in Collected
          /\ returned[job[w]] + plan[w].amount <= Amount
          /\ returned' = [returned EXCEPT ![job[w]] = @ + plan[w].amount]
       \/ UNCHANGED returned
    /\ Keep(w, "refunded")
    /\ UNCHANGED <<rowVars, gateway, ledgerVars, manual, aborts, balance, days, tradeNo, plan,
                   taken, skipped, rollbackAudit, rollbackFailed>>

\* gwRefund: without a trade number in the order as the plan has it, the provider is not
\* asked, whether it was paid or not.  The provider (external) returns only what it got,
\* and never more; it may refuse, and its answer may be lost after it returned the money.
GwRefund(w) ==
    /\ pc[w] = "gateway"
    /\ \/ /\ ~plan[w].tradeNo
          /\ skipped' = [skipped EXCEPT ![job[w]] = TRUE]
          /\ Keep(w, "refunded")
          /\ UNCHANGED returned
       \/ /\ plan[w].tradeNo
          /\ gateway[job[w]] \in Collected
          /\ returned[job[w]] + plan[w].amount <= Amount
          /\ returned' = [returned EXCEPT ![job[w]] = @ + plan[w].amount]
          /\ \E l \in {"refunded", "rollback"} : Keep(w, l)
          /\ UNCHANGED skipped
       \/ /\ plan[w].tradeNo
          /\ Keep(w, "rollback")
          /\ UNCHANGED <<returned, skipped>>
    /\ UNCHANGED <<rowVars, gateway, ledgerVars, manual, aborts, balance, days, tradeNo, plan,
                   taken, rollbackAudit, rollbackFailed>>

\* markRefundOk
MarkRefundOk(w) ==
    /\ pc[w] = "refunded"
    /\ SetStatus(job[w], IF plan[w].amount < Amount THEN "PARTIALLY_REFUNDED" ELSE "REFUNDED")
    /\ Keep(w, "idle")
    /\ Drop(w)
    /\ UNCHANGED <<paidAt, ttl, gateway, ledgerVars, manual, aborts, balance, days,
                   tradeNo, taken, returned, skipped, rollbackAudit, rollbackFailed>>

-----------------------------------------------------------------------------
(* handleGwFail *)

\* Mutant: a called-off refund keeps the deduction
RollbackNothing(w) ==
    /\ pc[w] = "rollback"
    /\ Keep(w, "restore")
    /\ UNCHANGED <<rowVars, gateway, ledgerVars, manual, aborts, balance, days, tradeNo, plan,
                   taken, returned, skipped, rollbackAudit, rollbackFailed>>

\* Mutant: the whole refund amount is given back, not what was deducted
RollbackWholeAmount(w) ==
    /\ pc[w] = "rollback"
    /\ taken' = [taken EXCEPT ![job[w]] = @ - plan[w].amount]
    /\ balance' = balance + plan[w].amount
    /\ Keep(w, "restore")
    /\ UNCHANGED <<rowVars, gateway, ledgerVars, manual, aborts, days, tradeNo, plan,
                   returned, skipped, rollbackAudit, rollbackFailed>>

\* RollbackRefund: give back, or record (best effort) that this failed; a revoked
\* subscription cannot be extended any more
RollbackRefund(w) ==
    /\ pc[w] = "rollback"
    /\ \/ /\ plan[w].take > 0
          /\ taken' = [taken EXCEPT ![job[w]] = @ - plan[w].take]
          /\ \/ /\ job[w] \in BalanceOrders
                /\ balance' = balance + plan[w].take /\ UNCHANGED days
             \/ /\ job[w] \in SubscriptionOrders /\ days > 0
                /\ days' = days + plan[w].take /\ UNCHANGED balance
          /\ Keep(w, "restore")
          /\ UNCHANGED <<rollbackAudit, rollbackFailed>>
       \/ /\ plan[w].take > 0
          /\ rollbackFailed' = [rollbackFailed EXCEPT ![job[w]] = TRUE]
          /\ \/ rollbackAudit' = [rollbackAudit EXCEPT ![job[w]] = TRUE]
             \/ UNCHANGED rollbackAudit
          /\ Keep(w, "refundFailed")
          /\ UNCHANGED <<balance, days, taken>>
       \/ /\ plan[w].take <= 0
          /\ Keep(w, "restore")
          /\ UNCHANGED <<balance, days, taken, rollbackAudit, rollbackFailed>>
    /\ UNCHANGED <<rowVars, gateway, ledgerVars, manual, aborts, tradeNo, plan, returned, skipped>>

\* restoreStatus: back to the status the plan remembers, REFUND_FAILED becoming
\* COMPLETED
RestoreStatus(w) ==
    /\ pc[w] = "restore"
    /\ SetStatus(job[w], IF plan[w].from = "REFUND_REQUESTED"
                         THEN "REFUND_REQUESTED" ELSE "COMPLETED")
    /\ Keep(w, "idle")
    /\ Drop(w)
    /\ UNCHANGED <<paidAt, ttl, gateway, ledgerVars, manual, aborts, balance, days,
                   tradeNo, taken, returned, skipped, rollbackAudit, rollbackFailed>>

\* handleGwFail after a failed rollback
MarkRefundFailed(w) ==
    /\ pc[w] = "refundFailed"
    /\ SetStatus(job[w], "REFUND_FAILED")
    /\ Keep(w, "idle")
    /\ Drop(w)
    /\ UNCHANGED <<paidAt, ttl, gateway, ledgerVars, manual, aborts, balance, days,
                   tradeNo, taken, returned, skipped, rollbackAudit, rollbackFailed>>

-----------------------------------------------------------------------------
(* The rest of the system *)

\* external: the user spends balance on API calls
Spend ==
    /\ balance > 0
    /\ balance' = balance - 1
    /\ UNCHANGED <<vars, days, refundVars>>

\* the statements of PaymentOrder that write payment_trade_no: toPaid sets what the
\* notification or checkPaid's query said, nothing included; checkPaid and a manual
\* fulfilment set it only when they have one
TradeNoWrites == {<<"notify", "claim">>, <<"check", "notify">>, <<"manual", "claim">>}

SetTradeNo ==
    \/ UNCHANGED tradeNo
    \/ \E w \in Workers, b \in BOOLEAN :
        /\ <<pc[w], pc'[w]>> \in TradeNoWrites
        /\ b \/ pc[w] = "notify"
        /\ tradeNo' = [tradeNo EXCEPT ![job[w]] = b]

\* a step of PaymentOrder; a grant reaches the balance or the subscription
OrderStep ==
    /\ Next
    /\ SetTradeNo
    /\ balance' = balance
         + Amount * Cardinality({o \in BalanceOrders : granted'[o] # granted[o]})
    /\ days' = days
         + Amount * Cardinality({o \in SubscriptionOrders : granted'[o] # granted[o]})
    /\ plan' = [w \in Workers |-> IF pc'[w] = "idle" THEN NoPlan ELSE plan[w]]
    /\ UNCHANGED <<taken, returned, skipped, rollbackAudit, rollbackFailed>>

\* orders whose creation and payment window are over and whose payment has just been
\* recorded: by toPaid, with or without a trade number (checkPaid's query may not tell
\* one), or by an admin, whatever the provider's side looks like
RInit ==
    /\ status  = [o \in Orders |-> "PAID"]
    /\ paidAt  = [o \in Orders |-> TRUE]
    /\ age     = [o \in Orders |-> 0]
    /\ ttl     = [o \in Orders |-> -(Grace + 1)]
    /\ gateway \in [Orders -> {"none", "open", "closed"} \union Collected]
    /\ manual  \in [Orders -> BOOLEAN]
    /\ \A o \in Orders : gateway[o] = "paid" \/ manual[o]
    /\ tradeNo \in [Orders -> BOOLEAN]
    /\ code    = [o \in Orders |-> "absent"]
    /\ granted = [o \in Orders |-> 0]
    /\ audited = [o \in Orders |-> FALSE]
    /\ pc      = [w \in Workers |-> "idle"]
    /\ job     \in [Workers -> Orders]
    /\ arg     = [w \in Workers |-> "NONE"]
    /\ aborts = 0
    /\ balance = InitBalance
    /\ days    = InitDays
    /\ plan    = [w \in Workers |-> NoPlan]
    /\ taken    = [o \in Orders |-> 0]
    /\ returned = [o \in Orders |-> 0]
    /\ skipped  = [o \in Orders |-> FALSE]
    /\ rollbackAudit  = [o \in Orders |-> FALSE]
    /\ rollbackFailed = [o \in Orders |-> FALSE]

RefundStep(w) ==
    \/ \E o \in Orders : RequestRefund(w, o) \/ PrepareRefund(w, o)
    \/ MarkRefundRequested(w) \/ LockRefund(w) \/ Deduct(w) \/ GwRefund(w)
    \/ MarkRefundOk(w) \/ RollbackRefund(w) \/ RestoreStatus(w) \/ MarkRefundFailed(w)

RNext == OrderStep \/ Spend \/ \E w \in Workers : RefundStep(w)

RSpec == RInit /\ [][RNext]_rvars

-----------------------------------------------------------------------------
(* Properties *)

\* Type invariant.
RTypeOK ==
    /\ status \in [Orders -> Statuses]
    /\ pc     \in [Workers -> Labels \union RefundLabels]
    /\ balance \in Int /\ days \in Nat
    /\ plan \in [Workers -> [from : Statuses \union {"NONE"}, amount : 0..Amount, take : Int,
                           tradeNo : BOOLEAN]]
    /\ taken    \in [Orders -> Nat]
    /\ returned \in [Orders -> 0..Amount]
    /\ tradeNo  \in [Orders -> BOOLEAN]
    /\ skipped  \in [Orders -> BOOLEAN]
    /\ rollbackAudit  \in [Orders -> BOOLEAN]
    /\ rollbackFailed \in [Orders -> BOOLEAN]

\* REFUNDING is a lock: while one handler refunds an order (ExecuteRefund) no
\* other one does, and no webhook, retry, time-out or unconditional update of
\* restoreStatus and markRefundOk moves the order away from under it.
RefundIsExclusive ==
    \A w \in Workers : pc[w] \in InRefund =>
        /\ status[job[w]] = "REFUNDING"
        /\ \A v \in Workers : pc[v] \in InRefund /\ job[v] = job[w] => v = w

\* A refund that was called off has cost the user nothing: where the order is
\* COMPLETED or REFUND_REQUESTED again, what was taken has been given back,
\* unless a rollback of this order failed (handleGwFail, restoreStatus).
CalledOffIsUndone ==
    \A o \in Orders :
        status[o] \in {"COMPLETED", "REFUND_REQUESTED"} /\ taken[o] > 0 => rollbackFailed[o]

\* REFUNDED means that the provider returned the whole amount over all the refunds of the
\* order, and PARTIALLY_REFUNDED that it returned something (markRefundOk), unless a refund
\* found no trade number and skipped the provider: that order is marked all the same, with
\* nothing returned even if it was paid there (gwRefund).
RefundedIsReturned ==
    \A o \in Orders :
        /\ status[o] = "REFUNDED" => returned[o] = Amount \/ skipped[o]
        /\ status[o] = "PARTIALLY_REFUNDED" => returned[o] > 0 \/ skipped[o]

\* What a step of a top-up's fulfilment may never do: credit the balance once a
\* refund has begun, however slow the fulfilment worker is (psIsRefundStatus,
\* resolveRedeemAction).
NoCreditAfterRefund ==
    [][\A o \in BalanceOrders :
        status[o] \in RefundStatuses => granted'[o] = granted[o]]_rvars
==============================================================================
