------------------------- MODULE PaymentRefundProofs -------------------------
(***************************************************************************)
(* The safety properties of PaymentRefund for every set of orders and of   *)
(* handlers, every amount and every balance, wherever handlers are lost.   *)
(***************************************************************************)
EXTENDS PaymentRefund, FiniteSetTheorems, TLAPS

\* the statuses before an order is completed, and the ones that end a refund for good
Open == Statuses \ (RefundStatuses \union {"COMPLETED"})
Settled == {"REFUNDING", "REFUNDED", "PARTIALLY_REFUNDED"}

\* Orders are not created any more: none is PENDING.
Base ==
    /\ status  \in [Orders -> Statuses \ {"PENDING"}]
    /\ code    \in [Orders -> {"absent", "unused", "used"}]
    /\ granted \in [Orders -> Nat]
    /\ pc      \in [Workers -> (Labels \ {"insert", "invoke", "save"}) \union RefundLabels]
    /\ job     \in [Workers -> Orders]
    /\ arg     \in [Workers -> Statuses \union {"NONE"}]

\* An admin's handler remembers an order that was open, and a subscription's handler
\* works on a subscription.
LocalsInv ==
    \A w \in Workers :
        /\ pc[w] = "manual" => arg[w] \in Open
        /\ pc[w] \in {"group", "assign"} => job[w] \in SubscriptionOrders

\* A top-up that is completed, or was, has used up its redeem code.
CodeInv ==
    /\ \A o \in BalanceOrders : status[o] \notin Open => code[o] = "used"
    /\ \A w \in Workers :
        pc[w] = "complete" /\ job[w] \in BalanceOrders => code[job[w]] = "used"

\* The books of the refunds.
Plans == [from : Statuses \union {"NONE"}, amount : 0..Amount, take : Int,
          tradeNo : BOOLEAN]
BooksType ==
    /\ balance \in Int /\ days \in Nat
    /\ plan \in [Workers -> Plans]
    /\ taken    \in [Orders -> Nat]
    /\ returned \in [Orders -> 0..Amount]
    /\ tradeNo  \in [Orders -> BOOLEAN]
    /\ skipped  \in [Orders -> BOOLEAN]
    /\ rollbackAudit  \in [Orders -> BOOLEAN]
    /\ rollbackFailed \in [Orders -> BOOLEAN]

\* A refund under way is for a positive amount.
PlanInv == \A w \in Workers : pc[w] \in InRefund \union {"lock"} => plan[w].amount > 0

\* What the handler of a refund has taken from the user, as long as no rollback failed.
Deducted(w) == IF pc[w] \in {"gateway", "refunded", "rollback"} /\ plan[w].take > 0
               THEN plan[w].take ELSE 0
TakenInv ==
    /\ \A w \in Workers : pc[w] \in InRefund =>
        /\ taken[job[w]] >= Deducted(w)
        /\ pc[w] = "refundFailed" \/ taken[job[w]] = Deducted(w) \/ rollbackFailed[job[w]]
        /\ pc[w] = "refundFailed" => rollbackFailed[job[w]]
    /\ \A o \in Orders : rollbackAudit[o] => rollbackFailed[o]
    /\ \A o \in Orders : taken[o] > 0 => status[o] \in Settled \/ rollbackFailed[o]

\* A refund that is about to be marked as done has returned its amount, or has skipped
\* the provider.
ReturnInv ==
    \A w \in Workers :
        pc[w] = "refunded" => returned[job[w]] >= plan[w].amount \/ skipped[job[w]]

IInv ==
    /\ Base /\ LocalsInv /\ CodeInv /\ BooksType /\ RefundIsExclusive /\ PlanInv
    /\ TakenInv /\ ReturnInv /\ RefundedIsReturned

-----------------------------------------------------------------------------
(* The steps of PaymentOrder *)

\* What a step of PaymentOrder does to an order: it never touches one whose refund has
\* begun, and leaves the handlers of refunds alone unless they die.
OrderMove ==
    /\ Base'
    /\ \A o \in Orders : \/ status'[o] = status[o]
                         \/ status[o] \in Open /\ status'[o] \in Open \union {"COMPLETED"}
    /\ \A v \in Workers : pc'[v] \in RefundLabels => pc'[v] = pc[v] /\ job'[v] = job[v]
    /\ \A o, p \in Orders : granted'[o] # granted[o] /\ granted'[p] # granted[p] => o = p

\* No request creates an order any more.
LEMMA NoCreation ==
    ASSUME Base
    PROVE  ~IdsLeft
<1>1. {w \in Workers : pc[w] = "insert"} = {}
  BY DEF Base, Labels, RefundLabels
<1>2. {o \in Orders : status[o] = "NONE"} = {}
  BY DEF Base, Statuses, RefundStatuses
<1>3. Cardinality({}) = 0
  BY FS_EmptySet
<1> QED
  BY <1>1, <1>2, <1>3 DEF IdsLeft

\* Every step of PaymentOrder is such a move.
LEMMA OrderMoves ==
    ASSUME Base, LocalsInv, Next
    PROVE  OrderMove
<1>1. ASSUME NEW w \in Workers, CheckPendingLimit(w) PROVE OrderMove
  BY <1>1, NoCreation DEF CheckPendingLimit
<1>2. ASSUME NEW w \in Workers, NEW o \in Orders, HandlePaymentNotification(w, o) PROVE OrderMove
  BY <1>2 DEF Base, LocalsInv, OrderMove, Open, Statuses, RefundStatuses, Labels,
    RefundLabels, HandlePaymentNotification, Begin, rowVars, ledgerVars
<1>3. ASSUME NEW w \in Workers, NEW o \in Orders, RetryFulfillment(w, o) PROVE OrderMove
  BY <1>3 DEF Base, LocalsInv, OrderMove, Open, Statuses, RefundStatuses, Labels,
    RefundLabels, RetryFulfillment, Begin, SetStatus, rowVars, ledgerVars
<1>4. ASSUME NEW w \in Workers, NEW o \in Orders, AdminManualFulfillOrder(w, o) PROVE OrderMove
  BY <1>4 DEF Base, LocalsInv, OrderMove, Open, Statuses, RefundStatuses, Labels,
    RefundLabels, AdminManualFulfillOrder, Begin, IsRechargingOrderStale, rowVars,
    ledgerVars
<1>5. ASSUME NEW w \in Workers, NEW o \in Orders, CancelOrder(w, o) PROVE OrderMove
  BY <1>5 DEF Base, LocalsInv, OrderMove, Open, Statuses, RefundStatuses, Labels,
    RefundLabels, CancelOrder, Begin, rowVars, ledgerVars
<1>6. ASSUME NEW w \in Workers, NEW o \in Orders, ExpireTimedOutOrder(w, o) PROVE OrderMove
  BY <1>6 DEF Base, LocalsInv, OrderMove, Open, Statuses, RefundStatuses, Labels,
    RefundLabels, ExpireTimedOutOrder, Begin, rowVars, ledgerVars
<1>7. ASSUME NEW w \in Workers, NEW o \in Orders, VerifyOrderByOutTradeNo(w, o) PROVE OrderMove
  BY <1>7 DEF Base, LocalsInv, OrderMove, Open, Statuses, RefundStatuses, Labels,
    RefundLabels, VerifyOrderByOutTradeNo, Begin, rowVars, ledgerVars
<1>8. ASSUME NEW w \in Workers, InsertOrder(w) PROVE OrderMove
  BY <1>8 DEF Base, LocalsInv, OrderMove, Open, Statuses, RefundStatuses, Labels,
    RefundLabels, InsertOrder, Keep, Continue, rowVars, ledgerVars
<1>9. ASSUME NEW w \in Workers, CreatePayment(w) PROVE OrderMove
  BY <1>9 DEF Base, LocalsInv, OrderMove, Open, Statuses, RefundStatuses, Labels,
    RefundLabels, CreatePayment, Keep, Continue, rowVars, ledgerVars
<1>10. ASSUME NEW w \in Workers, SavePaymentDetails(w) PROVE OrderMove
  BY <1>10 DEF Base, LocalsInv, OrderMove, Open, Statuses, RefundStatuses, Labels,
    RefundLabels, SavePaymentDetails, Keep, Continue, rowVars, ledgerVars
<1>11. ASSUME NEW w \in Workers, FailCreate(w) PROVE OrderMove
  BY <1>11 DEF Base, LocalsInv, OrderMove, Open, Statuses, RefundStatuses, Labels,
    RefundLabels, FailCreate, Keep, Continue, rowVars, ledgerVars
<1>12. ASSUME NEW w \in Workers, ToPaid(w) PROVE OrderMove
  BY <1>12 DEF Base, LocalsInv, OrderMove, Open, Statuses, RefundStatuses, Labels,
    RefundLabels, ToPaid, Keep, Continue, SetStatus, Payable, rowVars, ledgerVars
<1>13. ASSUME NEW w \in Workers, AlreadyProcessed(w) PROVE OrderMove
  BY <1>13 DEF Base, LocalsInv, OrderMove, Open, Statuses, RefundStatuses, Labels,
    RefundLabels, AlreadyProcessed, Keep, Continue, rowVars, ledgerVars
<1>14. ASSUME NEW w \in Workers, Claim(w) PROVE OrderMove
  BY <1>14 DEF Base, LocalsInv, OrderMove, Open, Statuses, RefundStatuses, Labels,
    RefundLabels, Claim, Keep, Continue, SetStatus, rowVars, ledgerVars
<1>15. ASSUME NEW w \in Workers, ResolveRedeemAction(w) PROVE OrderMove
  BY <1>15 DEF Base, LocalsInv, OrderMove, Open, Statuses, RefundStatuses, Labels,
    RefundLabels, ResolveRedeemAction, Keep, Continue, rowVars, ledgerVars
<1>16. ASSUME NEW w \in Workers, CreateCode(w) PROVE OrderMove
  BY <1>16 DEF Base, LocalsInv, OrderMove, Open, Statuses, RefundStatuses, Labels,
    RefundLabels, CreateCode, Keep, Continue, rowVars, ledgerVars
<1>17. ASSUME NEW w \in Workers, Redeem(w) PROVE OrderMove
  BY <1>17 DEF Base, LocalsInv, OrderMove, Open, Statuses, RefundStatuses, Labels,
    RefundLabels, Redeem, Keep, Continue, rowVars, ledgerVars
<1>18. ASSUME NEW w \in Workers, CheckSubscription(w) PROVE OrderMove
  BY <1>18 DEF Base, LocalsInv, OrderMove, Open, Statuses, RefundStatuses, Labels,
    RefundLabels, CheckSubscription, Keep, Continue, rowVars, ledgerVars
<1>19. ASSUME NEW w \in Workers, AssignSubscription(w) PROVE OrderMove
  BY <1>19 DEF Base, LocalsInv, OrderMove, Open, Statuses, RefundStatuses, Labels,
    RefundLabels, AssignSubscription, Keep, Continue, rowVars, ledgerVars
<1>20. ASSUME NEW w \in Workers, MarkCompleted(w) PROVE OrderMove
  BY <1>20 DEF Base, LocalsInv, OrderMove, Open, Statuses, RefundStatuses, Labels,
    RefundLabels, MarkCompleted, Keep, Continue, SetStatus, rowVars, ledgerVars
<1>21. ASSUME NEW w \in Workers, WriteSuccessAudit(w) PROVE OrderMove
  BY <1>21 DEF Base, LocalsInv, OrderMove, Open, Statuses, RefundStatuses, Labels,
    RefundLabels, WriteSuccessAudit, Keep, Continue, rowVars, ledgerVars
<1>22. ASSUME NEW w \in Workers, MarkFailed(w) PROVE OrderMove
  BY <1>22 DEF Base, LocalsInv, OrderMove, Open, Statuses, RefundStatuses, Labels,
    RefundLabels, MarkFailed, Keep, Continue, SetStatus, rowVars, ledgerVars
<1>23. ASSUME NEW w \in Workers, MarkPaidManually(w) PROVE OrderMove
  BY <1>23 DEF Base, LocalsInv, OrderMove, Open, Statuses, RefundStatuses, Labels,
    RefundLabels, MarkPaidManually, Keep, Continue, SetStatus, rowVars, ledgerVars
<1>24. ASSUME NEW w \in Workers, CheckPaid(w) PROVE OrderMove
  BY <1>24 DEF Base, LocalsInv, OrderMove, Open, Statuses, RefundStatuses, Labels,
    RefundLabels, CheckPaid, Keep, Continue, rowVars, ledgerVars
<1>25. ASSUME NEW w \in Workers, CancelCore(w) PROVE OrderMove
  BY <1>25 DEF Base, LocalsInv, OrderMove, Open, Statuses, RefundStatuses, Labels,
    RefundLabels, CancelCore, Keep, Continue, SetStatus, rowVars, ledgerVars
<1>26. ASSUME NEW w \in Workers, Crash(w) PROVE OrderMove
  BY <1>26 DEF Base, LocalsInv, OrderMove, Open, Statuses, RefundStatuses, Labels,
    RefundLabels, Crash, Keep, Continue, rowVars, ledgerVars
<1>30. ASSUME NEW w \in Workers, RejectPayment(w) PROVE OrderMove
  BY <1>30 DEF Base, LocalsInv, OrderMove, Open, Statuses, RefundStatuses, Labels,
    RefundLabels, RejectPayment, Keep, Continue, rowVars, ledgerVars
<1>31. ASSUME NEW w \in Workers, StatementFails(w) PROVE OrderMove
  BY <1>31 DEF Base, LocalsInv, OrderMove, Open, Statuses, RefundStatuses, Labels,
    RefundLabels, StatementFails, Keep, Continue, rowVars, ledgerVars
<1>27. ASSUME NEW o \in Orders, UserPays(o) PROVE OrderMove
  BY <1>27 DEF Base, LocalsInv, OrderMove, Open, Statuses, RefundStatuses, Labels,
    RefundLabels, UserPays, rowVars, ledgerVars, procVars
<1>28. ASSUME NEW o \in Orders, FailStaleRecharging(o) PROVE OrderMove
  BY <1>28 DEF Base, LocalsInv, OrderMove, Open, Statuses, RefundStatuses, Labels,
    RefundLabels, FailStaleRecharging, SetStatus, IsRechargingOrderStale, rowVars,
    ledgerVars, procVars
<1>29. CASE Tick
  BY <1>29 DEF Base, LocalsInv, OrderMove, Open, Statuses, RefundStatuses, Labels,
    RefundLabels, Tick, rowVars, ledgerVars, procVars
<1> QED
  BY <1>1, <1>2, <1>3, <1>4, <1>5, <1>6, <1>7, <1>8, <1>9, <1>10, <1>11, <1>12, <1>13,
    <1>14, <1>15, <1>16, <1>17, <1>18, <1>19, <1>20, <1>21, <1>22, <1>23, <1>24, <1>25,
    <1>26, <1>27, <1>28, <1>29, <1>30, <1>31 DEF Next, Start, Step

\* The locals of the handlers and the redeem codes over a step of PaymentOrder.
LEMMA OrderKeepsLocals ==
    ASSUME Base, LocalsInv, Next
    PROVE  LocalsInv'
<1>1. ASSUME NEW w \in Workers, CheckPendingLimit(w) PROVE LocalsInv'
  BY <1>1, NoCreation DEF CheckPendingLimit
<1>2. ASSUME NEW w \in Workers, NEW o \in Orders, HandlePaymentNotification(w, o) PROVE LocalsInv'
  BY <1>2 DEF Base, LocalsInv, Open, Statuses, RefundStatuses, Labels, RefundLabels,
    Orders, HandlePaymentNotification, Begin, rowVars, ledgerVars
<1>3. ASSUME NEW w \in Workers, NEW o \in Orders, RetryFulfillment(w, o) PROVE LocalsInv'
  BY <1>3 DEF Base, LocalsInv, Open, Statuses, RefundStatuses, Labels, RefundLabels,
    Orders, RetryFulfillment, Begin, SetStatus, rowVars, ledgerVars
<1>4. ASSUME NEW w \in Workers, NEW o \in Orders, AdminManualFulfillOrder(w, o) PROVE LocalsInv'
  BY <1>4 DEF Base, LocalsInv, Open, Statuses, RefundStatuses, Labels, RefundLabels,
    Orders, AdminManualFulfillOrder, Begin, IsRechargingOrderStale, rowVars, ledgerVars
<1>5. ASSUME NEW w \in Workers, NEW o \in Orders, CancelOrder(w, o) PROVE LocalsInv'
  BY <1>5 DEF Base, LocalsInv, Open, Statuses, RefundStatuses, Labels, RefundLabels,
    Orders, CancelOrder, Begin, rowVars, ledgerVars
<1>6. ASSUME NEW w \in Workers, NEW o \in Orders, ExpireTimedOutOrder(w, o) PROVE LocalsInv'
  BY <1>6 DEF Base, LocalsInv, Open, Statuses, RefundStatuses, Labels, RefundLabels,
    Orders, ExpireTimedOutOrder, Begin, rowVars, ledgerVars
<1>7. ASSUME NEW w \in Workers, NEW o \in Orders, VerifyOrderByOutTradeNo(w, o) PROVE LocalsInv'
  BY <1>7 DEF Base, LocalsInv, Open, Statuses, RefundStatuses, Labels, RefundLabels,
    Orders, VerifyOrderByOutTradeNo, Begin, rowVars, ledgerVars
<1>8. ASSUME NEW w \in Workers, InsertOrder(w) PROVE LocalsInv'
  BY <1>8 DEF Base, LocalsInv, Open, Statuses, RefundStatuses, Labels, RefundLabels,
    Orders, InsertOrder, Keep, Continue, rowVars, ledgerVars
<1>9. ASSUME NEW w \in Workers, CreatePayment(w) PROVE LocalsInv'
  BY <1>9 DEF Base, LocalsInv, Open, Statuses, RefundStatuses, Labels, RefundLabels,
    Orders, CreatePayment, Keep, Continue, rowVars, ledgerVars
<1>10. ASSUME NEW w \in Workers, SavePaymentDetails(w) PROVE LocalsInv'
  BY <1>10 DEF Base, LocalsInv, Open, Statuses, RefundStatuses, Labels, RefundLabels,
    Orders, SavePaymentDetails, Keep, Continue, rowVars, ledgerVars
<1>11. ASSUME NEW w \in Workers, FailCreate(w) PROVE LocalsInv'
  BY <1>11 DEF Base, LocalsInv, Open, Statuses, RefundStatuses, Labels, RefundLabels,
    Orders, FailCreate, Keep, Continue, rowVars, ledgerVars
<1>12. ASSUME NEW w \in Workers, ToPaid(w) PROVE LocalsInv'
  BY <1>12 DEF Base, LocalsInv, Open, Statuses, RefundStatuses, Labels, RefundLabels,
    Orders, ToPaid, Keep, Continue, SetStatus, Payable, rowVars, ledgerVars
<1>13. ASSUME NEW w \in Workers, AlreadyProcessed(w) PROVE LocalsInv'
  BY <1>13 DEF Base, LocalsInv, Open, Statuses, RefundStatuses, Labels, RefundLabels,
    Orders, AlreadyProcessed, Keep, Continue, rowVars, ledgerVars
<1>14. ASSUME NEW w \in Workers, Claim(w) PROVE LocalsInv'
  BY <1>14 DEF Base, LocalsInv, Open, Statuses, RefundStatuses, Labels, RefundLabels,
    Orders, Claim, Keep, Continue, SetStatus, rowVars, ledgerVars
<1>15. ASSUME NEW w \in Workers, ResolveRedeemAction(w) PROVE LocalsInv'
  BY <1>15 DEF Base, LocalsInv, Open, Statuses, RefundStatuses, Labels, RefundLabels,
    Orders, ResolveRedeemAction, Keep, Continue, rowVars, ledgerVars
<1>16. ASSUME NEW w \in Workers, CreateCode(w) PROVE LocalsInv'
  BY <1>16 DEF Base, LocalsInv, Open, Statuses, RefundStatuses, Labels, RefundLabels,
    Orders, CreateCode, Keep, Continue, rowVars, ledgerVars
<1>17. ASSUME NEW w \in Workers, Redeem(w) PROVE LocalsInv'
  BY <1>17 DEF Base, LocalsInv, Open, Statuses, RefundStatuses, Labels, RefundLabels,
    Orders, Redeem, Keep, Continue, rowVars, ledgerVars
<1>18. ASSUME NEW w \in Workers, CheckSubscription(w) PROVE LocalsInv'
  BY <1>18 DEF Base, LocalsInv, Open, Statuses, RefundStatuses, Labels, RefundLabels,
    Orders, CheckSubscription, Keep, Continue, rowVars, ledgerVars
<1>19. ASSUME NEW w \in Workers, AssignSubscription(w) PROVE LocalsInv'
  BY <1>19 DEF Base, LocalsInv, Open, Statuses, RefundStatuses, Labels, RefundLabels,
    Orders, AssignSubscription, Keep, Continue, rowVars, ledgerVars
<1>20. ASSUME NEW w \in Workers, MarkCompleted(w) PROVE LocalsInv'
  BY <1>20 DEF Base, LocalsInv, Open, Statuses, RefundStatuses, Labels, RefundLabels,
    Orders, MarkCompleted, Keep, Continue, SetStatus, rowVars, ledgerVars
<1>21. ASSUME NEW w \in Workers, WriteSuccessAudit(w) PROVE LocalsInv'
  BY <1>21 DEF Base, LocalsInv, Open, Statuses, RefundStatuses, Labels, RefundLabels,
    Orders, WriteSuccessAudit, Keep, Continue, rowVars, ledgerVars
<1>22. ASSUME NEW w \in Workers, MarkFailed(w) PROVE LocalsInv'
  BY <1>22 DEF Base, LocalsInv, Open, Statuses, RefundStatuses, Labels, RefundLabels,
    Orders, MarkFailed, Keep, Continue, SetStatus, rowVars, ledgerVars
<1>23. ASSUME NEW w \in Workers, MarkPaidManually(w) PROVE LocalsInv'
  BY <1>23 DEF Base, LocalsInv, Open, Statuses, RefundStatuses, Labels, RefundLabels,
    Orders, MarkPaidManually, Keep, Continue, SetStatus, rowVars, ledgerVars
<1>24. ASSUME NEW w \in Workers, CheckPaid(w) PROVE LocalsInv'
  BY <1>24 DEF Base, LocalsInv, Open, Statuses, RefundStatuses, Labels, RefundLabels,
    Orders, CheckPaid, Keep, Continue, rowVars, ledgerVars
<1>25. ASSUME NEW w \in Workers, CancelCore(w) PROVE LocalsInv'
  BY <1>25 DEF Base, LocalsInv, Open, Statuses, RefundStatuses, Labels, RefundLabels,
    Orders, CancelCore, Keep, Continue, SetStatus, rowVars, ledgerVars
<1>26. ASSUME NEW w \in Workers, Crash(w) PROVE LocalsInv'
  BY <1>26 DEF Base, LocalsInv, Open, Statuses, RefundStatuses, Labels, RefundLabels,
    Orders, Crash, Keep, Continue, rowVars, ledgerVars
<1>30. ASSUME NEW w \in Workers, RejectPayment(w) PROVE LocalsInv'
  BY <1>30 DEF Base, LocalsInv, Open, Statuses, RefundStatuses, Labels, RefundLabels,
    Orders, RejectPayment, Keep, Continue, rowVars, ledgerVars
<1>31. ASSUME NEW w \in Workers, StatementFails(w) PROVE LocalsInv'
  BY <1>31 DEF Base, LocalsInv, Open, Statuses, RefundStatuses, Labels, RefundLabels,
    Orders, StatementFails, Keep, Continue, rowVars, ledgerVars
<1>27. ASSUME NEW o \in Orders, UserPays(o) PROVE LocalsInv'
  BY <1>27 DEF Base, LocalsInv, Open, Statuses, RefundStatuses, Labels, RefundLabels,
    Orders, UserPays, rowVars, ledgerVars, procVars
<1>28. ASSUME NEW o \in Orders, FailStaleRecharging(o) PROVE LocalsInv'
  BY <1>28 DEF Base, LocalsInv, Open, Statuses, RefundStatuses, Labels, RefundLabels,
    Orders, FailStaleRecharging, SetStatus, IsRechargingOrderStale, rowVars, ledgerVars,
    procVars
<1>29. CASE Tick
  BY <1>29 DEF Base, LocalsInv, Open, Statuses, RefundStatuses, Labels, RefundLabels,
    Orders, Tick, rowVars, ledgerVars, procVars
<1> QED
  BY <1>1, <1>2, <1>3, <1>4, <1>5, <1>6, <1>7, <1>8, <1>9, <1>10, <1>11, <1>12, <1>13,
    <1>14, <1>15, <1>16, <1>17, <1>18, <1>19, <1>20, <1>21, <1>22, <1>23, <1>24, <1>25,
    <1>26, <1>27, <1>28, <1>29, <1>30, <1>31 DEF Next, Start, Step

\* A redeem code is used up before its order is completed.
LEMMA OrderKeepsCode ==
    ASSUME Base, LocalsInv, CodeInv, Next
    PROVE  CodeInv'
<1>1. ASSUME NEW w \in Workers, CheckPendingLimit(w) PROVE CodeInv'
  BY <1>1, NoCreation DEF CheckPendingLimit
<1>2. ASSUME NEW w \in Workers, NEW o \in Orders, HandlePaymentNotification(w, o) PROVE CodeInv'
  BY <1>2, OrderTypesAssumption DEF Base, LocalsInv, CodeInv, Open, Statuses,
    RefundStatuses, Labels, RefundLabels, Orders, HandlePaymentNotification, Begin,
    rowVars, ledgerVars
<1>3. ASSUME NEW w \in Workers, NEW o \in Orders, RetryFulfillment(w, o) PROVE CodeInv'
  BY <1>3, OrderTypesAssumption DEF Base, LocalsInv, CodeInv, Open, Statuses,
    RefundStatuses, Labels, RefundLabels, Orders, RetryFulfillment, Begin, SetStatus,
    rowVars, ledgerVars
<1>4. ASSUME NEW w \in Workers, NEW o \in Orders, AdminManualFulfillOrder(w, o) PROVE CodeInv'
  BY <1>4, OrderTypesAssumption DEF Base, LocalsInv, CodeInv, Open, Statuses,
    RefundStatuses, Labels, RefundLabels, Orders, AdminManualFulfillOrder, Begin,
    IsRechargingOrderStale, rowVars, ledgerVars
<1>5. ASSUME NEW w \in Workers, NEW o \in Orders, CancelOrder(w, o) PROVE CodeInv'
  BY <1>5, OrderTypesAssumption DEF Base, LocalsInv, CodeInv, Open, Statuses,
    RefundStatuses, Labels, RefundLabels, Orders, CancelOrder, Begin, rowVars, ledgerVars
<1>6. ASSUME NEW w \in Workers, NEW o \in Orders, ExpireTimedOutOrder(w, o) PROVE CodeInv'
  BY <1>6, OrderTypesAssumption DEF Base, LocalsInv, CodeInv, Open, Statuses,
    RefundStatuses, Labels, RefundLabels, Orders, ExpireTimedOutOrder, Begin, rowVars,
    ledgerVars
<1>7. ASSUME NEW w \in Workers, NEW o \in Orders, VerifyOrderByOutTradeNo(w, o) PROVE CodeInv'
  BY <1>7, OrderTypesAssumption DEF Base, LocalsInv, CodeInv, Open, Statuses,
    RefundStatuses, Labels, RefundLabels, Orders, VerifyOrderByOutTradeNo, Begin, rowVars,
    ledgerVars
<1>8. ASSUME NEW w \in Workers, InsertOrder(w) PROVE CodeInv'
  BY <1>8, OrderTypesAssumption DEF Base, LocalsInv, CodeInv, Open, Statuses,
    RefundStatuses, Labels, RefundLabels, Orders, InsertOrder, Keep, Continue, rowVars,
    ledgerVars
<1>9. ASSUME NEW w \in Workers, CreatePayment(w) PROVE CodeInv'
  BY <1>9, OrderTypesAssumption DEF Base, LocalsInv, CodeInv, Open, Statuses,
    RefundStatuses, Labels, RefundLabels, Orders, CreatePayment, Keep, Continue, rowVars,
    ledgerVars
<1>10. ASSUME NEW w \in Workers, SavePaymentDetails(w) PROVE CodeInv'
  BY <1>10, OrderTypesAssumption DEF Base, LocalsInv, CodeInv, Open, Statuses,
    RefundStatuses, Labels, RefundLabels, Orders, SavePaymentDetails, Keep, Continue,
    rowVars, ledgerVars
<1>11. ASSUME NEW w \in Workers, FailCreate(w) PROVE CodeInv'
  BY <1>11, OrderTypesAssumption DEF Base, LocalsInv, CodeInv, Open, Statuses,
    RefundStatuses, Labels, RefundLabels, Orders, FailCreate, Keep, Continue, rowVars,
    ledgerVars
<1>12. ASSUME NEW w \in Workers, ToPaid(w) PROVE CodeInv'
  BY <1>12, OrderTypesAssumption DEF Base, LocalsInv, CodeInv, Open, Statuses,
    RefundStatuses, Labels, RefundLabels, Orders, ToPaid, Keep, Continue, SetStatus,
    Payable, rowVars, ledgerVars
<1>13. ASSUME NEW w \in Workers, AlreadyProcessed(w) PROVE CodeInv'
  BY <1>13, OrderTypesAssumption DEF Base, LocalsInv, CodeInv, Open, Statuses,
    RefundStatuses, Labels, RefundLabels, Orders, AlreadyProcessed, Keep, Continue,
    rowVars, ledgerVars
<1>14. ASSUME NEW w \in Workers, Claim(w) PROVE CodeInv'
  BY <1>14, OrderTypesAssumption DEF Base, LocalsInv, CodeInv, Open, Statuses,
    RefundStatuses, Labels, RefundLabels, Orders, Claim, Keep, Continue, SetStatus,
    rowVars, ledgerVars
<1>15. ASSUME NEW w \in Workers, ResolveRedeemAction(w) PROVE CodeInv'
  BY <1>15, OrderTypesAssumption DEF Base, LocalsInv, CodeInv, Open, Statuses,
    RefundStatuses, Labels, RefundLabels, Orders, ResolveRedeemAction, Keep, Continue,
    rowVars, ledgerVars
<1>16. ASSUME NEW w \in Workers, CreateCode(w) PROVE CodeInv'
  BY <1>16, OrderTypesAssumption DEF Base, LocalsInv, CodeInv, Open, Statuses,
    RefundStatuses, Labels, RefundLabels, Orders, CreateCode, Keep, Continue, rowVars,
    ledgerVars
<1>17. ASSUME NEW w \in Workers, Redeem(w) PROVE CodeInv'
  BY <1>17, OrderTypesAssumption DEF Base, LocalsInv, CodeInv, Open, Statuses,
    RefundStatuses, Labels, RefundLabels, Orders, Redeem, Keep, Continue, rowVars,
    ledgerVars
<1>18. ASSUME NEW w \in Workers, CheckSubscription(w) PROVE CodeInv'
  BY <1>18, OrderTypesAssumption DEF Base, LocalsInv, CodeInv, Open, Statuses,
    RefundStatuses, Labels, RefundLabels, Orders, CheckSubscription, Keep, Continue,
    rowVars, ledgerVars
<1>19. ASSUME NEW w \in Workers, AssignSubscription(w) PROVE CodeInv'
  BY <1>19, OrderTypesAssumption DEF Base, LocalsInv, CodeInv, Open, Statuses,
    RefundStatuses, Labels, RefundLabels, Orders, AssignSubscription, Keep, Continue,
    rowVars, ledgerVars
<1>20. ASSUME NEW w \in Workers, MarkCompleted(w) PROVE CodeInv'
  BY <1>20, OrderTypesAssumption DEF Base, LocalsInv, CodeInv, Open, Statuses,
    RefundStatuses, Labels, RefundLabels, Orders, MarkCompleted, Keep, Continue,
    SetStatus, rowVars, ledgerVars
<1>21. ASSUME NEW w \in Workers, WriteSuccessAudit(w) PROVE CodeInv'
  BY <1>21, OrderTypesAssumption DEF Base, LocalsInv, CodeInv, Open, Statuses,
    RefundStatuses, Labels, RefundLabels, Orders, WriteSuccessAudit, Keep, Continue,
    rowVars, ledgerVars
<1>22. ASSUME NEW w \in Workers, MarkFailed(w) PROVE CodeInv'
  BY <1>22, OrderTypesAssumption DEF Base, LocalsInv, CodeInv, Open, Statuses,
    RefundStatuses, Labels, RefundLabels, Orders, MarkFailed, Keep, Continue, SetStatus,
    rowVars, ledgerVars
<1>23. ASSUME NEW w \in Workers, MarkPaidManually(w) PROVE CodeInv'
  BY <1>23, OrderTypesAssumption DEF Base, LocalsInv, CodeInv, Open, Statuses,
    RefundStatuses, Labels, RefundLabels, Orders, MarkPaidManually, Keep, Continue,
    SetStatus, rowVars, ledgerVars
<1>24. ASSUME NEW w \in Workers, CheckPaid(w) PROVE CodeInv'
  BY <1>24, OrderTypesAssumption DEF Base, LocalsInv, CodeInv, Open, Statuses,
    RefundStatuses, Labels, RefundLabels, Orders, CheckPaid, Keep, Continue, rowVars,
    ledgerVars
<1>25. ASSUME NEW w \in Workers, CancelCore(w) PROVE CodeInv'
  BY <1>25, OrderTypesAssumption DEF Base, LocalsInv, CodeInv, Open, Statuses,
    RefundStatuses, Labels, RefundLabels, Orders, CancelCore, Keep, Continue, SetStatus,
    rowVars, ledgerVars
<1>26. ASSUME NEW w \in Workers, Crash(w) PROVE CodeInv'
  BY <1>26, OrderTypesAssumption DEF Base, LocalsInv, CodeInv, Open, Statuses,
    RefundStatuses, Labels, RefundLabels, Orders, Crash, Keep, Continue, rowVars,
    ledgerVars
<1>30. ASSUME NEW w \in Workers, RejectPayment(w) PROVE CodeInv'
  BY <1>30, OrderTypesAssumption DEF Base, LocalsInv, CodeInv, Open, Statuses,
    RefundStatuses, Labels, RefundLabels, Orders, RejectPayment, Keep, Continue, rowVars,
    ledgerVars
<1>31. ASSUME NEW w \in Workers, StatementFails(w) PROVE CodeInv'
  BY <1>31, OrderTypesAssumption DEF Base, LocalsInv, CodeInv, Open, Statuses,
    RefundStatuses, Labels, RefundLabels, Orders, StatementFails, Keep, Continue, rowVars,
    ledgerVars
<1>27. ASSUME NEW o \in Orders, UserPays(o) PROVE CodeInv'
  BY <1>27, OrderTypesAssumption DEF Base, LocalsInv, CodeInv, Open, Statuses,
    RefundStatuses, Labels, RefundLabels, Orders, UserPays, rowVars, ledgerVars, procVars
<1>28. ASSUME NEW o \in Orders, FailStaleRecharging(o) PROVE CodeInv'
  BY <1>28, OrderTypesAssumption DEF Base, LocalsInv, CodeInv, Open, Statuses,
    RefundStatuses, Labels, RefundLabels, Orders, FailStaleRecharging, SetStatus,
    IsRechargingOrderStale, rowVars, ledgerVars, procVars
<1>29. CASE Tick
  BY <1>29, OrderTypesAssumption DEF Base, LocalsInv, CodeInv, Open, Statuses,
    RefundStatuses, Labels, RefundLabels, Orders, Tick, rowVars, ledgerVars, procVars
<1> QED
  BY <1>1, <1>2, <1>3, <1>4, <1>5, <1>6, <1>7, <1>8, <1>9, <1>10, <1>11, <1>12, <1>13,
    <1>14, <1>15, <1>16, <1>17, <1>18, <1>19, <1>20, <1>21, <1>22, <1>23, <1>24, <1>25,
    <1>26, <1>27, <1>28, <1>29, <1>30, <1>31 DEF Next, Start, Step

\* A top-up is not credited once its refund has begun.
NoCredit == \A o \in BalanceOrders : status[o] \in RefundStatuses => granted'[o] = granted[o]

\* Only a redeem code that is not used up credits a top-up.
LEMMA OrderNoCredit ==
    ASSUME Base, LocalsInv, CodeInv, Next
    PROVE  NoCredit
<1>1. ASSUME NEW w \in Workers, CheckPendingLimit(w) PROVE NoCredit
  BY <1>1, NoCreation DEF CheckPendingLimit
<1>2. ASSUME NEW w \in Workers, NEW o \in Orders, HandlePaymentNotification(w, o) PROVE NoCredit
  BY <1>2, OrderTypesAssumption DEF Base, LocalsInv, CodeInv, NoCredit, Open, Statuses,
    RefundStatuses, Labels, RefundLabels, Orders, HandlePaymentNotification, Begin,
    rowVars, ledgerVars
<1>3. ASSUME NEW w \in Workers, NEW o \in Orders, RetryFulfillment(w, o) PROVE NoCredit
  BY <1>3, OrderTypesAssumption DEF Base, LocalsInv, CodeInv, NoCredit, Open, Statuses,
    RefundStatuses, Labels, RefundLabels, Orders, RetryFulfillment, Begin, SetStatus,
    rowVars, ledgerVars
<1>4. ASSUME NEW w \in Workers, NEW o \in Orders, AdminManualFulfillOrder(w, o) PROVE NoCredit
  BY <1>4, OrderTypesAssumption DEF Base, LocalsInv, CodeInv, NoCredit, Open, Statuses,
    RefundStatuses, Labels, RefundLabels, Orders, AdminManualFulfillOrder, Begin,
    IsRechargingOrderStale, rowVars, ledgerVars
<1>5. ASSUME NEW w \in Workers, NEW o \in Orders, CancelOrder(w, o) PROVE NoCredit
  BY <1>5, OrderTypesAssumption DEF Base, LocalsInv, CodeInv, NoCredit, Open, Statuses,
    RefundStatuses, Labels, RefundLabels, Orders, CancelOrder, Begin, rowVars, ledgerVars
<1>6. ASSUME NEW w \in Workers, NEW o \in Orders, ExpireTimedOutOrder(w, o) PROVE NoCredit
  BY <1>6, OrderTypesAssumption DEF Base, LocalsInv, CodeInv, NoCredit, Open, Statuses,
    RefundStatuses, Labels, RefundLabels, Orders, ExpireTimedOutOrder, Begin, rowVars,
    ledgerVars
<1>7. ASSUME NEW w \in Workers, NEW o \in Orders, VerifyOrderByOutTradeNo(w, o) PROVE NoCredit
  BY <1>7, OrderTypesAssumption DEF Base, LocalsInv, CodeInv, NoCredit, Open, Statuses,
    RefundStatuses, Labels, RefundLabels, Orders, VerifyOrderByOutTradeNo, Begin, rowVars,
    ledgerVars
<1>8. ASSUME NEW w \in Workers, InsertOrder(w) PROVE NoCredit
  BY <1>8, OrderTypesAssumption DEF Base, LocalsInv, CodeInv, NoCredit, Open, Statuses,
    RefundStatuses, Labels, RefundLabels, Orders, InsertOrder, Keep, Continue, rowVars,
    ledgerVars
<1>9. ASSUME NEW w \in Workers, CreatePayment(w) PROVE NoCredit
  BY <1>9, OrderTypesAssumption DEF Base, LocalsInv, CodeInv, NoCredit, Open, Statuses,
    RefundStatuses, Labels, RefundLabels, Orders, CreatePayment, Keep, Continue, rowVars,
    ledgerVars
<1>10. ASSUME NEW w \in Workers, SavePaymentDetails(w) PROVE NoCredit
  BY <1>10, OrderTypesAssumption DEF Base, LocalsInv, CodeInv, NoCredit, Open, Statuses,
    RefundStatuses, Labels, RefundLabels, Orders, SavePaymentDetails, Keep, Continue,
    rowVars, ledgerVars
<1>11. ASSUME NEW w \in Workers, FailCreate(w) PROVE NoCredit
  BY <1>11, OrderTypesAssumption DEF Base, LocalsInv, CodeInv, NoCredit, Open, Statuses,
    RefundStatuses, Labels, RefundLabels, Orders, FailCreate, Keep, Continue, rowVars,
    ledgerVars
<1>12. ASSUME NEW w \in Workers, ToPaid(w) PROVE NoCredit
  BY <1>12, OrderTypesAssumption DEF Base, LocalsInv, CodeInv, NoCredit, Open, Statuses,
    RefundStatuses, Labels, RefundLabels, Orders, ToPaid, Keep, Continue, SetStatus,
    Payable, rowVars, ledgerVars
<1>13. ASSUME NEW w \in Workers, AlreadyProcessed(w) PROVE NoCredit
  BY <1>13, OrderTypesAssumption DEF Base, LocalsInv, CodeInv, NoCredit, Open, Statuses,
    RefundStatuses, Labels, RefundLabels, Orders, AlreadyProcessed, Keep, Continue,
    rowVars, ledgerVars
<1>14. ASSUME NEW w \in Workers, Claim(w) PROVE NoCredit
  BY <1>14, OrderTypesAssumption DEF Base, LocalsInv, CodeInv, NoCredit, Open, Statuses,
    RefundStatuses, Labels, RefundLabels, Orders, Claim, Keep, Continue, SetStatus,
    rowVars, ledgerVars
<1>15. ASSUME NEW w \in Workers, ResolveRedeemAction(w) PROVE NoCredit
  BY <1>15, OrderTypesAssumption DEF Base, LocalsInv, CodeInv, NoCredit, Open, Statuses,
    RefundStatuses, Labels, RefundLabels, Orders, ResolveRedeemAction, Keep, Continue,
    rowVars, ledgerVars
<1>16. ASSUME NEW w \in Workers, CreateCode(w) PROVE NoCredit
  BY <1>16, OrderTypesAssumption DEF Base, LocalsInv, CodeInv, NoCredit, Open, Statuses,
    RefundStatuses, Labels, RefundLabels, Orders, CreateCode, Keep, Continue, rowVars,
    ledgerVars
<1>17. ASSUME NEW w \in Workers, Redeem(w) PROVE NoCredit
  BY <1>17, OrderTypesAssumption DEF Base, LocalsInv, CodeInv, NoCredit, Open, Statuses,
    RefundStatuses, Labels, RefundLabels, Orders, Redeem, Keep, Continue, rowVars,
    ledgerVars
<1>18. ASSUME NEW w \in Workers, CheckSubscription(w) PROVE NoCredit
  BY <1>18, OrderTypesAssumption DEF Base, LocalsInv, CodeInv, NoCredit, Open, Statuses,
    RefundStatuses, Labels, RefundLabels, Orders, CheckSubscription, Keep, Continue,
    rowVars, ledgerVars
<1>19. ASSUME NEW w \in Workers, AssignSubscription(w) PROVE NoCredit
  BY <1>19, OrderTypesAssumption DEF Base, LocalsInv, CodeInv, NoCredit, Open, Statuses,
    RefundStatuses, Labels, RefundLabels, Orders, AssignSubscription, Keep, Continue,
    rowVars, ledgerVars
<1>20. ASSUME NEW w \in Workers, MarkCompleted(w) PROVE NoCredit
  BY <1>20, OrderTypesAssumption DEF Base, LocalsInv, CodeInv, NoCredit, Open, Statuses,
    RefundStatuses, Labels, RefundLabels, Orders, MarkCompleted, Keep, Continue,
    SetStatus, rowVars, ledgerVars
<1>21. ASSUME NEW w \in Workers, WriteSuccessAudit(w) PROVE NoCredit
  BY <1>21, OrderTypesAssumption DEF Base, LocalsInv, CodeInv, NoCredit, Open, Statuses,
    RefundStatuses, Labels, RefundLabels, Orders, WriteSuccessAudit, Keep, Continue,
    rowVars, ledgerVars
<1>22. ASSUME NEW w \in Workers, MarkFailed(w) PROVE NoCredit
  BY <1>22, OrderTypesAssumption DEF Base, LocalsInv, CodeInv, NoCredit, Open, Statuses,
    RefundStatuses, Labels, RefundLabels, Orders, MarkFailed, Keep, Continue, SetStatus,
    rowVars, ledgerVars
<1>23. ASSUME NEW w \in Workers, MarkPaidManually(w) PROVE NoCredit
  BY <1>23, OrderTypesAssumption DEF Base, LocalsInv, CodeInv, NoCredit, Open, Statuses,
    RefundStatuses, Labels, RefundLabels, Orders, MarkPaidManually, Keep, Continue,
    SetStatus, rowVars, ledgerVars
<1>24. ASSUME NEW w \in Workers, CheckPaid(w) PROVE NoCredit
  BY <1>24, OrderTypesAssumption DEF Base, LocalsInv, CodeInv, NoCredit, Open, Statuses,
    RefundStatuses, Labels, RefundLabels, Orders, CheckPaid, Keep, Continue, rowVars,
    ledgerVars
<1>25. ASSUME NEW w \in Workers, CancelCore(w) PROVE NoCredit
  BY <1>25, OrderTypesAssumption DEF Base, LocalsInv, CodeInv, NoCredit, Open, Statuses,
    RefundStatuses, Labels, RefundLabels, Orders, CancelCore, Keep, Continue, SetStatus,
    rowVars, ledgerVars
<1>26. ASSUME NEW w \in Workers, Crash(w) PROVE NoCredit
  BY <1>26, OrderTypesAssumption DEF Base, LocalsInv, CodeInv, NoCredit, Open, Statuses,
    RefundStatuses, Labels, RefundLabels, Orders, Crash, Keep, Continue, rowVars,
    ledgerVars
<1>30. ASSUME NEW w \in Workers, RejectPayment(w) PROVE NoCredit
  BY <1>30, OrderTypesAssumption DEF Base, LocalsInv, CodeInv, NoCredit, Open, Statuses,
    RefundStatuses, Labels, RefundLabels, Orders, RejectPayment, Keep, Continue, rowVars,
    ledgerVars
<1>31. ASSUME NEW w \in Workers, StatementFails(w) PROVE NoCredit
  BY <1>31, OrderTypesAssumption DEF Base, LocalsInv, CodeInv, NoCredit, Open, Statuses,
    RefundStatuses, Labels, RefundLabels, Orders, StatementFails, Keep, Continue, rowVars,
    ledgerVars
<1>27. ASSUME NEW o \in Orders, UserPays(o) PROVE NoCredit
  BY <1>27, OrderTypesAssumption DEF Base, LocalsInv, CodeInv, NoCredit, Open, Statuses,
    RefundStatuses, Labels, RefundLabels, Orders, UserPays, rowVars, ledgerVars, procVars
<1>28. ASSUME NEW o \in Orders, FailStaleRecharging(o) PROVE NoCredit
  BY <1>28, OrderTypesAssumption DEF Base, LocalsInv, CodeInv, NoCredit, Open, Statuses,
    RefundStatuses, Labels, RefundLabels, Orders, FailStaleRecharging, SetStatus,
    IsRechargingOrderStale, rowVars, ledgerVars, procVars
<1>29. CASE Tick
  BY <1>29, OrderTypesAssumption DEF Base, LocalsInv, CodeInv, NoCredit, Open, Statuses,
    RefundStatuses, Labels, RefundLabels, Orders, Tick, rowVars, ledgerVars, procVars
<1> QED
  BY <1>1, <1>2, <1>3, <1>4, <1>5, <1>6, <1>7, <1>8, <1>9, <1>10, <1>11, <1>12, <1>13,
    <1>14, <1>15, <1>16, <1>17, <1>18, <1>19, <1>20, <1>21, <1>22, <1>23, <1>24, <1>25,
    <1>26, <1>27, <1>28, <1>29, <1>30, <1>31 DEF Next, Start, Step

\* A grant changes the balance or the subscription by a whole amount, or nothing.
LEMMA OrderKeepsBooks ==
    ASSUME BooksType, OrderMove, OrderStep
    PROVE  BooksType'
<1>1. ASSUME NEW T \in SUBSET Orders
      PROVE  Cardinality({o \in T : granted'[o] # granted[o]}) \in Nat
  <2> DEFINE S == {o \in T : granted'[o] # granted[o]}
  <2>1. \A o, p \in S : o = p
    BY DEF OrderMove
  <2>2. S = {} \/ \E o \in S : S = {o}
    BY <2>1
  <2> HIDE DEF S
  <2>4. ASSUME NEW o, S = {o}
        PROVE  Cardinality(S) \in Nat
    <3>1. Cardinality({o}) = 1
      BY FS_Singleton
    <3> QED
      BY <2>4, <3>1
  <2>5. ASSUME S = {}
        PROVE  Cardinality(S) \in Nat
    <3>1. Cardinality({}) = 0
      BY FS_EmptySet
    <3> QED
      BY <2>5, <3>1
  <2>7. Cardinality(S) \in Nat
    BY <2>2, <2>4, <2>5
  <2> QED
    BY <2>7 DEF S
<1>2. /\ Cardinality({o \in BalanceOrders : granted'[o] # granted[o]}) \in Nat
      /\ Cardinality({o \in SubscriptionOrders : granted'[o] # granted[o]}) \in Nat
  BY <1>1 DEF Orders
<1>3. \A n \in Nat : Amount * n \in Nat
  BY RefundAssumption
<1>4. balance' \in Int /\ days' \in Nat
  BY <1>2, <1>3 DEF BooksType, OrderStep
<1>5. NoPlan \in Plans
  BY RefundAssumption DEF NoPlan, Plans
<1>6. plan' \in [Workers -> Plans]
  BY <1>5 DEF BooksType, OrderStep
<1>7. tradeNo' \in [Orders -> BOOLEAN]
  BY DEF BooksType, OrderStep, SetTradeNo
<1> QED
  BY <1>4, <1>6, <1>7 DEF BooksType, OrderStep

\* A step of PaymentOrder leaves every refund as it is, or without its handler.
LEMMA OrderKeepsRefunds ==
    ASSUME Base, BooksType, RefundIsExclusive, PlanInv, TakenInv, ReturnInv, RefundedIsReturned,
           OrderMove, OrderStep
    PROVE  /\ RefundIsExclusive' /\ PlanInv' /\ TakenInv' /\ ReturnInv' /\ RefundedIsReturned'
<1>1. /\ UNCHANGED <<taken, returned, skipped, rollbackAudit, rollbackFailed>>
      /\ \A v \in Workers : pc'[v] \in RefundLabels
             => pc'[v] = pc[v] /\ job'[v] = job[v] /\ plan'[v] = plan[v]
  BY DEF OrderStep, OrderMove, RefundLabels
<1>2. /\ \A o \in Orders : status[o] \in RefundStatuses => status'[o] = status[o]
      /\ \A o \in Orders : status'[o] \in RefundStatuses => status'[o] = status[o]
  BY DEF OrderMove, Open, Statuses, RefundStatuses
<1>3. \A w \in Workers : job[w] \in Orders
  BY DEF Base
<1>4. RefundIsExclusive'
  BY <1>1, <1>2, <1>3 DEF RefundIsExclusive, InRefund, RefundLabels, RefundStatuses
<1>5. PlanInv'
  BY <1>1 DEF PlanInv, InRefund, RefundLabels
<1>6. TakenInv'
  <2>1. ASSUME NEW w \in Workers, pc'[w] \in InRefund
        PROVE  /\ taken'[job'[w]] >= Deducted(w)'
               /\ \/ pc'[w] = "refundFailed" \/ taken'[job'[w]] = Deducted(w)'
                  \/ rollbackFailed'[job'[w]]
               /\ pc'[w] = "refundFailed" => rollbackFailed'[job'[w]]
    <3>1. pc'[w] = pc[w] /\ job'[w] = job[w] /\ plan'[w] = plan[w]
      BY <1>1, <2>1 DEF InRefund, RefundLabels
    <3>2. Deducted(w)' = Deducted(w)
      BY <3>1 DEF Deducted
    <3> QED
      BY <1>1, <2>1, <3>1, <3>2 DEF TakenInv
  <2>2. ASSUME NEW o \in Orders, taken'[o] > 0
        PROVE  status'[o] \in Settled \/ rollbackFailed'[o]
    BY <1>1, <1>2, <2>2 DEF TakenInv, Settled, RefundStatuses
  <2>3. \A o \in Orders : rollbackAudit'[o] => rollbackFailed'[o]
    BY <1>1 DEF TakenInv
  <2> QED
    BY <2>1, <2>2, <2>3 DEF TakenInv
<1>7. ReturnInv'
  BY <1>1 DEF ReturnInv, RefundLabels
<1>8. RefundedIsReturned'
  BY <1>1, <1>2 DEF RefundedIsReturned, RefundStatuses
<1> QED
  BY <1>4, <1>5, <1>6, <1>7, <1>8

-----------------------------------------------------------------------------
(* The steps of a refund *)

\* A refund starts from a completed order and stays among the refund statuses.
LEMMA RefundKeepsBase ==
    ASSUME Base, NEW w \in Workers, RefundStep(w)
    PROVE  Base'
<1>1. ASSUME NEW o \in Orders, RequestRefund(w, o) PROVE Base'
  BY <1>1 DEF Base, Statuses, RefundStatuses, Labels, RefundLabels, Refundable, InRefund,
    RequestRefund, Begin, rowVars, ledgerVars, refundVars
<1>2. ASSUME NEW o \in Orders, PrepareRefund(w, o) PROVE Base'
  BY <1>2 DEF Base, Statuses, RefundStatuses, Labels, RefundLabels, Refundable, InRefund,
    PrepareRefund, Begin, rowVars, ledgerVars, refundVars
<1>3. ASSUME MarkRefundRequested(w) PROVE Base'
  BY <1>3 DEF Base, Statuses, RefundStatuses, Labels, RefundLabels, Refundable, InRefund,
    MarkRefundRequested, Keep, Continue, SetStatus, rowVars, ledgerVars, refundVars
<1>4. ASSUME LockRefund(w) PROVE Base'
  BY <1>4 DEF Base, Statuses, RefundStatuses, Labels, RefundLabels, Refundable, InRefund,
    LockRefund, Keep, Continue, SetStatus, Drop, rowVars, ledgerVars, refundVars
<1>5. ASSUME Deduct(w) PROVE Base'
  BY <1>5 DEF Base, Statuses, RefundStatuses, Labels, RefundLabels, Refundable, InRefund,
    Deduct, Keep, Continue, TakeBack, rowVars, ledgerVars, refundVars
<1>6. ASSUME GwRefund(w) PROVE Base'
  BY <1>6 DEF Base, Statuses, RefundStatuses, Labels, RefundLabels, Refundable, InRefund,
    GwRefund, Keep, Continue, rowVars, ledgerVars, refundVars
<1>7. ASSUME MarkRefundOk(w) PROVE Base'
  BY <1>7 DEF Base, Statuses, RefundStatuses, Labels, RefundLabels, Refundable, InRefund,
    MarkRefundOk, Keep, Continue, SetStatus, Drop, rowVars, ledgerVars, refundVars
<1>8. ASSUME RollbackRefund(w) PROVE Base'
  BY <1>8 DEF Base, Statuses, RefundStatuses, Labels, RefundLabels, Refundable, InRefund,
    RollbackRefund, Keep, Continue, rowVars, ledgerVars, refundVars
<1>9. ASSUME RestoreStatus(w) PROVE Base'
  BY <1>9 DEF Base, Statuses, RefundStatuses, Labels, RefundLabels, Refundable, InRefund,
    RestoreStatus, Keep, Continue, SetStatus, Drop, rowVars, ledgerVars, refundVars
<1>10. ASSUME MarkRefundFailed(w) PROVE Base'
  BY <1>10 DEF Base, Statuses, RefundStatuses, Labels, RefundLabels, Refundable, InRefund,
    MarkRefundFailed, Keep, Continue, SetStatus, Drop, rowVars, ledgerVars, refundVars
<1> QED
  BY <1>1, <1>2, <1>3, <1>4, <1>5, <1>6, <1>7, <1>8, <1>9, <1>10 DEF RefundStep

\* A refund leaves the locals of the other handlers alone.
LEMMA RefundKeepsLocals ==
    ASSUME Base, LocalsInv, NEW w \in Workers, RefundStep(w)
    PROVE  LocalsInv'
<1>1. ASSUME NEW o \in Orders, RequestRefund(w, o) PROVE LocalsInv'
  BY <1>1 DEF Base, LocalsInv, Open, Statuses, RefundStatuses, Labels, RefundLabels,
    Refundable, InRefund, RequestRefund, Begin, rowVars, ledgerVars, refundVars
<1>2. ASSUME NEW o \in Orders, PrepareRefund(w, o) PROVE LocalsInv'
  BY <1>2 DEF Base, LocalsInv, Open, Statuses, RefundStatuses, Labels, RefundLabels,
    Refundable, InRefund, PrepareRefund, Begin, rowVars, ledgerVars, refundVars
<1>3. ASSUME MarkRefundRequested(w) PROVE LocalsInv'
  BY <1>3 DEF Base, LocalsInv, Open, Statuses, RefundStatuses, Labels, RefundLabels,
    Refundable, InRefund, MarkRefundRequested, Keep, Continue, SetStatus, rowVars,
    ledgerVars, refundVars
<1>4. ASSUME LockRefund(w) PROVE LocalsInv'
  BY <1>4 DEF Base, LocalsInv, Open, Statuses, RefundStatuses, Labels, RefundLabels,
    Refundable, InRefund, LockRefund, Keep, Continue, SetStatus, Drop, rowVars,
    ledgerVars, refundVars
<1>5. ASSUME Deduct(w) PROVE LocalsInv'
  BY <1>5 DEF Base, LocalsInv, Open, Statuses, RefundStatuses, Labels, RefundLabels,
    Refundable, InRefund, Deduct, Keep, Continue, TakeBack, rowVars, ledgerVars,
    refundVars
<1>6. ASSUME GwRefund(w) PROVE LocalsInv'
  BY <1>6 DEF Base, LocalsInv, Open, Statuses, RefundStatuses, Labels, RefundLabels,
    Refundable, InRefund, GwRefund, Keep, Continue, rowVars, ledgerVars, refundVars
<1>7. ASSUME MarkRefundOk(w) PROVE LocalsInv'
  BY <1>7 DEF Base, LocalsInv, Open, Statuses, RefundStatuses, Labels, RefundLabels,
    Refundable, InRefund, MarkRefundOk, Keep, Continue, SetStatus, Drop, rowVars,
    ledgerVars, refundVars
<1>8. ASSUME RollbackRefund(w) PROVE LocalsInv'
  BY <1>8 DEF Base, LocalsInv, Open, Statuses, RefundStatuses, Labels, RefundLabels,
    Refundable, InRefund, RollbackRefund, Keep, Continue, rowVars, ledgerVars, refundVars
<1>9. ASSUME RestoreStatus(w) PROVE LocalsInv'
  BY <1>9 DEF Base, LocalsInv, Open, Statuses, RefundStatuses, Labels, RefundLabels,
    Refundable, InRefund, RestoreStatus, Keep, Continue, SetStatus, Drop, rowVars,
    ledgerVars, refundVars
<1>10. ASSUME MarkRefundFailed(w) PROVE LocalsInv'
  BY <1>10 DEF Base, LocalsInv, Open, Statuses, RefundStatuses, Labels, RefundLabels,
    Refundable, InRefund, MarkRefundFailed, Keep, Continue, SetStatus, Drop, rowVars,
    ledgerVars, refundVars
<1> QED
  BY <1>1, <1>2, <1>3, <1>4, <1>5, <1>6, <1>7, <1>8, <1>9, <1>10 DEF RefundStep

\* A refund uses no redeem code and completes no order that has not used up its code.
LEMMA RefundKeepsCode ==
    ASSUME Base, CodeInv, RefundIsExclusive, NEW w \in Workers, RefundStep(w)
    PROVE  CodeInv' /\ granted' = granted
<1>1. ASSUME NEW o \in Orders, RequestRefund(w, o) PROVE CodeInv' /\ granted' = granted
  BY <1>1 DEF Base, CodeInv, RefundIsExclusive, Open, Orders, Statuses, RefundStatuses,
    Labels, RefundLabels, Refundable, InRefund, RequestRefund, Begin, rowVars, ledgerVars,
    refundVars
<1>2. ASSUME NEW o \in Orders, PrepareRefund(w, o) PROVE CodeInv' /\ granted' = granted
  BY <1>2 DEF Base, CodeInv, RefundIsExclusive, Open, Orders, Statuses, RefundStatuses,
    Labels, RefundLabels, Refundable, InRefund, PrepareRefund, Begin, rowVars, ledgerVars,
    refundVars
<1>3. ASSUME MarkRefundRequested(w) PROVE CodeInv' /\ granted' = granted
  BY <1>3 DEF Base, CodeInv, RefundIsExclusive, Open, Orders, Statuses, RefundStatuses,
    Labels, RefundLabels, Refundable, InRefund, MarkRefundRequested, Keep, Continue,
    SetStatus, rowVars, ledgerVars, refundVars
<1>4. ASSUME LockRefund(w) PROVE CodeInv' /\ granted' = granted
  BY <1>4 DEF Base, CodeInv, RefundIsExclusive, Open, Orders, Statuses, RefundStatuses,
    Labels, RefundLabels, Refundable, InRefund, LockRefund, Keep, Continue, SetStatus,
    Drop, rowVars, ledgerVars, refundVars
<1>5. ASSUME Deduct(w) PROVE CodeInv' /\ granted' = granted
  BY <1>5 DEF Base, CodeInv, RefundIsExclusive, Open, Orders, Statuses, RefundStatuses,
    Labels, RefundLabels, Refundable, InRefund, Deduct, Keep, Continue, TakeBack, rowVars,
    ledgerVars, refundVars
<1>6. ASSUME GwRefund(w) PROVE CodeInv' /\ granted' = granted
  BY <1>6 DEF Base, CodeInv, RefundIsExclusive, Open, Orders, Statuses, RefundStatuses,
    Labels, RefundLabels, Refundable, InRefund, GwRefund, Keep, Continue, rowVars,
    ledgerVars, refundVars
<1>7. ASSUME MarkRefundOk(w) PROVE CodeInv' /\ granted' = granted
  BY <1>7 DEF Base, CodeInv, RefundIsExclusive, Open, Orders, Statuses, RefundStatuses,
    Labels, RefundLabels, Refundable, InRefund, MarkRefundOk, Keep, Continue, SetStatus,
    Drop, rowVars, ledgerVars, refundVars
<1>8. ASSUME RollbackRefund(w) PROVE CodeInv' /\ granted' = granted
  BY <1>8 DEF Base, CodeInv, RefundIsExclusive, Open, Orders, Statuses, RefundStatuses,
    Labels, RefundLabels, Refundable, InRefund, RollbackRefund, Keep, Continue, rowVars,
    ledgerVars, refundVars
<1>9. ASSUME RestoreStatus(w) PROVE CodeInv' /\ granted' = granted
  BY <1>9 DEF Base, CodeInv, RefundIsExclusive, Open, Orders, Statuses, RefundStatuses,
    Labels, RefundLabels, Refundable, InRefund, RestoreStatus, Keep, Continue, SetStatus,
    Drop, rowVars, ledgerVars, refundVars
<1>10. ASSUME MarkRefundFailed(w) PROVE CodeInv' /\ granted' = granted
  BY <1>10 DEF Base, CodeInv, RefundIsExclusive, Open, Orders, Statuses, RefundStatuses,
    Labels, RefundLabels, Refundable, InRefund, MarkRefundFailed, Keep, Continue,
    SetStatus, Drop, rowVars, ledgerVars, refundVars
<1> QED
  BY <1>1, <1>2, <1>3, <1>4, <1>5, <1>6, <1>7, <1>8, <1>9, <1>10 DEF RefundStep

\* One handler at a time refunds an order, and nobody else moves it.
LEMMA RefundKeepsExclusive ==
    ASSUME Base, RefundIsExclusive, NEW w \in Workers, RefundStep(w)
    PROVE  RefundIsExclusive'
<1>1. ASSUME NEW o \in Orders, RequestRefund(w, o) PROVE RefundIsExclusive'
  BY <1>1 DEF Base, RefundIsExclusive, Statuses, RefundStatuses, Labels, RefundLabels,
    Refundable, InRefund, RequestRefund, Begin, rowVars, ledgerVars, refundVars
<1>2. ASSUME NEW o \in Orders, PrepareRefund(w, o) PROVE RefundIsExclusive'
  BY <1>2 DEF Base, RefundIsExclusive, Statuses, RefundStatuses, Labels, RefundLabels,
    Refundable, InRefund, PrepareRefund, Begin, rowVars, ledgerVars, refundVars
<1>3. ASSUME MarkRefundRequested(w) PROVE RefundIsExclusive'
  BY <1>3 DEF Base, RefundIsExclusive, Statuses, RefundStatuses, Labels, RefundLabels,
    Refundable, InRefund, MarkRefundRequested, Keep, Continue, SetStatus, rowVars,
    ledgerVars, refundVars
<1>4. ASSUME LockRefund(w) PROVE RefundIsExclusive'
  BY <1>4 DEF Base, RefundIsExclusive, Statuses, RefundStatuses, Labels, RefundLabels,
    Refundable, InRefund, LockRefund, Keep, Continue, SetStatus, Drop, rowVars,
    ledgerVars, refundVars
<1>5. ASSUME Deduct(w) PROVE RefundIsExclusive'
  BY <1>5 DEF Base, RefundIsExclusive, Statuses, RefundStatuses, Labels, RefundLabels,
    Refundable, InRefund, Deduct, Keep, Continue, TakeBack, rowVars, ledgerVars,
    refundVars
<1>6. ASSUME GwRefund(w) PROVE RefundIsExclusive'
  BY <1>6 DEF Base, RefundIsExclusive, Statuses, RefundStatuses, Labels, RefundLabels,
    Refundable, InRefund, GwRefund, Keep, Continue, rowVars, ledgerVars, refundVars
<1>7. ASSUME MarkRefundOk(w) PROVE RefundIsExclusive'
  BY <1>7 DEF Base, RefundIsExclusive, Statuses, RefundStatuses, Labels, RefundLabels,
    Refundable, InRefund, MarkRefundOk, Keep, Continue, SetStatus, Drop, rowVars,
    ledgerVars, refundVars
<1>8. ASSUME RollbackRefund(w) PROVE RefundIsExclusive'
  BY <1>8 DEF Base, RefundIsExclusive, Statuses, RefundStatuses, Labels, RefundLabels,
    Refundable, InRefund, RollbackRefund, Keep, Continue, rowVars, ledgerVars, refundVars
<1>9. ASSUME RestoreStatus(w) PROVE RefundIsExclusive'
  BY <1>9 DEF Base, RefundIsExclusive, Statuses, RefundStatuses, Labels, RefundLabels,
    Refundable, InRefund, RestoreStatus, Keep, Continue, SetStatus, Drop, rowVars,
    ledgerVars, refundVars
<1>10. ASSUME MarkRefundFailed(w) PROVE RefundIsExclusive'
  BY <1>10 DEF Base, RefundIsExclusive, Statuses, RefundStatuses, Labels, RefundLabels,
    Refundable, InRefund, MarkRefundFailed, Keep, Continue, SetStatus, Drop, rowVars,
    ledgerVars, refundVars
<1> QED
  BY <1>1, <1>2, <1>3, <1>4, <1>5, <1>6, <1>7, <1>8, <1>9, <1>10 DEF RefundStep

\* A refund under way is for a positive amount.
LEMMA RefundKeepsPlan ==
    ASSUME Base, BooksType, PlanInv, NEW w \in Workers, RefundStep(w)
    PROVE  PlanInv'
<1>1. ASSUME NEW o \in Orders, RequestRefund(w, o) PROVE PlanInv'
  BY <1>1 DEF Base, BooksType, PlanInv, Plans, Statuses, RefundStatuses, Labels,
    RefundLabels, Refundable, InRefund, RequestRefund, Begin, rowVars, ledgerVars,
    refundVars
<1>2. ASSUME NEW o \in Orders, PrepareRefund(w, o) PROVE PlanInv'
  BY <1>2 DEF Base, BooksType, PlanInv, Plans, Statuses, RefundStatuses, Labels,
    RefundLabels, Refundable, InRefund, PrepareRefund, Begin, rowVars, ledgerVars,
    refundVars
<1>3. ASSUME MarkRefundRequested(w) PROVE PlanInv'
  BY <1>3 DEF Base, BooksType, PlanInv, Plans, Statuses, RefundStatuses, Labels,
    RefundLabels, Refundable, InRefund, MarkRefundRequested, Keep, Continue, SetStatus,
    rowVars, ledgerVars, refundVars
<1>4. ASSUME LockRefund(w) PROVE PlanInv'
  BY <1>4 DEF Base, BooksType, PlanInv, Plans, Statuses, RefundStatuses, Labels,
    RefundLabels, Refundable, InRefund, LockRefund, Keep, Continue, SetStatus, Drop,
    rowVars, ledgerVars, refundVars
<1>5. ASSUME Deduct(w) PROVE PlanInv'
  BY <1>5 DEF Base, BooksType, PlanInv, Plans, Statuses, RefundStatuses, Labels,
    RefundLabels, Refundable, InRefund, Deduct, Keep, Continue, TakeBack, rowVars,
    ledgerVars, refundVars
<1>6. ASSUME GwRefund(w) PROVE PlanInv'
  BY <1>6 DEF Base, BooksType, PlanInv, Plans, Statuses, RefundStatuses, Labels,
    RefundLabels, Refundable, InRefund, GwRefund, Keep, Continue, rowVars, ledgerVars,
    refundVars
<1>7. ASSUME MarkRefundOk(w) PROVE PlanInv'
  BY <1>7 DEF Base, BooksType, PlanInv, Plans, Statuses, RefundStatuses, Labels,
    RefundLabels, Refundable, InRefund, MarkRefundOk, Keep, Continue, SetStatus, Drop,
    rowVars, ledgerVars, refundVars
<1>8. ASSUME RollbackRefund(w) PROVE PlanInv'
  BY <1>8 DEF Base, BooksType, PlanInv, Plans, Statuses, RefundStatuses, Labels,
    RefundLabels, Refundable, InRefund, RollbackRefund, Keep, Continue, rowVars,
    ledgerVars, refundVars
<1>9. ASSUME RestoreStatus(w) PROVE PlanInv'
  BY <1>9 DEF Base, BooksType, PlanInv, Plans, Statuses, RefundStatuses, Labels,
    RefundLabels, Refundable, InRefund, RestoreStatus, Keep, Continue, SetStatus, Drop,
    rowVars, ledgerVars, refundVars
<1>10. ASSUME MarkRefundFailed(w) PROVE PlanInv'
  BY <1>10 DEF Base, BooksType, PlanInv, Plans, Statuses, RefundStatuses, Labels,
    RefundLabels, Refundable, InRefund, MarkRefundFailed, Keep, Continue, SetStatus, Drop,
    rowVars, ledgerVars, refundVars
<1> QED
  BY <1>1, <1>2, <1>3, <1>4, <1>5, <1>6, <1>7, <1>8, <1>9, <1>10 DEF RefundStep

\* The books of a refund stay in their types.
LEMMA RefundKeepsBooks ==
    ASSUME Base, BooksType, TakenInv, NEW w \in Workers, RefundStep(w)
    PROVE  BooksType'
<1>1. ASSUME NEW o \in Orders, RequestRefund(w, o) PROVE BooksType'
  BY <1>1 DEF BooksType, RequestRefund, Begin, rowVars, ledgerVars, refundVars
<1>2. ASSUME NEW o \in Orders, PrepareRefund(w, o) PROVE BooksType'
  <2>1. PICK amount \in 1..Amount, deduct \in BOOLEAN :
          plan' = [plan EXCEPT ![w] =
              [from |-> status[o], amount |-> amount, tradeNo |-> tradeNo[o],
               take |-> CASE ~deduct -> 0
                          [] deduct /\ o \in BalanceOrders -> Smaller(amount, balance)
                          [] OTHER -> IF days > 0 THEN Amount ELSE 0]]
    BY <1>2 DEF PrepareRefund
  <2>2. PICK take \in Int : plan' = [plan EXCEPT ![w] =
              [from |-> status[o], amount |-> amount, tradeNo |-> tradeNo[o],
               take |-> take]]
    <3>1. Smaller(amount, balance) \in Int
      BY RefundAssumption DEF Smaller, BooksType
    <3>2. (CASE ~deduct -> 0
             [] deduct /\ o \in BalanceOrders -> Smaller(amount, balance)
             [] OTHER -> IF days > 0 THEN Amount ELSE 0) \in Int
      BY <3>1, RefundAssumption
    <3> QED
      BY <2>1, <3>2
  <2>3. status[o] \in Statuses /\ amount \in 0..Amount /\ tradeNo[o] \in BOOLEAN
    BY RefundAssumption DEF Base, BooksType
  <2>4. plan' \in [Workers -> Plans]
    BY <2>2, <2>3 DEF BooksType, Plans
  <2> QED
    BY <1>2, <2>4 DEF BooksType, PrepareRefund
<1>3. ASSUME MarkRefundRequested(w) PROVE BooksType'
  BY <1>3 DEF BooksType, MarkRefundRequested, Keep, Continue, SetStatus, rowVars,
    ledgerVars, refundVars
<1>4. ASSUME LockRefund(w) PROVE BooksType'
  <2>1. NoPlan \in Plans
    BY RefundAssumption DEF NoPlan, Plans
  <2> QED
    BY <1>4, <2>1 DEF BooksType, LockRefund, Drop
<1>5. ASSUME Deduct(w) PROVE BooksType'
  <2>1. plan[w] \in Plans /\ plan[w].take \in Int /\ job[w] \in Orders
    BY DEF BooksType, Plans, Base
  <2>2. plan' \in [Workers -> Plans]
    <3>1. CASE UNCHANGED plan
      BY <3>1 DEF BooksType
    <3>2. CASE plan' = [plan EXCEPT ![w].take = 0]
      <4>1. [plan[w] EXCEPT !.take = 0] \in Plans
        BY <2>1 DEF Plans
      <4>2. plan' = [plan EXCEPT ![w] = [plan[w] EXCEPT !.take = 0]]
        BY <3>2
      <4> QED
        BY <4>1, <4>2 DEF BooksType
    <3> QED
      BY <1>5, <3>1, <3>2 DEF Deduct
  <2>3. balance' \in Int /\ days' \in Nat /\ taken' \in [Orders -> Nat]
    <3>1. CASE UNCHANGED <<balance, days, taken>>
      BY <3>1 DEF BooksType
    <3>2. CASE plan[w].take > 0 /\ TakeBack(job[w], plan[w].take)
      <4>1. taken[job[w]] + plan[w].take \in Nat
        BY <2>1, <3>2 DEF BooksType
      <4>2. taken' \in [Orders -> Nat]
        BY <3>2, <4>1 DEF TakeBack, BooksType
      <4>3. balance' \in Int /\ days' \in Nat
        BY <2>1, <3>2 DEF TakeBack, BooksType
      <4> QED
        BY <4>2, <4>3
    <3> QED
      BY <1>5, <3>1, <3>2 DEF Deduct
  <2> QED
    BY <1>5, <2>2, <2>3 DEF BooksType, Deduct
<1>6. ASSUME GwRefund(w) PROVE BooksType'
  <2>1. plan[w].amount \in Nat /\ job[w] \in Orders
    BY DEF BooksType, Plans, Base
  <2>2. returned' \in [Orders -> 0..Amount]
    <3>1. CASE UNCHANGED returned
      BY <3>1 DEF BooksType
    <3>2. CASE /\ returned[job[w]] + plan[w].amount <= Amount
               /\ returned' = [returned EXCEPT ![job[w]] = @ + plan[w].amount]
      <4>1. returned[job[w]] + plan[w].amount \in 0..Amount
        BY <2>1, <3>2, RefundAssumption DEF BooksType
      <4> QED
        BY <3>2, <4>1 DEF BooksType
    <3> QED
      BY <1>6, <3>1, <3>2 DEF GwRefund
  <2>3. skipped' \in [Orders -> BOOLEAN]
    BY <1>6 DEF BooksType, GwRefund
  <2> QED
    BY <1>6, <2>2, <2>3 DEF BooksType, GwRefund
<1>7. ASSUME MarkRefundOk(w) PROVE BooksType'
  <2>1. NoPlan \in Plans
    BY RefundAssumption DEF NoPlan, Plans
  <2> QED
    BY <1>7, <2>1 DEF BooksType, MarkRefundOk, Drop
<1>8. ASSUME RollbackRefund(w) PROVE BooksType'
  <2>1. plan[w].take \in Int /\ job[w] \in Orders /\ taken[job[w]] \in Nat
    BY DEF BooksType, Plans, Base
  <2>2. rollbackAudit' \in [Orders -> BOOLEAN] /\ rollbackFailed' \in [Orders -> BOOLEAN]
    BY <1>8 DEF BooksType, RollbackRefund
  <2>3. balance' \in Int /\ days' \in Nat
    BY <1>8, <2>1 DEF BooksType, RollbackRefund
  <2>4. taken' \in [Orders -> Nat]
    <3>1. CASE UNCHANGED taken
      BY <3>1 DEF BooksType
    <3>2. CASE plan[w].take > 0 /\ taken' = [taken EXCEPT ![job[w]] = @ - plan[w].take]
      <4>1. taken[job[w]] >= plan[w].take
        BY <1>8, <3>2 DEF TakenInv, Deducted, RollbackRefund, InRefund
      <4>2. taken[job[w]] - plan[w].take \in Nat
        BY <2>1, <4>1
      <4> QED
        BY <3>2, <4>2 DEF BooksType
    <3> QED
      BY <1>8, <3>1, <3>2 DEF RollbackRefund
  <2> QED
    BY <1>8, <2>2, <2>3, <2>4 DEF BooksType, RollbackRefund
<1>9. ASSUME RestoreStatus(w) PROVE BooksType'
  <2>1. NoPlan \in Plans
    BY RefundAssumption DEF NoPlan, Plans
  <2> QED
    BY <1>9, <2>1 DEF BooksType, RestoreStatus, Drop
<1>10. ASSUME MarkRefundFailed(w) PROVE BooksType'
  <2>1. NoPlan \in Plans
    BY RefundAssumption DEF NoPlan, Plans
  <2> QED
    BY <1>10, <2>1 DEF BooksType, MarkRefundFailed, Drop
<1> QED
  BY <1>1, <1>2, <1>3, <1>4, <1>5, <1>6, <1>7, <1>8, <1>9, <1>10 DEF RefundStep

\* A step of one refund leaves the books of the others alone.
LEMMA TakenOf ==
    ASSUME Base, RefundIsExclusive, TakenInv, NEW w \in Workers, job' = job,
           \A v \in Workers : v # w => pc'[v] = pc[v] /\ plan'[v] = plan[v],
           \A o \in Orders : o # job[w] => /\ taken'[o] = taken[o] /\ status'[o] = status[o]
                                           /\ rollbackFailed'[o] = rollbackFailed[o],
           pc[w] \in InRefund \/ (status[job[w]] # "REFUNDING"),
           pc'[w] \in InRefund =>
               /\ taken'[job[w]] >= Deducted(w)'
               /\ \/ pc'[w] = "refundFailed" \/ taken'[job[w]] = Deducted(w)'
                  \/ rollbackFailed'[job[w]]
               /\ pc'[w] = "refundFailed" => rollbackFailed'[job[w]],
           \A o \in Orders : rollbackAudit'[o] => rollbackFailed'[o],
           taken'[job[w]] > 0 => status'[job[w]] \in Settled \/ rollbackFailed'[job[w]]
    PROVE  TakenInv' /\ job'[w] = job[w]
<1>1. \A v \in Workers : job[v] \in Orders
  BY DEF Base
<1>2. ASSUME NEW v \in Workers, pc'[v] \in InRefund
      PROVE  /\ taken'[job[v]] >= Deducted(v)'
             /\ \/ pc'[v] = "refundFailed" \/ taken'[job[v]] = Deducted(v)'
                \/ rollbackFailed'[job[v]]
             /\ pc'[v] = "refundFailed" => rollbackFailed'[job[v]]
  <2>1. CASE v = w
    BY <1>2, <2>1
  <2>2. CASE v # w
    <3>1. pc'[v] = pc[v] /\ plan'[v] = plan[v] /\ job[v] # job[w]
      BY <1>2, <2>2 DEF RefundIsExclusive
    <3>2. Deducted(v)' = Deducted(v)
      BY <3>1 DEF Deducted
    <3>3. taken'[job[v]] = taken[job[v]] /\ rollbackFailed'[job[v]] = rollbackFailed[job[v]]
      BY <1>1, <3>1
    <3> QED
      BY <1>2, <3>1, <3>2, <3>3 DEF TakenInv
  <2> QED
    BY <2>1, <2>2
<1>3. ASSUME NEW o \in Orders, taken'[o] > 0
      PROVE  status'[o] \in Settled \/ rollbackFailed'[o]
  BY <1>3 DEF TakenInv
<1> QED
  BY <1>2, <1>3 DEF TakenInv

\* What a refund took is known, and given back when it is called off.
LEMMA RefundKeepsTaken ==
    ASSUME Base, BooksType, RefundIsExclusive, TakenInv, NEW w \in Workers, RefundStep(w)
    PROVE  TakenInv'
<1>1. ASSUME NEW o \in Orders, RequestRefund(w, o) PROVE TakenInv'
  BY <1>1 DEF Base, RefundIsExclusive, TakenInv, Deducted, Settled, Statuses,
    RefundStatuses, Labels, RefundLabels, Refundable, InRefund, RequestRefund, Begin,
    rowVars, ledgerVars, refundVars
<1>2. ASSUME NEW o \in Orders, PrepareRefund(w, o) PROVE TakenInv'
  BY <1>2 DEF Base, RefundIsExclusive, TakenInv, Deducted, Settled, Statuses,
    RefundStatuses, Labels, RefundLabels, Refundable, InRefund, PrepareRefund, Begin,
    rowVars, ledgerVars, refundVars
<1>3. ASSUME MarkRefundRequested(w) PROVE TakenInv'
  BY <1>3 DEF Base, RefundIsExclusive, TakenInv, Deducted, Settled, Statuses,
    RefundStatuses, Labels, RefundLabels, Refundable, InRefund, MarkRefundRequested, Keep,
    Continue, SetStatus, rowVars, ledgerVars, refundVars
<1>4. ASSUME LockRefund(w) PROVE TakenInv'
  <2>0. /\ job' = job /\ job[w] \in Orders /\ taken[job[w]] \in Nat
        /\ UNCHANGED <<taken, rollbackFailed, rollbackAudit>>
        /\ \A v \in Workers : v # w => pc'[v] = pc[v] /\ plan'[v] = plan[v]
    BY <1>4 DEF LockRefund, Keep, Continue, Drop, Base, BooksType
  <2>1. CASE status[job[w]] \in Refundable
    <3>1. /\ pc'[w] = "deduct" /\ status'[job[w]] = "REFUNDING"
          /\ \A o \in Orders : o # job[w] => status'[o] = status[o]
      BY <1>4, <2>0, <2>1 DEF LockRefund, Keep, Continue, SetStatus, Base
    <3>2. taken[job[w]] = 0 \/ rollbackFailed[job[w]]
      BY <2>0, <2>1 DEF TakenInv, Settled, Refundable
    <3>3. Deducted(w)' = 0
      BY <3>1 DEF Deducted
    <3> QED
      BY <2>0, <2>1, <3>1, <3>2, <3>3, TakenOf DEF TakenInv, Refundable, Settled
  <2>2. CASE status[job[w]] \notin Refundable
    BY <1>4, <2>0, <2>2 DEF LockRefund, Keep, Continue, Base, TakenInv, Deducted, InRefund
  <2> QED
    BY <2>1, <2>2
<1>5. ASSUME Deduct(w) PROVE TakenInv'
  <2>0. /\ job' = job /\ job[w] \in Orders /\ taken[job[w]] \in Nat /\ plan[w].take \in Int
        /\ UNCHANGED <<status, rollbackFailed, rollbackAudit>> /\ pc[w] = "deduct"
        /\ \A v \in Workers : v # w => pc'[v] = pc[v] /\ plan'[v] = plan[v]
        /\ status[job[w]] = "REFUNDING"
    BY <1>5 DEF Deduct, Keep, Continue, Base, BooksType, Plans, rowVars, RefundIsExclusive, InRefund
  <2>1. taken[job[w]] = 0 \/ rollbackFailed[job[w]]
    BY <2>0 DEF TakenInv, InRefund, Deducted
  <2>2. CASE plan[w].take > 0 /\ TakeBack(job[w], plan[w].take) /\ Keep(w, "gateway") /\ UNCHANGED plan
    <3>1. /\ pc'[w] = "gateway" /\ plan'[w] = plan[w]
          /\ taken'[job[w]] = taken[job[w]] + plan[w].take
          /\ \A o \in Orders : o # job[w] => taken'[o] = taken[o]
      BY <2>0, <2>2 DEF TakeBack, Keep, Continue, Base, BooksType
    <3>2. Deducted(w)' = plan[w].take
      BY <2>2, <3>1 DEF Deducted
    <3>3. taken'[job[w]] >= Deducted(w)' /\ (taken'[job[w]] = Deducted(w)' \/ rollbackFailed[job[w]])
      BY <2>0, <2>1, <2>2, <3>1, <3>2
    <3> QED
      BY <2>0, <3>1, <3>3, TakenOf DEF TakenInv, InRefund, Settled
  <2>3. CASE UNCHANGED taken /\ (Keep(w, "restore") \/ (Keep(w, "gateway") /\ plan'[w].take <= 0))
    <3>1. pc'[w] \in {"restore", "gateway"} /\ (pc'[w] = "gateway" => plan'[w].take <= 0)
      BY <2>3 DEF Keep, Continue, Base
    <3>2. plan'[w].take \in Int
      BY RefundKeepsBooks DEF BooksType, Plans
    <3>3. Deducted(w)' = 0
      BY <3>1, <3>2 DEF Deducted
    <3> QED
      BY <2>0, <2>1, <2>3, <3>1, <3>3, TakenOf DEF TakenInv, InRefund, Settled
  <2>4. CASE plan' = [plan EXCEPT ![w].take = 0] /\ Keep(w, "gateway") /\ UNCHANGED taken
    <3>1. plan'[w].take = 0
      BY <2>4 DEF BooksType, Plans
    <3> QED
      BY <2>3, <2>4, <3>1
  <2> QED
    BY <1>5, <2>2, <2>3, <2>4 DEF Deduct
<1>6. ASSUME GwRefund(w) PROVE TakenInv'
  BY <1>6 DEF Base, RefundIsExclusive, TakenInv, Deducted, Settled, Statuses,
    RefundStatuses, Labels, RefundLabels, Refundable, InRefund, GwRefund, Keep, Continue,
    rowVars, ledgerVars, refundVars
<1>7. ASSUME MarkRefundOk(w) PROVE TakenInv'
  BY <1>7 DEF Base, RefundIsExclusive, TakenInv, Deducted, Settled, Statuses,
    RefundStatuses, Labels, RefundLabels, Refundable, InRefund, MarkRefundOk, Keep,
    Continue, SetStatus, Drop, rowVars, ledgerVars, refundVars
<1>8. ASSUME RollbackRefund(w) PROVE TakenInv'
  <2>0. /\ job' = job /\ job[w] \in Orders /\ taken[job[w]] \in Nat /\ plan[w].take \in Int
        /\ UNCHANGED <<status, plan>> /\ pc[w] = "rollback"
        /\ \A v \in Workers : v # w => pc'[v] = pc[v]
        /\ status[job[w]] = "REFUNDING"
    BY <1>8 DEF RollbackRefund, Keep, Continue, Base, BooksType, Plans, rowVars, RefundIsExclusive,
      InRefund
  <2>1. /\ taken[job[w]] >= Deducted(w)
        /\ taken[job[w]] = Deducted(w) \/ rollbackFailed[job[w]]
    BY <2>0 DEF TakenInv, InRefund
  <2>2. CASE /\ plan[w].take > 0
             /\ taken' = [taken EXCEPT ![job[w]] = @ - plan[w].take]
             /\ Keep(w, "restore") /\ UNCHANGED <<rollbackAudit, rollbackFailed>>
    <3>1. Deducted(w) = plan[w].take
      BY <2>0, <2>2 DEF Deducted
    <3>2. /\ pc'[w] = "restore" /\ taken'[job[w]] = taken[job[w]] - plan[w].take
          /\ \A o \in Orders : o # job[w] => taken'[o] = taken[o]
      BY <2>0, <2>2 DEF Keep, Continue, Base, BooksType
    <3>3. Deducted(w)' = 0
      BY <3>2 DEF Deducted
    <3>4. taken'[job[w]] >= 0 /\ (taken'[job[w]] = 0 \/ rollbackFailed[job[w]])
      BY <2>0, <2>1, <3>1, <3>2
    <3> QED
      BY <2>0, <2>2, <3>2, <3>3, <3>4, TakenOf DEF TakenInv, InRefund, Settled
  <2>3. CASE /\ rollbackFailed' = [rollbackFailed EXCEPT ![job[w]] = TRUE]
             /\ \/ rollbackAudit' = [rollbackAudit EXCEPT ![job[w]] = TRUE]
                \/ UNCHANGED rollbackAudit
             /\ Keep(w, "refundFailed") /\ UNCHANGED taken
    <3>1. pc'[w] = "refundFailed"
      BY <2>3 DEF Keep, Continue, Base
    <3>2. /\ rollbackFailed'[job[w]]
          /\ \A o \in Orders : o # job[w] => rollbackFailed'[o] = rollbackFailed[o]
      BY <2>0, <2>3 DEF BooksType
    <3>3. \A o \in Orders : o # job[w] => rollbackAudit'[o] = rollbackAudit[o]
      <4>1. CASE rollbackAudit' = [rollbackAudit EXCEPT ![job[w]] = TRUE]
        BY <2>0, <4>1 DEF BooksType
      <4>2. CASE UNCHANGED rollbackAudit
        BY <4>2
      <4> QED
        BY <2>3, <4>1, <4>2
    <3>4. \A o \in Orders : rollbackAudit'[o] => rollbackFailed'[o]
      BY <3>2, <3>3 DEF TakenInv
    <3>5. Deducted(w)' = 0
      BY <3>1 DEF Deducted
    <3>6. taken' = taken /\ taken'[job[w]] >= Deducted(w)'
      BY <2>0, <2>3, <3>5
    <3>7. /\ \A v \in Workers : v # w => pc'[v] = pc[v] /\ plan'[v] = plan[v]
          /\ \A o \in Orders : o # job[w] => /\ taken'[o] = taken[o] /\ status'[o] = status[o]
                                              /\ rollbackFailed'[o] = rollbackFailed[o]
          /\ pc[w] \in InRefund
      BY <2>0, <3>2, <3>6 DEF InRefund
    <3> QED
      BY <2>0, <3>1, <3>2, <3>4, <3>6, <3>7, TakenOf
  <2>4. CASE /\ plan[w].take <= 0 /\ Keep(w, "restore")
             /\ UNCHANGED <<taken, rollbackAudit, rollbackFailed>>
    <3>1. pc'[w] = "restore"
      BY <2>4 DEF Keep, Continue, Base
    <3>2. Deducted(w) = 0 /\ Deducted(w)' = 0
      BY <2>0, <2>4, <3>1 DEF Deducted
    <3> QED
      BY <2>0, <2>1, <2>4, <3>1, <3>2, TakenOf DEF TakenInv, InRefund, Settled
  <2> QED
    BY <1>8, <2>2, <2>3, <2>4 DEF RollbackRefund
<1>9. ASSUME RestoreStatus(w) PROVE TakenInv'
  BY <1>9 DEF Base, RefundIsExclusive, TakenInv, Deducted, Settled, Statuses,
    RefundStatuses, Labels, RefundLabels, Refundable, InRefund, RestoreStatus, Keep,
    Continue, SetStatus, Drop, rowVars, ledgerVars, refundVars
<1>10. ASSUME MarkRefundFailed(w) PROVE TakenInv'
  BY <1>10 DEF Base, RefundIsExclusive, TakenInv, Deducted, Settled, Statuses,
    RefundStatuses, Labels, RefundLabels, Refundable, InRefund, MarkRefundFailed, Keep,
    Continue, SetStatus, Drop, rowVars, ledgerVars, refundVars
<1> QED
  BY <1>1, <1>2, <1>3, <1>4, <1>5, <1>6, <1>7, <1>8, <1>9, <1>10 DEF RefundStep

\* A refund is marked as done only when the money was returned.
LEMMA RefundKeepsReturned ==
    ASSUME Base, BooksType, PlanInv, TakenInv, RefundIsExclusive, ReturnInv, RefundedIsReturned,
           NEW w \in Workers, RefundStep(w)
    PROVE  ReturnInv' /\ RefundedIsReturned'
<1>1. ASSUME NEW o \in Orders, RequestRefund(w, o) PROVE ReturnInv' /\ RefundedIsReturned'
  BY <1>1 DEF Base, BooksType, Plans, PlanInv, RefundIsExclusive, ReturnInv,
    RefundedIsReturned, Statuses, RefundStatuses, Labels, RefundLabels, Refundable,
    InRefund, RequestRefund, Begin, rowVars, ledgerVars, refundVars
<1>2. ASSUME NEW o \in Orders, PrepareRefund(w, o) PROVE ReturnInv' /\ RefundedIsReturned'
  BY <1>2 DEF Base, BooksType, Plans, PlanInv, RefundIsExclusive, ReturnInv,
    RefundedIsReturned, Statuses, RefundStatuses, Labels, RefundLabels, Refundable,
    InRefund, PrepareRefund, Begin, rowVars, ledgerVars, refundVars
<1>3. ASSUME MarkRefundRequested(w) PROVE ReturnInv' /\ RefundedIsReturned'
  BY <1>3 DEF Base, BooksType, Plans, PlanInv, RefundIsExclusive, ReturnInv,
    RefundedIsReturned, Statuses, RefundStatuses, Labels, RefundLabels, Refundable,
    InRefund, MarkRefundRequested, Keep, Continue, SetStatus, rowVars, ledgerVars,
    refundVars
<1>4. ASSUME LockRefund(w) PROVE ReturnInv' /\ RefundedIsReturned'
  <2>1. /\ job' = job /\ UNCHANGED <<returned, skipped>> /\ pc'[w] \in {"deduct", "idle"}
        /\ \A v \in Workers : v # w => pc'[v] = pc[v] /\ plan'[v] = plan[v]
        /\ \A o \in Orders : status'[o] = status[o] \/ status'[o] = "REFUNDING"
    BY <1>4 DEF LockRefund, Keep, Continue, SetStatus, Drop, Base, BooksType
  <2> QED
    BY <2>1 DEF ReturnInv, RefundedIsReturned
<1>5. ASSUME Deduct(w) PROVE ReturnInv' /\ RefundedIsReturned'
  BY <1>5 DEF Base, BooksType, Plans, PlanInv, RefundIsExclusive, ReturnInv,
    RefundedIsReturned, Statuses, RefundStatuses, Labels, RefundLabels, Refundable,
    InRefund, Deduct, Keep, Continue, TakeBack, rowVars, ledgerVars, refundVars
<1>6. ASSUME GwRefund(w) PROVE ReturnInv' /\ RefundedIsReturned'
  <2>0. /\ job' = job /\ job[w] \in Orders /\ UNCHANGED <<status, plan>>
        /\ \A v \in Workers : v # w => pc'[v] = pc[v]
        /\ returned[job[w]] \in Nat /\ plan[w].amount \in Nat /\ plan[w].amount > 0
    BY <1>6 DEF GwRefund, Keep, Continue, Base, BooksType, Plans, rowVars, PlanInv, InRefund
  <2>1. \/ UNCHANGED returned
        \/ returned' = [returned EXCEPT ![job[w]] = @ + plan[w].amount]
    BY <1>6 DEF GwRefund
  <2>2. \A o \in Orders : returned'[o] >= returned[o] /\ returned[o] \in Nat /\ returned'[o] \in Nat
    BY <2>0, <2>1 DEF BooksType
  <2>3. \A o \in Orders : skipped[o] => skipped'[o]
    <3>1. skipped' = skipped \/ skipped' = [skipped EXCEPT ![job[w]] = TRUE]
      BY <1>6 DEF GwRefund
    <3> QED
      BY <3>1, <2>0 DEF BooksType
  <2>4. pc'[w] = "refunded" => returned'[job[w]] >= plan[w].amount \/ skipped'[job[w]]
    <3>1. CASE skipped' = [skipped EXCEPT ![job[w]] = TRUE]
      BY <2>0, <3>1 DEF BooksType
    <3>2. CASE returned' = [returned EXCEPT ![job[w]] = @ + plan[w].amount]
      BY <2>0, <3>2 DEF BooksType
    <3>3. CASE Keep(w, "rollback")
      BY <3>3 DEF Keep, Continue, Base
    <3> QED
      BY <1>6, <3>1, <3>2, <3>3 DEF GwRefund
  <2>5. \A v \in Workers : job[v] \in Orders /\ plan[v].amount \in Nat
    BY DEF Base, BooksType, Plans
  <2>6. ReturnInv'
    BY <2>0, <2>2, <2>3, <2>4, <2>5 DEF ReturnInv
  <2>7. RefundedIsReturned'
    <3>1. \A o \in Orders : returned'[o] <= Amount
      BY RefundKeepsBooks DEF BooksType
    <3> QED
      BY <2>0, <2>2, <2>3, <3>1, RefundAssumption DEF RefundedIsReturned
  <2> QED
    BY <2>6, <2>7
<1>7. ASSUME MarkRefundOk(w) PROVE ReturnInv' /\ RefundedIsReturned'
  <2>0. /\ job' = job /\ job[w] \in Orders /\ UNCHANGED <<returned, skipped>>
        /\ pc[w] = "refunded" /\ pc'[w] = "idle"
        /\ \A v \in Workers : v # w => pc'[v] = pc[v] /\ plan'[v] = plan[v]
        /\ \A o \in Orders : o # job[w] => status'[o] = status[o]
        /\ status'[job[w]] = IF plan[w].amount < Amount THEN "PARTIALLY_REFUNDED"
                             ELSE "REFUNDED"
    BY <1>7 DEF MarkRefundOk, Keep, Continue, SetStatus, Drop, Base, BooksType, rowVars
  <2>1. /\ plan[w].amount \in 0..Amount /\ plan[w].amount > 0 /\ returned[job[w]] \in 0..Amount
    BY <2>0 DEF BooksType, Plans, PlanInv, InRefund
  <2>2. returned[job[w]] >= plan[w].amount \/ skipped[job[w]]
    BY <2>0 DEF ReturnInv
  <2>3. ReturnInv'
    BY <2>0 DEF ReturnInv
  <2>4. /\ status'[job[w]] = "REFUNDED" => returned[job[w]] = Amount \/ skipped[job[w]]
        /\ status'[job[w]] = "PARTIALLY_REFUNDED" => returned[job[w]] > 0 \/ skipped[job[w]]
    BY <2>0, <2>1, <2>2, RefundAssumption
  <2> QED
    BY <2>0, <2>3, <2>4 DEF RefundedIsReturned
<1>8. ASSUME RollbackRefund(w) PROVE ReturnInv' /\ RefundedIsReturned'
  BY <1>8 DEF Base, BooksType, Plans, PlanInv, RefundIsExclusive, ReturnInv,
    RefundedIsReturned, Statuses, RefundStatuses, Labels, RefundLabels, Refundable,
    InRefund, RollbackRefund, Keep, Continue, rowVars, ledgerVars, refundVars
<1>9. ASSUME RestoreStatus(w) PROVE ReturnInv' /\ RefundedIsReturned'
  BY <1>9 DEF Base, BooksType, Plans, PlanInv, RefundIsExclusive, ReturnInv,
    RefundedIsReturned, Statuses, RefundStatuses, Labels, RefundLabels, Refundable,
    InRefund, RestoreStatus, Keep, Continue, SetStatus, Drop, rowVars, ledgerVars,
    refundVars
<1>10. ASSUME MarkRefundFailed(w) PROVE ReturnInv' /\ RefundedIsReturned'
  BY <1>10 DEF Base, BooksType, Plans, PlanInv, RefundIsExclusive, ReturnInv,
    RefundedIsReturned, Statuses, RefundStatuses, Labels, RefundLabels, Refundable,
    InRefund, MarkRefundFailed, Keep, Continue, SetStatus, Drop, rowVars, ledgerVars,
    refundVars
<1> QED
  BY <1>1, <1>2, <1>3, <1>4, <1>5, <1>6, <1>7, <1>8, <1>9, <1>10 DEF RefundStep

-----------------------------------------------------------------------------
(* The specification *)

\* Before the first step nothing is refunded.
LEMMA InitInv == RInit => IInv
<1> SUFFICES ASSUME RInit PROVE IInv
  OBVIOUS
<1>1. "idle" \in Labels \ {"insert", "invoke", "save"} /\ "idle" \notin RefundLabels
  BY DEF Labels, RefundLabels
<1>2. "PAID" \in Statuses \ {"PENDING"} /\ "PAID" \in Open
  BY DEF Statuses, RefundStatuses, Open
<1>3. Base
  BY <1>1, <1>2 DEF RInit, Base
<1>4. LocalsInv /\ CodeInv
  <2>1. \A w \in Workers : pc[w] = "idle"
    BY DEF RInit
  <2>2. \A o \in BalanceOrders : status[o] = "PAID"
    BY DEF RInit, Orders
  <2> QED
    BY <1>2, <2>1, <2>2 DEF LocalsInv, CodeInv
<1>5. BooksType
  <2>1. NoPlan \in Plans
    BY RefundAssumption DEF NoPlan, Plans
  <2>2. /\ rollbackAudit \in [Orders -> BOOLEAN] /\ rollbackFailed \in [Orders -> BOOLEAN]
        /\ tradeNo \in [Orders -> BOOLEAN] /\ skipped \in [Orders -> BOOLEAN]
    BY DEF RInit
  <2> QED
    BY <2>1, <2>2, RefundAssumption DEF RInit, BooksType
<1>6. \A w \in Workers : pc[w] \notin InRefund \union {"lock", "refunded"}
  BY DEF RInit, InRefund
<1>7. RefundIsExclusive /\ PlanInv /\ ReturnInv
  BY <1>6 DEF RefundIsExclusive, PlanInv, ReturnInv
<1>8. TakenInv /\ RefundedIsReturned
  BY <1>6 DEF RInit, TakenInv, RefundedIsReturned
<1> QED
  BY <1>3, <1>4, <1>5, <1>7, <1>8 DEF IInv

\* The invariant is inductive, and no step credits a top-up whose refund has begun.
LEMMA StepInv ==
    ASSUME IInv, [RNext]_rvars
    PROVE  IInv' /\ NoCredit
<1>1. ASSUME OrderStep PROVE IInv' /\ NoCredit
  <2>1. Next
    BY <1>1 DEF OrderStep
  <2>2. OrderMove
    BY <2>1, OrderMoves DEF IInv
  <2>3. Base' /\ LocalsInv' /\ CodeInv' /\ NoCredit
    BY <2>1, <2>2, OrderKeepsLocals, OrderKeepsCode, OrderNoCredit DEF IInv, OrderMove
  <2>4. BooksType'
    BY <1>1, <2>2, OrderKeepsBooks DEF IInv
  <2>5. RefundIsExclusive' /\ PlanInv' /\ TakenInv' /\ ReturnInv' /\ RefundedIsReturned'
    BY <1>1, <2>2, OrderKeepsRefunds DEF IInv
  <2> QED
    BY <2>3, <2>4, <2>5 DEF IInv
<1>2. ASSUME NEW w \in Workers, RefundStep(w) PROVE IInv' /\ NoCredit
  <2>1. Base' /\ LocalsInv' /\ CodeInv' /\ granted' = granted
    BY <1>2, RefundKeepsBase, RefundKeepsLocals, RefundKeepsCode DEF IInv
  <2>2. BooksType' /\ RefundIsExclusive' /\ PlanInv'
    BY <1>2, RefundKeepsBooks, RefundKeepsExclusive, RefundKeepsPlan DEF IInv
  <2>3. TakenInv' /\ ReturnInv' /\ RefundedIsReturned'
    BY <1>2, RefundKeepsTaken, RefundKeepsReturned DEF IInv
  <2> QED
    BY <2>1, <2>2, <2>3 DEF IInv, NoCredit
<1>3. ASSUME \/ Spend
             \/ UNCHANGED rvars
      PROVE  IInv' /\ NoCredit
  <2>1. UNCHANGED <<vars, days, refundVars>>
    BY <1>3 DEF Spend, rvars
  <2>2. balance' \in Int
    BY <1>3 DEF Spend, rvars, IInv, BooksType
  <2>3. Base' /\ LocalsInv' /\ CodeInv' /\ NoCredit
    BY <2>1 DEF vars, rowVars, ledgerVars, procVars, IInv, Base, LocalsInv, CodeInv, NoCredit
  <2>4. BooksType'
    BY <2>1, <2>2 DEF refundVars, IInv, BooksType
  <2>5. \A w \in Workers : Deducted(w)' = Deducted(w)
    BY <2>1 DEF vars, procVars, refundVars, Deducted
  <2>6. TakenInv'
    BY <2>1, <2>5 DEF vars, rowVars, procVars, refundVars, IInv, TakenInv
  <2>7. RefundIsExclusive' /\ PlanInv' /\ ReturnInv' /\ RefundedIsReturned'
    BY <2>1 DEF vars, rowVars, procVars, ledgerVars, refundVars, IInv, RefundIsExclusive, PlanInv, ReturnInv,
      RefundedIsReturned
  <2> QED
    BY <2>3, <2>4, <2>6, <2>7 DEF IInv
<1> QED
  BY <1>1, <1>2, <1>3 DEF RNext

\* So it holds in every reachable state.
LEMMA Invariance == RSpec => []IInv
<1>1. IInv /\ [RNext]_rvars => IInv'
  BY StepInv
<1> QED
  BY InitInv, <1>1, PTL DEF RSpec

\* Every reachable state has its types: what is taken from a user for an order is never
\* negative, and the provider never returns more than was paid.
THEOREM RTypeCorrect == RSpec => []RTypeOK
<1>1. IInv => RTypeOK
  BY DEF IInv, Base, BooksType, Plans, RTypeOK
<1> QED
  BY <1>1, Invariance, PTL

\* REFUNDING is a lock: the one handler that took it is the only one to move the order,
\* against all webhooks, retries, fulfilments and other refunds.
THEOREM RefundExclusive == RSpec => []RefundIsExclusive
<1>1. IInv => RefundIsExclusive
  BY DEF IInv
<1> QED
  BY <1>1, Invariance, PTL

\* A refund that is called off has given back all it took, unless a rollback failed.
THEOREM CalledOffUndone == RSpec => []CalledOffIsUndone
<1>1. IInv => CalledOffIsUndone
  BY DEF IInv, TakenInv, Settled, CalledOffIsUndone
<1> QED
  BY <1>1, Invariance, PTL

\* An order is marked as REFUNDED only if the provider returned the whole amount, and as
\* PARTIALLY_REFUNDED only if it returned something, unless a refund of the order found no
\* trade number and did not ask the provider.
THEOREM RefundedReturned == RSpec => []RefundedIsReturned
<1>1. IInv => RefundedIsReturned
  BY DEF IInv
<1> QED
  BY <1>1, Invariance, PTL

\* No step, of a fulfilment however slow or of anything else, credits a top-up whose refund
\* has been asked for or begun.
THEOREM NoCreditOnceRefunding == RSpec => NoCreditAfterRefund
<1>1. IInv /\ [RNext]_rvars =>
        [\A o \in BalanceOrders : status[o] \in RefundStatuses => granted'[o] = granted[o]]_rvars
  BY StepInv DEF NoCredit
<1> QED
  BY <1>1, Invariance, PTL DEF RSpec, NoCreditAfterRefund
==============================================================================
