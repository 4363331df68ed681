------------------------- MODULE PaymentOrderProofs -------------------------
(***************************************************************************)
(* The safety properties of PaymentOrder for every set of orders and       *)
(* workers and every value of the time-outs and bounds.                    *)
(***************************************************************************)
EXTENDS PaymentOrder, TLAPS

\* the order of a worker at one of these statements is known to be paid
AfterPayment == {"claim", "lookup", "create", "redeem", "group", "assign"}

\* a creating request owns its order, which the provider does not know before
\* CreatePayment
CreationInv ==
    /\ \A o \in Orders : status[o] = "NONE" => gateway[o] = "none" /\ ~paidAt[o]
    /\ \A w \in Workers :
        /\ pc[w] \in {"invoke", "save"} => status[job[w]] # "NONE"
        /\ pc[w] = "invoke" => gateway[job[w]] = "none"
        /\ \A v \in Workers :
            pc[w] \in {"invoke", "save"} /\ pc[v] \in {"invoke", "save"}
                /\ job[w] = job[v] => w = v

\* locals of the cancelling and the manual handlers
LocalsInv ==
    \A w \in Workers :
        /\ pc[w] = "check"  => arg[w] \in {"CANCELLED", "EXPIRED", "NONE"}
        /\ pc[w] = "cancel" => arg[w] \in {"CANCELLED", "EXPIRED"}
        /\ pc[w] = "manual" =>
            arg[w] \in {"PENDING", "EXPIRED", "CANCELLED", "FAILED", "PAID", "RECHARGING"}
        /\ pc[w] = "manual" /\ arg[w] = "PAID" => paidAt[job[w]]

\* paid_at is set exactly where the order has left the unpaid statuses
PaidInv ==
    /\ PaymentNotForgotten
    /\ \A o \in Orders :
        /\ status[o] \in {"PAID", "RECHARGING", "COMPLETED"} => paidAt[o]
        /\ paidAt[o] => gateway[o] = "paid" \/ manual[o]
        /\ granted[o] > 0 => paidAt[o]
    /\ \A w \in Workers :
        pc[w] \in AfterPayment => paidAt[job[w]]

\* the redeem code counts the credits of a top-up
CodeInv ==
    /\ \A o \in BalanceOrders :
        /\ granted[o] <= 1
        /\ granted[o] > 0 => code[o] = "used"
    /\ \A w \in Workers : pc[w] \in {"group", "assign"} => job[w] \in SubscriptionOrders

\* who is about to record a success knows that the grant happened
GrantInv ==
    /\ CompletedIsGranted
    /\ \A o \in Orders : code[o] = "used" \/ audited[o] => granted[o] > 0
    /\ \A w \in Workers : pc[w] \in {"complete", "audit"} => granted[job[w]] > 0

IInv == TypeOK /\ CreationInv /\ LocalsInv /\ PaidInv /\ CodeInv /\ GrantInv

\* Every step keeps the columns, the labels and the saturated distances in range.
LEMMA TypeStep ==
    ASSUME TypeOK, [Next]_vars
    PROVE  TypeOK'
<1>1. ASSUME NEW w \in Workers, CheckPendingLimit(w) PROVE TypeOK'
    BY <1>1, TimeAssumption, BoundAssumption DEF TypeOK, AgeCap,
      RechargingTimeout, Statuses, RefundStatuses, Labels, CheckPendingLimit,
      Keep, Continue, rowVars, ledgerVars
<1>2. ASSUME NEW w \in Workers, NEW o \in Orders, HandlePaymentNotification(w, o) PROVE TypeOK'
    BY <1>2, TimeAssumption, BoundAssumption DEF TypeOK, AgeCap,
      RechargingTimeout, Statuses, RefundStatuses, Labels,
      HandlePaymentNotification, Begin, rowVars, ledgerVars
<1>3. ASSUME NEW w \in Workers, NEW o \in Orders, RetryFulfillment(w, o) PROVE TypeOK'
    BY <1>3, TimeAssumption, BoundAssumption DEF TypeOK, AgeCap,
      RechargingTimeout, Statuses, RefundStatuses, Labels, RetryFulfillment,
      Begin, SetStatus, ledgerVars
<1>4. ASSUME NEW w \in Workers, NEW o \in Orders, AdminManualFulfillOrder(w, o) PROVE TypeOK'
    BY <1>4, TimeAssumption, BoundAssumption DEF TypeOK, AgeCap,
      RechargingTimeout, Statuses, RefundStatuses, Labels,
      AdminManualFulfillOrder, Begin, IsRechargingOrderStale, rowVars,
      ledgerVars
<1>5. ASSUME NEW w \in Workers, NEW o \in Orders, CancelOrder(w, o) PROVE TypeOK'
    BY <1>5, TimeAssumption, BoundAssumption DEF TypeOK, AgeCap,
      RechargingTimeout, Statuses, RefundStatuses, Labels, CancelOrder, Begin,
      rowVars, ledgerVars
<1>6. ASSUME NEW w \in Workers, NEW o \in Orders, ExpireTimedOutOrder(w, o) PROVE TypeOK'
    BY <1>6, TimeAssumption, BoundAssumption DEF TypeOK, AgeCap,
      RechargingTimeout, Statuses, RefundStatuses, Labels,
      ExpireTimedOutOrder, Begin, rowVars, ledgerVars
<1>7. ASSUME NEW w \in Workers, NEW o \in Orders, VerifyOrderByOutTradeNo(w, o) PROVE TypeOK'
    BY <1>7, TimeAssumption, BoundAssumption DEF TypeOK, AgeCap,
      RechargingTimeout, Statuses, RefundStatuses, Labels,
      VerifyOrderByOutTradeNo, Begin, rowVars, ledgerVars
<1>8. ASSUME NEW w \in Workers, InsertOrder(w) PROVE TypeOK'
    BY <1>8, TimeAssumption, BoundAssumption DEF TypeOK, AgeCap,
      RechargingTimeout, Statuses, RefundStatuses, Labels, InsertOrder,
      Continue, SetStatus, ledgerVars
<1>9. ASSUME NEW w \in Workers, CreatePayment(w) PROVE TypeOK'
    BY <1>9, TimeAssumption, BoundAssumption DEF TypeOK, AgeCap,
      RechargingTimeout, Statuses, RefundStatuses, Labels, CreatePayment,
      Keep, Continue, rowVars, ledgerVars
<1>10. ASSUME NEW w \in Workers, SavePaymentDetails(w) PROVE TypeOK'
    BY <1>10, TimeAssumption, BoundAssumption DEF TypeOK, AgeCap,
      RechargingTimeout, Statuses, RefundStatuses, Labels, SavePaymentDetails,
      Keep, Continue, ledgerVars
<1>11. ASSUME NEW w \in Workers, FailCreate(w) PROVE TypeOK'
    BY <1>11, TimeAssumption, BoundAssumption DEF TypeOK, AgeCap,
      RechargingTimeout, Statuses, RefundStatuses, Labels, FailCreate, Keep,
      SetStatus, Continue, ledgerVars
<1>12. ASSUME NEW w \in Workers, ToPaid(w) PROVE TypeOK'
  <2>1. CASE Payable(job[w])
    <3>1. paidAt' \in [Orders -> BOOLEAN]
      BY <1>12, <2>1 DEF TypeOK, ToPaid
    <3>2. age' \in [Orders -> 0..AgeCap]
      BY <1>12, <2>1, TimeAssumption DEF TypeOK, AgeCap, RechargingTimeout, ToPaid,
        SetStatus
    <3> QED
      BY <1>12, <2>1, <3>1, <3>2 DEF TypeOK, Statuses, Labels, ToPaid, Keep,
        SetStatus, Continue, ledgerVars
  <2>2. CASE ~Payable(job[w])
    BY <1>12, <2>2 DEF TypeOK, Statuses, Labels, ToPaid, Keep, Continue, ledgerVars
  <2> QED  BY <2>1, <2>2
<1>13. ASSUME NEW w \in Workers, AlreadyProcessed(w) PROVE TypeOK'
    BY <1>13, TimeAssumption, BoundAssumption DEF TypeOK, AgeCap,
      RechargingTimeout, Statuses, RefundStatuses, Labels, AlreadyProcessed,
      Keep, Continue, rowVars, ledgerVars
<1>14. ASSUME NEW w \in Workers, Claim(w) PROVE TypeOK'
    BY SMTT(20), <1>14, TimeAssumption, BoundAssumption DEF TypeOK, AgeCap,
      RechargingTimeout, Statuses, RefundStatuses, Labels, Claim, Keep,
      SetStatus, Continue, ledgerVars
<1>15. ASSUME NEW w \in Workers, ResolveRedeemAction(w) PROVE TypeOK'
    BY <1>15, TimeAssumption, BoundAssumption DEF TypeOK, AgeCap,
      RechargingTimeout, Statuses, RefundStatuses, Labels,
      ResolveRedeemAction, Keep, Continue, rowVars, ledgerVars
<1>16. ASSUME NEW w \in Workers, CreateCode(w) PROVE TypeOK'
    BY <1>16, TimeAssumption, BoundAssumption DEF TypeOK, AgeCap,
      RechargingTimeout, Statuses, RefundStatuses, Labels, CreateCode, Keep,
      Continue, rowVars
<1>17. ASSUME NEW w \in Workers, Redeem(w) PROVE TypeOK'
    BY <1>17, TimeAssumption, BoundAssumption DEF TypeOK, AgeCap,
      RechargingTimeout, Statuses, RefundStatuses, Labels, Redeem, Keep,
      Continue, rowVars
<1>18. ASSUME NEW w \in Workers, CheckSubscription(w) PROVE TypeOK'
    BY <1>18, TimeAssumption, BoundAssumption DEF TypeOK, AgeCap,
      RechargingTimeout, Statuses, RefundStatuses, Labels, CheckSubscription,
      Keep, Continue, rowVars, ledgerVars
<1>19. ASSUME NEW w \in Workers, AssignSubscription(w) PROVE TypeOK'
    BY <1>19, TimeAssumption, BoundAssumption DEF TypeOK, AgeCap,
      RechargingTimeout, Statuses, RefundStatuses, Labels, AssignSubscription,
      Keep, Continue, rowVars
<1>20. ASSUME NEW w \in Workers, MarkCompleted(w) PROVE TypeOK'
    BY <1>20, TimeAssumption, BoundAssumption DEF TypeOK, AgeCap,
      RechargingTimeout, Statuses, RefundStatuses, Labels, MarkCompleted,
      Keep, SetStatus, Continue, ledgerVars
<1>21. ASSUME NEW w \in Workers, WriteSuccessAudit(w) PROVE TypeOK'
    BY <1>21, TimeAssumption, BoundAssumption DEF TypeOK, AgeCap,
      RechargingTimeout, Statuses, RefundStatuses, Labels, WriteSuccessAudit,
      Keep, Continue, rowVars
<1>22. ASSUME NEW w \in Workers, MarkFailed(w) PROVE TypeOK'
    BY <1>22, TimeAssumption, BoundAssumption DEF TypeOK, AgeCap,
      RechargingTimeout, Statuses, RefundStatuses, Labels, MarkFailed, Keep,
      SetStatus, Continue, ledgerVars
<1>23. ASSUME NEW w \in Workers, MarkPaidManually(w) PROVE TypeOK'
  <2>1. CASE arg[w] = "PAID"
    <3>1. PICK a \in {0, age[job[w]]} : age' = [age EXCEPT ![job[w]] = a]
      BY <1>23, <2>1 DEF MarkPaidManually
    <3>2. age' \in [Orders -> 0..AgeCap]
      BY <3>1, TimeAssumption DEF TypeOK, AgeCap, RechargingTimeout
    <3> QED
      BY <1>23, <2>1, <3>2 DEF TypeOK, Labels, MarkPaidManually, Keep, Continue,
        ledgerVars
  <2>2. CASE arg[w] # "PAID" /\ status[job[w]] = arg[w]
    <3>1. /\ paidAt' \in [Orders -> BOOLEAN]
          /\ manual' \in [Orders -> BOOLEAN]
      BY <1>23, <2>2 DEF TypeOK, MarkPaidManually
    <3>2. age' \in [Orders -> 0..AgeCap]
      BY <1>23, <2>2, TimeAssumption DEF TypeOK, AgeCap, RechargingTimeout,
        MarkPaidManually, SetStatus
    <3> QED
      BY SMTT(20), <1>23, <2>2, <3>1, <3>2 DEF TypeOK, Statuses, Labels, MarkPaidManually,
        Keep, SetStatus, Continue, ledgerVars
  <2>3. CASE arg[w] # "PAID" /\ status[job[w]] # arg[w]
    BY <1>23, <2>3 DEF TypeOK, Labels, MarkPaidManually, Keep, Continue, ledgerVars
  <2> QED  BY <2>1, <2>2, <2>3
<1>24. ASSUME NEW w \in Workers, CheckPaid(w) PROVE TypeOK'
    BY <1>24, TimeAssumption, BoundAssumption DEF TypeOK, AgeCap,
      RechargingTimeout, Statuses, RefundStatuses, Labels, CheckPaid, Keep,
      Continue, ledgerVars
<1>25. ASSUME NEW w \in Workers, CancelCore(w) PROVE TypeOK'
    BY <1>25, TimeAssumption, BoundAssumption DEF TypeOK, AgeCap,
      RechargingTimeout, Statuses, RefundStatuses, Labels, CancelCore, Keep,
      SetStatus, Continue, ledgerVars
<1>26. ASSUME NEW w \in Workers, Crash(w) PROVE TypeOK'
    BY <1>26, TimeAssumption, BoundAssumption DEF TypeOK, AgeCap,
      RechargingTimeout, Statuses, RefundStatuses, Labels, Crash, Keep,
      Continue, rowVars, ledgerVars
<1>31. ASSUME NEW w \in Workers, RejectPayment(w) PROVE TypeOK'
    BY <1>31, TimeAssumption, BoundAssumption DEF TypeOK, AgeCap,
      RechargingTimeout, Statuses, RefundStatuses, Labels, RejectPayment, Keep,
      Continue, rowVars, ledgerVars
<1>32. ASSUME NEW w \in Workers, StatementFails(w) PROVE TypeOK'
    BY <1>32, TimeAssumption, BoundAssumption DEF TypeOK, AgeCap,
      RechargingTimeout, Statuses, RefundStatuses, Labels, StatementFails, Keep,
      Continue, rowVars, ledgerVars
<1>27. ASSUME NEW o \in Orders, UserPays(o) PROVE TypeOK'
    BY <1>27, TimeAssumption, BoundAssumption DEF TypeOK, AgeCap,
      RechargingTimeout, Statuses, RefundStatuses, Labels, UserPays, Collected, rowVars,
      ledgerVars, procVars
<1>28. ASSUME NEW o \in Orders, FailStaleRecharging(o) PROVE TypeOK'
    BY <1>28, TimeAssumption, BoundAssumption DEF TypeOK, AgeCap,
      RechargingTimeout, Statuses, RefundStatuses, Labels,
      FailStaleRecharging, SetStatus,
                 IsRechargingOrderStale, ledgerVars,
      procVars
<1>29. ASSUME Tick PROVE TypeOK'
    BY <1>29, TimeAssumption, BoundAssumption DEF TypeOK, AgeCap,
      RechargingTimeout, Statuses, RefundStatuses, Labels, Tick, ledgerVars,
      procVars
<1>30. CASE UNCHANGED vars
    BY <1>30 DEF TypeOK, AgeCap, RechargingTimeout, Statuses, RefundStatuses,
      Labels, vars, rowVars, ledgerVars, procVars
<1> QED
    BY <1>1, <1>2, <1>3, <1>4, <1>5, <1>6, <1>7, <1>8, <1>9, <1>10, <1>11,
      <1>12, <1>13, <1>14, <1>15, <1>16, <1>17, <1>18, <1>19, <1>20, <1>21,
      <1>22, <1>23, <1>24, <1>25, <1>26, <1>27, <1>28, <1>29, <1>30, <1>31,
      <1>32 DEF Next,
      Start, Step


\* Only the creating request touches an order the provider does not know yet.
LEMMA CreationStep ==
    ASSUME TypeOK, CreationInv, LocalsInv, PaidInv, [Next]_vars
    PROVE  CreationInv'
<1>1. ASSUME NEW w \in Workers, CheckPendingLimit(w) PROVE CreationInv'
    BY <1>1 DEF TypeOK, CreationInv, LocalsInv, PaidInv, PaymentNotForgotten,
      CheckPendingLimit, Keep, Continue, rowVars, ledgerVars
<1>2. ASSUME NEW w \in Workers, NEW o \in Orders, HandlePaymentNotification(w, o) PROVE CreationInv'
    BY <1>2 DEF TypeOK, CreationInv, LocalsInv, PaidInv, PaymentNotForgotten,
      HandlePaymentNotification, Begin, rowVars, ledgerVars
<1>3. ASSUME NEW w \in Workers, NEW o \in Orders, RetryFulfillment(w, o) PROVE CreationInv'
    BY <1>3 DEF TypeOK, CreationInv, LocalsInv, PaidInv, PaymentNotForgotten,
      RetryFulfillment, Begin, SetStatus, ledgerVars
<1>4. ASSUME NEW w \in Workers, NEW o \in Orders, AdminManualFulfillOrder(w, o) PROVE CreationInv'
    BY <1>4 DEF TypeOK, CreationInv, LocalsInv, PaidInv, PaymentNotForgotten,
      AdminManualFulfillOrder, Begin, IsRechargingOrderStale, rowVars,
      ledgerVars
<1>5. ASSUME NEW w \in Workers, NEW o \in Orders, CancelOrder(w, o) PROVE CreationInv'
    BY <1>5 DEF TypeOK, CreationInv, LocalsInv, PaidInv, PaymentNotForgotten,
      CancelOrder, Begin, rowVars, ledgerVars
<1>6. ASSUME NEW w \in Workers, NEW o \in Orders, ExpireTimedOutOrder(w, o) PROVE CreationInv'
    BY <1>6 DEF TypeOK, CreationInv, LocalsInv, PaidInv, PaymentNotForgotten,
      ExpireTimedOutOrder, Begin, rowVars, ledgerVars
<1>7. ASSUME NEW w \in Workers, NEW o \in Orders, VerifyOrderByOutTradeNo(w, o) PROVE CreationInv'
    BY <1>7 DEF TypeOK, CreationInv, LocalsInv, PaidInv, PaymentNotForgotten,
      VerifyOrderByOutTradeNo, Begin, rowVars, ledgerVars
<1>8. ASSUME NEW w \in Workers, InsertOrder(w) PROVE CreationInv'
    BY <1>8 DEF TypeOK, CreationInv, LocalsInv, PaidInv, PaymentNotForgotten,
      InsertOrder, Continue, SetStatus, ledgerVars
<1>9. ASSUME NEW w \in Workers, CreatePayment(w) PROVE CreationInv'
    BY <1>9 DEF TypeOK, CreationInv, LocalsInv, PaidInv, PaymentNotForgotten,
      CreatePayment, Keep, Continue, rowVars, ledgerVars
<1>10. ASSUME NEW w \in Workers, SavePaymentDetails(w) PROVE CreationInv'
    BY <1>10 DEF TypeOK, CreationInv, LocalsInv, PaidInv, PaymentNotForgotten,
      SavePaymentDetails, Keep, Continue, ledgerVars
<1>11. ASSUME NEW w \in Workers, FailCreate(w) PROVE CreationInv'
    BY <1>11 DEF TypeOK, CreationInv, LocalsInv, PaidInv, PaymentNotForgotten,
      FailCreate, Keep, SetStatus, Continue, ledgerVars
<1>12. ASSUME NEW w \in Workers, ToPaid(w) PROVE CreationInv'
    BY <1>12 DEF TypeOK, CreationInv, LocalsInv, PaidInv, PaymentNotForgotten,
      ToPaid, Keep, SetStatus, Payable, Continue, ledgerVars
<1>13. ASSUME NEW w \in Workers, AlreadyProcessed(w) PROVE CreationInv'
    BY <1>13 DEF TypeOK, CreationInv, LocalsInv, PaidInv, PaymentNotForgotten,
      AlreadyProcessed, Keep, Continue, rowVars, ledgerVars
<1>14. ASSUME NEW w \in Workers, Claim(w) PROVE CreationInv'
    BY <1>14 DEF TypeOK, CreationInv, LocalsInv, PaidInv, PaymentNotForgotten,
      Claim, Keep, SetStatus, Continue, ledgerVars
<1>15. ASSUME NEW w \in Workers, ResolveRedeemAction(w) PROVE CreationInv'
    BY <1>15 DEF TypeOK, CreationInv, LocalsInv, PaidInv, PaymentNotForgotten,
      ResolveRedeemAction, Keep, Continue, rowVars, ledgerVars
<1>16. ASSUME NEW w \in Workers, CreateCode(w) PROVE CreationInv'
    BY <1>16 DEF TypeOK, CreationInv, LocalsInv, PaidInv, PaymentNotForgotten,
      CreateCode, Keep, Continue, rowVars
<1>17. ASSUME NEW w \in Workers, Redeem(w) PROVE CreationInv'
    BY <1>17 DEF TypeOK, CreationInv, LocalsInv, PaidInv, PaymentNotForgotten,
      Redeem, Keep, Continue, rowVars
<1>18. ASSUME NEW w \in Workers, CheckSubscription(w) PROVE CreationInv'
    BY <1>18 DEF TypeOK, CreationInv, LocalsInv, PaidInv, PaymentNotForgotten,
      CheckSubscription, Keep, Continue, rowVars, ledgerVars
<1>19. ASSUME NEW w \in Workers, AssignSubscription(w) PROVE CreationInv'
    BY <1>19 DEF TypeOK, CreationInv, LocalsInv, PaidInv, PaymentNotForgotten,
      AssignSubscription, Keep, Continue, rowVars
<1>20. ASSUME NEW w \in Workers, MarkCompleted(w) PROVE CreationInv'
    BY <1>20 DEF TypeOK, CreationInv, LocalsInv, PaidInv, PaymentNotForgotten,
      MarkCompleted, Keep, SetStatus, Continue, ledgerVars
<1>21. ASSUME NEW w \in Workers, WriteSuccessAudit(w) PROVE CreationInv'
    BY <1>21 DEF TypeOK, CreationInv, LocalsInv, PaidInv, PaymentNotForgotten,
      WriteSuccessAudit, Keep, Continue, rowVars
<1>22. ASSUME NEW w \in Workers, MarkFailed(w) PROVE CreationInv'
    BY <1>22 DEF TypeOK, CreationInv, LocalsInv, PaidInv, PaymentNotForgotten,
      MarkFailed, Keep, SetStatus, Continue, ledgerVars
<1>23. ASSUME NEW w \in Workers, MarkPaidManually(w) PROVE CreationInv'
    BY <1>23 DEF TypeOK, CreationInv, LocalsInv, PaidInv, PaymentNotForgotten,
      MarkPaidManually, Keep, SetStatus, Continue, ledgerVars
<1>24. ASSUME NEW w \in Workers, CheckPaid(w) PROVE CreationInv'
    BY <1>24 DEF TypeOK, CreationInv, LocalsInv, PaidInv, PaymentNotForgotten,
      CheckPaid, Keep, Continue, ledgerVars
<1>25. ASSUME NEW w \in Workers, CancelCore(w) PROVE CreationInv'
    BY <1>25 DEF TypeOK, CreationInv, LocalsInv, PaidInv, PaymentNotForgotten,
      CancelCore, Keep, SetStatus, Continue, ledgerVars
<1>26. ASSUME NEW w \in Workers, Crash(w) PROVE CreationInv'
    BY <1>26 DEF TypeOK, CreationInv, LocalsInv, PaidInv, PaymentNotForgotten,
      Crash, Keep, Continue, rowVars, ledgerVars
<1>31. ASSUME NEW w \in Workers, RejectPayment(w) PROVE CreationInv'
    BY <1>31 DEF TypeOK, CreationInv, LocalsInv, PaidInv, PaymentNotForgotten,
      RejectPayment, Keep, Continue, rowVars, ledgerVars
<1>32. ASSUME NEW w \in Workers, StatementFails(w) PROVE CreationInv'
    BY <1>32 DEF TypeOK, CreationInv, LocalsInv, PaidInv, PaymentNotForgotten,
      StatementFails, Keep, Continue, rowVars, ledgerVars
<1>27. ASSUME NEW o \in Orders, UserPays(o) PROVE CreationInv'
    BY <1>27 DEF TypeOK, CreationInv, LocalsInv, PaidInv, PaymentNotForgotten,
      UserPays, Collected, rowVars, ledgerVars, procVars
<1>28. ASSUME NEW o \in Orders, FailStaleRecharging(o) PROVE CreationInv'
    BY <1>28 DEF TypeOK, CreationInv, LocalsInv, PaidInv, PaymentNotForgotten,
      FailStaleRecharging, SetStatus,
                 IsRechargingOrderStale, ledgerVars,
      procVars
<1>29. ASSUME Tick PROVE CreationInv'
    BY <1>29 DEF TypeOK, CreationInv, LocalsInv, PaidInv, PaymentNotForgotten,
      Tick, ledgerVars, procVars
<1>30. CASE UNCHANGED vars
    BY <1>30 DEF TypeOK, CreationInv, LocalsInv, PaidInv, PaymentNotForgotten,
      vars, rowVars, ledgerVars, procVars
<1> QED
    BY <1>1, <1>2, <1>3, <1>4, <1>5, <1>6, <1>7, <1>8, <1>9, <1>10, <1>11,
      <1>12, <1>13, <1>14, <1>15, <1>16, <1>17, <1>18, <1>19, <1>20, <1>21,
      <1>22, <1>23, <1>24, <1>25, <1>26, <1>27, <1>28, <1>29, <1>30, <1>31,
      <1>32 DEF Next,
      Start, Step


\* A handler's local status stays what its next statement expects.
LEMMA LocalsStep ==
    ASSUME TypeOK, LocalsInv, PaidInv, [Next]_vars
    PROVE  LocalsInv'
<1>1. ASSUME NEW w \in Workers, CheckPendingLimit(w) PROVE LocalsInv'
    BY <1>1 DEF TypeOK, LocalsInv, PaidInv, CheckPendingLimit, Keep, Continue,
      rowVars, ledgerVars
<1>2. ASSUME NEW w \in Workers, NEW o \in Orders, HandlePaymentNotification(w, o) PROVE LocalsInv'
    BY <1>2 DEF TypeOK, LocalsInv, PaidInv, HandlePaymentNotification, Begin,
      rowVars, ledgerVars
<1>3. ASSUME NEW w \in Workers, NEW o \in Orders, RetryFulfillment(w, o) PROVE LocalsInv'
    BY <1>3 DEF TypeOK, LocalsInv, PaidInv, RetryFulfillment, Begin,
      SetStatus, ledgerVars
<1>4. ASSUME NEW w \in Workers, NEW o \in Orders, AdminManualFulfillOrder(w, o) PROVE LocalsInv'
    BY <1>4 DEF TypeOK, LocalsInv, PaidInv, AdminManualFulfillOrder, Begin,
      IsRechargingOrderStale, rowVars, ledgerVars
<1>5. ASSUME NEW w \in Workers, NEW o \in Orders, CancelOrder(w, o) PROVE LocalsInv'
    BY <1>5 DEF TypeOK, LocalsInv, PaidInv, CancelOrder, Begin, rowVars,
      ledgerVars
<1>6. ASSUME NEW w \in Workers, NEW o \in Orders, ExpireTimedOutOrder(w, o) PROVE LocalsInv'
    BY <1>6 DEF TypeOK, LocalsInv, PaidInv, ExpireTimedOutOrder, Begin,
      rowVars, ledgerVars
<1>7. ASSUME NEW w \in Workers, NEW o \in Orders, VerifyOrderByOutTradeNo(w, o) PROVE LocalsInv'
    BY <1>7 DEF TypeOK, LocalsInv, PaidInv, VerifyOrderByOutTradeNo, Begin,
      rowVars, ledgerVars
<1>8. ASSUME NEW w \in Workers, InsertOrder(w) PROVE LocalsInv'
    BY <1>8 DEF TypeOK, LocalsInv, PaidInv, InsertOrder, Continue, SetStatus,
      ledgerVars
<1>9. ASSUME NEW w \in Workers, CreatePayment(w) PROVE LocalsInv'
    BY <1>9 DEF TypeOK, LocalsInv, PaidInv, CreatePayment, Keep, Continue,
      rowVars, ledgerVars
<1>10. ASSUME NEW w \in Workers, SavePaymentDetails(w) PROVE LocalsInv'
    BY <1>10 DEF TypeOK, LocalsInv, PaidInv, SavePaymentDetails, Keep,
      Continue, ledgerVars
<1>11. ASSUME NEW w \in Workers, FailCreate(w) PROVE LocalsInv'
    BY <1>11 DEF TypeOK, LocalsInv, PaidInv, FailCreate, Keep, SetStatus,
      Continue, ledgerVars
<1>12. ASSUME NEW w \in Workers, ToPaid(w) PROVE LocalsInv'
    BY <1>12 DEF TypeOK, LocalsInv, PaidInv, ToPaid, Keep, SetStatus, Payable,
      Continue, ledgerVars
<1>13. ASSUME NEW w \in Workers, AlreadyProcessed(w) PROVE LocalsInv'
    BY <1>13 DEF TypeOK, LocalsInv, PaidInv, AlreadyProcessed, Keep, Continue,
      rowVars, ledgerVars
<1>14. ASSUME NEW w \in Workers, Claim(w) PROVE LocalsInv'
    BY <1>14 DEF TypeOK, LocalsInv, PaidInv, Claim, Keep, SetStatus, Continue,
      ledgerVars
<1>15. ASSUME NEW w \in Workers, ResolveRedeemAction(w) PROVE LocalsInv'
    BY <1>15 DEF TypeOK, LocalsInv, PaidInv, ResolveRedeemAction, Keep,
      Continue, rowVars, ledgerVars
<1>16. ASSUME NEW w \in Workers, CreateCode(w) PROVE LocalsInv'
    BY <1>16 DEF TypeOK, LocalsInv, PaidInv, CreateCode, Keep, Continue,
      rowVars
<1>17. ASSUME NEW w \in Workers, Redeem(w) PROVE LocalsInv'
    BY <1>17 DEF TypeOK, LocalsInv, PaidInv, Redeem, Keep, Continue, rowVars
<1>18. ASSUME NEW w \in Workers, CheckSubscription(w) PROVE LocalsInv'
    BY <1>18 DEF TypeOK, LocalsInv, PaidInv, CheckSubscription, Keep,
      Continue, rowVars, ledgerVars
<1>19. ASSUME NEW w \in Workers, AssignSubscription(w) PROVE LocalsInv'
    BY <1>19 DEF TypeOK, LocalsInv, PaidInv, AssignSubscription, Keep,
      Continue, rowVars
<1>20. ASSUME NEW w \in Workers, MarkCompleted(w) PROVE LocalsInv'
    BY <1>20 DEF TypeOK, LocalsInv, PaidInv, MarkCompleted, Keep, SetStatus,
      Continue, ledgerVars
<1>21. ASSUME NEW w \in Workers, WriteSuccessAudit(w) PROVE LocalsInv'
    BY <1>21 DEF TypeOK, LocalsInv, PaidInv, WriteSuccessAudit, Keep,
      Continue, rowVars
<1>22. ASSUME NEW w \in Workers, MarkFailed(w) PROVE LocalsInv'
    BY <1>22 DEF TypeOK, LocalsInv, PaidInv, MarkFailed, Keep, SetStatus,
      Continue, ledgerVars
<1>23. ASSUME NEW w \in Workers, MarkPaidManually(w) PROVE LocalsInv'
    BY <1>23 DEF TypeOK, LocalsInv, PaidInv, MarkPaidManually, Keep,
      SetStatus, Continue, ledgerVars
<1>24. ASSUME NEW w \in Workers, CheckPaid(w) PROVE LocalsInv'
    BY <1>24 DEF TypeOK, LocalsInv, PaidInv, CheckPaid, Keep, Continue,
      ledgerVars
<1>25. ASSUME NEW w \in Workers, CancelCore(w) PROVE LocalsInv'
    BY <1>25 DEF TypeOK, LocalsInv, PaidInv, CancelCore, Keep, SetStatus,
      Continue, ledgerVars
<1>26. ASSUME NEW w \in Workers, Crash(w) PROVE LocalsInv'
    BY <1>26 DEF TypeOK, LocalsInv, PaidInv, Crash, Keep, Continue, rowVars,
      ledgerVars
<1>31. ASSUME NEW w \in Workers, RejectPayment(w) PROVE LocalsInv'
    BY <1>31 DEF TypeOK, LocalsInv, PaidInv, RejectPayment, Keep, Continue, rowVars,
      ledgerVars
<1>32. ASSUME NEW w \in Workers, StatementFails(w) PROVE LocalsInv'
    BY <1>32 DEF TypeOK, LocalsInv, PaidInv, StatementFails, Keep, Continue, rowVars,
      ledgerVars
<1>27. ASSUME NEW o \in Orders, UserPays(o) PROVE LocalsInv'
    BY <1>27 DEF TypeOK, LocalsInv, PaidInv, UserPays, Collected, rowVars, ledgerVars,
      procVars
<1>28. ASSUME NEW o \in Orders, FailStaleRecharging(o) PROVE LocalsInv'
    BY <1>28 DEF TypeOK, LocalsInv, PaidInv, FailStaleRecharging, SetStatus,
      IsRechargingOrderStale, ledgerVars, procVars
<1>29. ASSUME Tick PROVE LocalsInv'
    BY <1>29 DEF TypeOK, LocalsInv, PaidInv, Tick, ledgerVars, procVars
<1>30. CASE UNCHANGED vars
    BY <1>30 DEF TypeOK, LocalsInv, PaidInv, vars, rowVars, ledgerVars,
      procVars
<1> QED
    BY <1>1, <1>2, <1>3, <1>4, <1>5, <1>6, <1>7, <1>8, <1>9, <1>10, <1>11,
      <1>12, <1>13, <1>14, <1>15, <1>16, <1>17, <1>18, <1>19, <1>20, <1>21,
      <1>22, <1>23, <1>24, <1>25, <1>26, <1>27, <1>28, <1>29, <1>30, <1>31,
      <1>32 DEF Next,
      Start, Step


\* paid_at is set only with a payment behind it and never left behind.
LEMMA PaidStep ==
    ASSUME TypeOK, CreationInv, LocalsInv, PaidInv, [Next]_vars
    PROVE  PaidInv'
<1>1. ASSUME NEW w \in Workers, CheckPendingLimit(w) PROVE PaidInv'
    BY <1>1 DEF TypeOK, CreationInv, LocalsInv, PaidInv, PaymentNotForgotten,
      AfterPayment, CheckPendingLimit, Keep, Continue, rowVars, ledgerVars
<1>2. ASSUME NEW w \in Workers, NEW o \in Orders, HandlePaymentNotification(w, o) PROVE PaidInv'
    BY <1>2 DEF TypeOK, CreationInv, LocalsInv, PaidInv, PaymentNotForgotten,
      AfterPayment, HandlePaymentNotification, Begin, rowVars, ledgerVars
<1>3. ASSUME NEW w \in Workers, NEW o \in Orders, RetryFulfillment(w, o) PROVE PaidInv'
    BY <1>3 DEF TypeOK, CreationInv, LocalsInv, PaidInv, PaymentNotForgotten,
      AfterPayment, RetryFulfillment, Begin, SetStatus, ledgerVars
<1>4. ASSUME NEW w \in Workers, NEW o \in Orders, AdminManualFulfillOrder(w, o) PROVE PaidInv'
    BY <1>4 DEF TypeOK, CreationInv, LocalsInv, PaidInv, PaymentNotForgotten,
      AfterPayment, AdminManualFulfillOrder, Begin, IsRechargingOrderStale,
      rowVars, ledgerVars
<1>5. ASSUME NEW w \in Workers, NEW o \in Orders, CancelOrder(w, o) PROVE PaidInv'
    BY <1>5 DEF TypeOK, CreationInv, LocalsInv, PaidInv, PaymentNotForgotten,
      AfterPayment, CancelOrder, Begin, rowVars, ledgerVars
<1>6. ASSUME NEW w \in Workers, NEW o \in Orders, ExpireTimedOutOrder(w, o) PROVE PaidInv'
    BY <1>6 DEF TypeOK, CreationInv, LocalsInv, PaidInv, PaymentNotForgotten,
      AfterPayment, ExpireTimedOutOrder, Begin, rowVars, ledgerVars
<1>7. ASSUME NEW w \in Workers, NEW o \in Orders, VerifyOrderByOutTradeNo(w, o) PROVE PaidInv'
    BY <1>7 DEF TypeOK, CreationInv, LocalsInv, PaidInv, PaymentNotForgotten,
      AfterPayment, VerifyOrderByOutTradeNo, Begin, rowVars, ledgerVars
<1>8. ASSUME NEW w \in Workers, InsertOrder(w) PROVE PaidInv'
    BY <1>8 DEF TypeOK, CreationInv, LocalsInv, PaidInv, PaymentNotForgotten,
      AfterPayment, InsertOrder, Continue, SetStatus, ledgerVars
<1>9. ASSUME NEW w \in Workers, CreatePayment(w) PROVE PaidInv'
    BY <1>9 DEF TypeOK, CreationInv, LocalsInv, PaidInv, PaymentNotForgotten,
      AfterPayment, CreatePayment, Keep, Continue, rowVars, ledgerVars
<1>10. ASSUME NEW w \in Workers, SavePaymentDetails(w) PROVE PaidInv'
    BY <1>10 DEF TypeOK, CreationInv, LocalsInv, PaidInv, PaymentNotForgotten,
      AfterPayment, SavePaymentDetails, Keep, Continue, ledgerVars
<1>11. ASSUME NEW w \in Workers, FailCreate(w) PROVE PaidInv'
    BY <1>11 DEF TypeOK, CreationInv, LocalsInv, PaidInv, PaymentNotForgotten,
      AfterPayment, FailCreate, Keep, SetStatus, Continue, ledgerVars
<1>12. ASSUME NEW w \in Workers, ToPaid(w) PROVE PaidInv'
    BY SMTT(20), <1>12 DEF TypeOK, CreationInv, LocalsInv, PaidInv, PaymentNotForgotten,
      AfterPayment, ToPaid, Confirms, Keep, SetStatus, Payable, Continue, ledgerVars
<1>13. ASSUME NEW w \in Workers, AlreadyProcessed(w) PROVE PaidInv'
    BY <1>13 DEF TypeOK, CreationInv, LocalsInv, PaidInv, PaymentNotForgotten,
      AfterPayment, AlreadyProcessed, Keep, Continue, rowVars, ledgerVars
<1>14. ASSUME NEW w \in Workers, Claim(w) PROVE PaidInv'
    BY <1>14 DEF TypeOK, CreationInv, LocalsInv, PaidInv, PaymentNotForgotten,
      AfterPayment, Claim, Keep, SetStatus, Continue, ledgerVars
<1>15. ASSUME NEW w \in Workers, ResolveRedeemAction(w) PROVE PaidInv'
    BY <1>15 DEF TypeOK, CreationInv, LocalsInv, PaidInv, PaymentNotForgotten,
      AfterPayment, ResolveRedeemAction, Keep, Continue, rowVars, ledgerVars
<1>16. ASSUME NEW w \in Workers, CreateCode(w) PROVE PaidInv'
    BY <1>16 DEF TypeOK, CreationInv, LocalsInv, PaidInv, PaymentNotForgotten,
      AfterPayment, CreateCode, Keep, Continue, rowVars
<1>17. ASSUME NEW w \in Workers, Redeem(w) PROVE PaidInv'
    BY <1>17 DEF TypeOK, CreationInv, LocalsInv, PaidInv, PaymentNotForgotten,
      AfterPayment, Redeem, Keep, Continue, rowVars
<1>18. ASSUME NEW w \in Workers, CheckSubscription(w) PROVE PaidInv'
    BY <1>18 DEF TypeOK, CreationInv, LocalsInv, PaidInv, PaymentNotForgotten,
      AfterPayment, CheckSubscription, Keep, Continue, rowVars, ledgerVars
<1>19. ASSUME NEW w \in Workers, AssignSubscription(w) PROVE PaidInv'
    BY <1>19 DEF TypeOK, CreationInv, LocalsInv, PaidInv, PaymentNotForgotten,
      AfterPayment, AssignSubscription, Keep, Continue, rowVars
<1>20. ASSUME NEW w \in Workers, MarkCompleted(w) PROVE PaidInv'
    BY <1>20 DEF TypeOK, CreationInv, LocalsInv, PaidInv, PaymentNotForgotten,
      AfterPayment, MarkCompleted, Keep, SetStatus, Continue, ledgerVars
<1>21. ASSUME NEW w \in Workers, WriteSuccessAudit(w) PROVE PaidInv'
    BY <1>21 DEF TypeOK, CreationInv, LocalsInv, PaidInv, PaymentNotForgotten,
      AfterPayment, WriteSuccessAudit, Keep, Continue, rowVars
<1>22. ASSUME NEW w \in Workers, MarkFailed(w) PROVE PaidInv'
    BY <1>22 DEF TypeOK, CreationInv, LocalsInv, PaidInv, PaymentNotForgotten,
      AfterPayment, MarkFailed, Keep, SetStatus, Continue, ledgerVars
<1>23. ASSUME NEW w \in Workers, MarkPaidManually(w) PROVE PaidInv'
  <2>1. CASE arg[w] = "PAID"
    BY <1>23, <2>1 DEF TypeOK, CreationInv, LocalsInv, PaidInv, PaymentNotForgotten,
      AfterPayment, MarkPaidManually, Keep, Continue, ledgerVars
  <2>2. CASE arg[w] # "PAID" /\ status[job[w]] = arg[w]
    BY <1>23, <2>2 DEF TypeOK, PaidInv, PaymentNotForgotten, AfterPayment,
      MarkPaidManually, Keep, SetStatus, Continue, ledgerVars
  <2>3. CASE arg[w] # "PAID" /\ status[job[w]] # arg[w]
    BY <1>23, <2>3 DEF TypeOK, PaidInv, PaymentNotForgotten, AfterPayment,
      MarkPaidManually, Keep, Continue, ledgerVars
  <2> QED  BY <2>1, <2>2, <2>3
<1>24. ASSUME NEW w \in Workers, CheckPaid(w) PROVE PaidInv'
    BY <1>24 DEF TypeOK, CreationInv, LocalsInv, PaidInv, PaymentNotForgotten,
      AfterPayment, CheckPaid, Keep, Continue, ledgerVars
<1>25. ASSUME NEW w \in Workers, CancelCore(w) PROVE PaidInv'
    BY <1>25 DEF TypeOK, CreationInv, LocalsInv, PaidInv, PaymentNotForgotten,
      AfterPayment, CancelCore, Keep, SetStatus, Continue, ledgerVars
<1>26. ASSUME NEW w \in Workers, Crash(w) PROVE PaidInv'
    BY <1>26 DEF TypeOK, CreationInv, LocalsInv, PaidInv, PaymentNotForgotten,
      AfterPayment, Crash, Keep, Continue, rowVars, ledgerVars
<1>31. ASSUME NEW w \in Workers, RejectPayment(w) PROVE PaidInv'
    BY <1>31 DEF TypeOK, CreationInv, LocalsInv, PaidInv, PaymentNotForgotten,
      AfterPayment, RejectPayment, Keep, Continue, rowVars, ledgerVars
<1>32. ASSUME NEW w \in Workers, StatementFails(w) PROVE PaidInv'
    BY <1>32 DEF TypeOK, CreationInv, LocalsInv, PaidInv, PaymentNotForgotten,
      AfterPayment, StatementFails, Keep, Continue, rowVars, ledgerVars
<1>27. ASSUME NEW o \in Orders, UserPays(o) PROVE PaidInv'
    BY <1>27 DEF TypeOK, CreationInv, LocalsInv, PaidInv, PaymentNotForgotten,
      AfterPayment, UserPays, Collected, rowVars, ledgerVars, procVars
<1>28. ASSUME NEW o \in Orders, FailStaleRecharging(o) PROVE PaidInv'
    BY <1>28 DEF TypeOK, CreationInv, LocalsInv, PaidInv, PaymentNotForgotten,
      AfterPayment, FailStaleRecharging, SetStatus,
                 IsRechargingOrderStale,
      ledgerVars, procVars
<1>29. ASSUME Tick PROVE PaidInv'
    BY <1>29 DEF TypeOK, CreationInv, LocalsInv, PaidInv, PaymentNotForgotten,
      AfterPayment, Tick, ledgerVars, procVars
<1>30. CASE UNCHANGED vars
    BY <1>30 DEF TypeOK, CreationInv, LocalsInv, PaidInv, PaymentNotForgotten,
      AfterPayment, vars, rowVars, ledgerVars, procVars
<1> QED
    BY <1>1, <1>2, <1>3, <1>4, <1>5, <1>6, <1>7, <1>8, <1>9, <1>10, <1>11,
      <1>12, <1>13, <1>14, <1>15, <1>16, <1>17, <1>18, <1>19, <1>20, <1>21,
      <1>22, <1>23, <1>24, <1>25, <1>26, <1>27, <1>28, <1>29, <1>30, <1>31,
      <1>32 DEF Next,
      Start, Step


\* The code is consumed with the credit, so there is at most one.
LEMMA CodeStep ==
    ASSUME TypeOK, CodeInv, [Next]_vars
    PROVE  CodeInv'
<1>1. ASSUME NEW w \in Workers, CheckPendingLimit(w) PROVE CodeInv'
    BY <1>1, OrderTypesAssumption DEF TypeOK, CodeInv, Orders,
      CheckPendingLimit, Keep, Continue, rowVars, ledgerVars
<1>2. ASSUME NEW w \in Workers, NEW o \in Orders, HandlePaymentNotification(w, o) PROVE CodeInv'
    BY <1>2, OrderTypesAssumption DEF TypeOK, CodeInv, Orders,
      HandlePaymentNotification, Begin, rowVars, ledgerVars
<1>3. ASSUME NEW w \in Workers, NEW o \in Orders, RetryFulfillment(w, o) PROVE CodeInv'
    BY <1>3, OrderTypesAssumption DEF TypeOK, CodeInv, Orders,
      RetryFulfillment, Begin, SetStatus, ledgerVars
<1>4. ASSUME NEW w \in Workers, NEW o \in Orders, AdminManualFulfillOrder(w, o) PROVE CodeInv'
    BY <1>4, OrderTypesAssumption DEF TypeOK, CodeInv, Orders,
      AdminManualFulfillOrder, Begin, IsRechargingOrderStale, rowVars,
      ledgerVars
<1>5. ASSUME NEW w \in Workers, NEW o \in Orders, CancelOrder(w, o) PROVE CodeInv'
    BY <1>5, OrderTypesAssumption DEF TypeOK, CodeInv, Orders, CancelOrder,
      Begin, rowVars, ledgerVars
<1>6. ASSUME NEW w \in Workers, NEW o \in Orders, ExpireTimedOutOrder(w, o) PROVE CodeInv'
    BY <1>6, OrderTypesAssumption DEF TypeOK, CodeInv, Orders,
      ExpireTimedOutOrder, Begin, rowVars, ledgerVars
<1>7. ASSUME NEW w \in Workers, NEW o \in Orders, VerifyOrderByOutTradeNo(w, o) PROVE CodeInv'
    BY <1>7, OrderTypesAssumption DEF TypeOK, CodeInv, Orders,
      VerifyOrderByOutTradeNo, Begin, rowVars, ledgerVars
<1>8. ASSUME NEW w \in Workers, InsertOrder(w) PROVE CodeInv'
    BY <1>8, OrderTypesAssumption DEF TypeOK, CodeInv, Orders, InsertOrder,
      Continue, SetStatus, ledgerVars
<1>9. ASSUME NEW w \in Workers, CreatePayment(w) PROVE CodeInv'
    BY <1>9, OrderTypesAssumption DEF TypeOK, CodeInv, Orders, CreatePayment,
      Keep, Continue, rowVars, ledgerVars
<1>10. ASSUME NEW w \in Workers, SavePaymentDetails(w) PROVE CodeInv'
    BY <1>10, OrderTypesAssumption DEF TypeOK, CodeInv, Orders,
      SavePaymentDetails, Keep, Continue, ledgerVars
<1>11. ASSUME NEW w \in Workers, FailCreate(w) PROVE CodeInv'
    BY <1>11, OrderTypesAssumption DEF TypeOK, CodeInv, Orders, FailCreate,
      Keep, SetStatus, Continue, ledgerVars
<1>12. ASSUME NEW w \in Workers, ToPaid(w) PROVE CodeInv'
    BY <1>12, OrderTypesAssumption DEF TypeOK, CodeInv, Orders, ToPaid, Keep,
      SetStatus, Payable, Continue, ledgerVars
<1>13. ASSUME NEW w \in Workers, AlreadyProcessed(w) PROVE CodeInv'
    BY <1>13, OrderTypesAssumption DEF TypeOK, CodeInv, Orders,
      AlreadyProcessed, Keep, Continue, rowVars, ledgerVars
<1>14. ASSUME NEW w \in Workers, Claim(w) PROVE CodeInv'
    BY <1>14, OrderTypesAssumption DEF TypeOK, CodeInv, Orders, Claim, Keep,
      SetStatus, Continue, ledgerVars
<1>15. ASSUME NEW w \in Workers, ResolveRedeemAction(w) PROVE CodeInv'
    BY <1>15, OrderTypesAssumption DEF TypeOK, CodeInv, Orders,
      ResolveRedeemAction, Keep, Continue, rowVars, ledgerVars
<1>16. ASSUME NEW w \in Workers, CreateCode(w) PROVE CodeInv'
    BY <1>16, OrderTypesAssumption DEF TypeOK, CodeInv, Orders, CreateCode,
      Keep, Continue, rowVars
<1>17. ASSUME NEW w \in Workers, Redeem(w) PROVE CodeInv'
    BY <1>17, OrderTypesAssumption DEF TypeOK, CodeInv, Orders, Redeem, Keep,
      Continue, rowVars
<1>18. ASSUME NEW w \in Workers, CheckSubscription(w) PROVE CodeInv'
    BY <1>18, OrderTypesAssumption DEF TypeOK, CodeInv, Orders,
      CheckSubscription, Keep, Continue, rowVars, ledgerVars
<1>19. ASSUME NEW w \in Workers, AssignSubscription(w) PROVE CodeInv'
    BY <1>19, OrderTypesAssumption DEF TypeOK, CodeInv, Orders,
      AssignSubscription, Keep, Continue, rowVars
<1>20. ASSUME NEW w \in Workers, MarkCompleted(w) PROVE CodeInv'
    BY <1>20, OrderTypesAssumption DEF TypeOK, CodeInv, Orders, MarkCompleted,
      Keep, SetStatus, Continue, ledgerVars
<1>21. ASSUME NEW w \in Workers, WriteSuccessAudit(w) PROVE CodeInv'
    BY <1>21, OrderTypesAssumption DEF TypeOK, CodeInv, Orders,
      WriteSuccessAudit, Keep, Continue, rowVars
<1>22. ASSUME NEW w \in Workers, MarkFailed(w) PROVE CodeInv'
    BY <1>22, OrderTypesAssumption DEF TypeOK, CodeInv, Orders, MarkFailed,
      Keep, SetStatus, Continue, ledgerVars
<1>23. ASSUME NEW w \in Workers, MarkPaidManually(w) PROVE CodeInv'
    BY <1>23, OrderTypesAssumption DEF TypeOK, CodeInv, Orders,
      MarkPaidManually, Keep, SetStatus, Continue, ledgerVars
<1>24. ASSUME NEW w \in Workers, CheckPaid(w) PROVE CodeInv'
    BY <1>24, OrderTypesAssumption DEF TypeOK, CodeInv, Orders, CheckPaid,
      Keep, Continue, ledgerVars
<1>25. ASSUME NEW w \in Workers, CancelCore(w) PROVE CodeInv'
    BY <1>25, OrderTypesAssumption DEF TypeOK, CodeInv, Orders, CancelCore,
      Keep, SetStatus, Continue, ledgerVars
<1>26. ASSUME NEW w \in Workers, Crash(w) PROVE CodeInv'
    BY <1>26, OrderTypesAssumption DEF TypeOK, CodeInv, Orders, Crash, Keep,
      Continue, rowVars, ledgerVars
<1>31. ASSUME NEW w \in Workers, RejectPayment(w) PROVE CodeInv'
    BY <1>31, OrderTypesAssumption DEF TypeOK, CodeInv, Orders, RejectPayment, Keep,
      Continue, rowVars, ledgerVars
<1>32. ASSUME NEW w \in Workers, StatementFails(w) PROVE CodeInv'
    BY <1>32, OrderTypesAssumption DEF TypeOK, CodeInv, Orders, StatementFails, Keep,
      Continue, rowVars, ledgerVars
<1>27. ASSUME NEW o \in Orders, UserPays(o) PROVE CodeInv'
    BY <1>27, OrderTypesAssumption DEF TypeOK, CodeInv, Orders, UserPays,
      rowVars, ledgerVars, procVars
<1>28. ASSUME NEW o \in Orders, FailStaleRecharging(o) PROVE CodeInv'
    BY <1>28, OrderTypesAssumption DEF TypeOK, CodeInv, Orders,
      FailStaleRecharging, SetStatus,
                 IsRechargingOrderStale, ledgerVars,
      procVars
<1>29. ASSUME Tick PROVE CodeInv'
    BY <1>29, OrderTypesAssumption DEF TypeOK, CodeInv, Orders, Tick,
      ledgerVars, procVars
<1>30. CASE UNCHANGED vars
    BY <1>30 DEF TypeOK, CodeInv, Orders, vars, rowVars, ledgerVars, procVars
<1> QED
    BY <1>1, <1>2, <1>3, <1>4, <1>5, <1>6, <1>7, <1>8, <1>9, <1>10, <1>11,
      <1>12, <1>13, <1>14, <1>15, <1>16, <1>17, <1>18, <1>19, <1>20, <1>21,
      <1>22, <1>23, <1>24, <1>25, <1>26, <1>27, <1>28, <1>29, <1>30, <1>31,
      <1>32 DEF Next,
      Start, Step


\* Whoever records a success has seen the grant, and grants are never undone.
LEMMA GrantStep ==
    ASSUME TypeOK, LocalsInv, GrantInv, [Next]_vars
    PROVE  GrantInv'
<1>1. ASSUME NEW w \in Workers, CheckPendingLimit(w) PROVE GrantInv'
    BY <1>1 DEF TypeOK, LocalsInv, GrantInv, CompletedIsGranted,
      CheckPendingLimit, Keep, Continue, rowVars, ledgerVars
<1>2. ASSUME NEW w \in Workers, NEW o \in Orders, HandlePaymentNotification(w, o) PROVE GrantInv'
    BY <1>2 DEF TypeOK, LocalsInv, GrantInv, CompletedIsGranted,
      HandlePaymentNotification, Begin, rowVars, ledgerVars
<1>3. ASSUME NEW w \in Workers, NEW o \in Orders, RetryFulfillment(w, o) PROVE GrantInv'
    BY <1>3 DEF TypeOK, LocalsInv, GrantInv, CompletedIsGranted,
      RetryFulfillment, Begin, SetStatus, ledgerVars
<1>4. ASSUME NEW w \in Workers, NEW o \in Orders, AdminManualFulfillOrder(w, o) PROVE GrantInv'
    BY <1>4 DEF TypeOK, LocalsInv, GrantInv, CompletedIsGranted,
      AdminManualFulfillOrder, Begin, IsRechargingOrderStale, rowVars,
      ledgerVars
<1>5. ASSUME NEW w \in Workers, NEW o \in Orders, CancelOrder(w, o) PROVE GrantInv'
    BY <1>5 DEF TypeOK, LocalsInv, GrantInv, CompletedIsGranted, CancelOrder,
      Begin, rowVars, ledgerVars
<1>6. ASSUME NEW w \in Workers, NEW o \in Orders, ExpireTimedOutOrder(w, o) PROVE GrantInv'
    BY <1>6 DEF TypeOK, LocalsInv, GrantInv, CompletedIsGranted,
      ExpireTimedOutOrder, Begin, rowVars, ledgerVars
<1>7. ASSUME NEW w \in Workers, NEW o \in Orders, VerifyOrderByOutTradeNo(w, o) PROVE GrantInv'
    BY <1>7 DEF TypeOK, LocalsInv, GrantInv, CompletedIsGranted,
      VerifyOrderByOutTradeNo, Begin, rowVars, ledgerVars
<1>8. ASSUME NEW w \in Workers, InsertOrder(w) PROVE GrantInv'
    BY <1>8 DEF TypeOK, LocalsInv, GrantInv, CompletedIsGranted, InsertOrder,
      Continue, SetStatus, ledgerVars
<1>9. ASSUME NEW w \in Workers, CreatePayment(w) PROVE GrantInv'
    BY <1>9 DEF TypeOK, LocalsInv, GrantInv, CompletedIsGranted,
      CreatePayment, Keep, Continue, rowVars, ledgerVars
<1>10. ASSUME NEW w \in Workers, SavePaymentDetails(w) PROVE GrantInv'
    BY <1>10 DEF TypeOK, LocalsInv, GrantInv, CompletedIsGranted,
      SavePaymentDetails, Keep, Continue, ledgerVars
<1>11. ASSUME NEW w \in Workers, FailCreate(w) PROVE GrantInv'
    BY <1>11 DEF TypeOK, LocalsInv, GrantInv, CompletedIsGranted, FailCreate,
      Keep, SetStatus, Continue, ledgerVars
<1>12. ASSUME NEW w \in Workers, ToPaid(w) PROVE GrantInv'
    BY <1>12 DEF TypeOK, LocalsInv, GrantInv, CompletedIsGranted, ToPaid,
      Keep, SetStatus, Payable, Continue, ledgerVars
<1>13. ASSUME NEW w \in Workers, AlreadyProcessed(w) PROVE GrantInv'
    BY <1>13 DEF TypeOK, LocalsInv, GrantInv, CompletedIsGranted,
      AlreadyProcessed, Keep, Continue, rowVars, ledgerVars
<1>14. ASSUME NEW w \in Workers, Claim(w) PROVE GrantInv'
    BY <1>14 DEF TypeOK, LocalsInv, GrantInv, CompletedIsGranted, Claim, Keep,
      SetStatus, Continue, ledgerVars
<1>15. ASSUME NEW w \in Workers, ResolveRedeemAction(w) PROVE GrantInv'
    BY <1>15 DEF TypeOK, LocalsInv, GrantInv, CompletedIsGranted,
      ResolveRedeemAction, Keep, Continue, rowVars, ledgerVars
<1>16. ASSUME NEW w \in Workers, CreateCode(w) PROVE GrantInv'
    BY <1>16 DEF TypeOK, LocalsInv, GrantInv, CompletedIsGranted, CreateCode,
      Keep, Continue, rowVars
<1>17. ASSUME NEW w \in Workers, Redeem(w) PROVE GrantInv'
    BY <1>17 DEF TypeOK, LocalsInv, GrantInv, CompletedIsGranted, Redeem,
      Keep, Continue, rowVars
<1>18. ASSUME NEW w \in Workers, CheckSubscription(w) PROVE GrantInv'
    BY <1>18 DEF TypeOK, LocalsInv, GrantInv, CompletedIsGranted,
      CheckSubscription, Keep, Continue, rowVars, ledgerVars
<1>19. ASSUME NEW w \in Workers, AssignSubscription(w) PROVE GrantInv'
    BY <1>19 DEF TypeOK, LocalsInv, GrantInv, CompletedIsGranted,
      AssignSubscription, Keep, Continue, rowVars
<1>20. ASSUME NEW w \in Workers, MarkCompleted(w) PROVE GrantInv'
    BY <1>20 DEF TypeOK, LocalsInv, GrantInv, CompletedIsGranted,
      MarkCompleted, Keep, SetStatus, Continue, ledgerVars
<1>21. ASSUME NEW w \in Workers, WriteSuccessAudit(w) PROVE GrantInv'
    BY <1>21 DEF TypeOK, LocalsInv, GrantInv, CompletedIsGranted,
      WriteSuccessAudit, Keep, Continue, rowVars
<1>22. ASSUME NEW w \in Workers, MarkFailed(w) PROVE GrantInv'
    BY <1>22 DEF TypeOK, LocalsInv, GrantInv, CompletedIsGranted, MarkFailed,
      Keep, SetStatus, Continue, ledgerVars
<1>23. ASSUME NEW w \in Workers, MarkPaidManually(w) PROVE GrantInv'
    BY <1>23 DEF TypeOK, LocalsInv, GrantInv, CompletedIsGranted,
      MarkPaidManually, Keep, SetStatus, Continue, ledgerVars
<1>24. ASSUME NEW w \in Workers, CheckPaid(w) PROVE GrantInv'
    BY <1>24 DEF TypeOK, LocalsInv, GrantInv, CompletedIsGranted, CheckPaid,
      Keep, Continue, ledgerVars
<1>25. ASSUME NEW w \in Workers, CancelCore(w) PROVE GrantInv'
    BY <1>25 DEF TypeOK, LocalsInv, GrantInv, CompletedIsGranted, CancelCore,
      Keep, SetStatus, Continue, ledgerVars
<1>26. ASSUME NEW w \in Workers, Crash(w) PROVE GrantInv'
    BY <1>26 DEF TypeOK, LocalsInv, GrantInv, CompletedIsGranted, Crash, Keep,
      Continue, rowVars, ledgerVars
<1>31. ASSUME NEW w \in Workers, RejectPayment(w) PROVE GrantInv'
    BY <1>31 DEF TypeOK, LocalsInv, GrantInv, CompletedIsGranted, RejectPayment, Keep,
      Continue, rowVars, ledgerVars
<1>32. ASSUME NEW w \in Workers, StatementFails(w) PROVE GrantInv'
    BY <1>32 DEF TypeOK, LocalsInv, GrantInv, CompletedIsGranted, StatementFails, Keep,
      Continue, rowVars, ledgerVars
<1>27. ASSUME NEW o \in Orders, UserPays(o) PROVE GrantInv'
    BY <1>27 DEF TypeOK, LocalsInv, GrantInv, CompletedIsGranted, UserPays,
      rowVars, ledgerVars, procVars
<1>28. ASSUME NEW o \in Orders, FailStaleRecharging(o) PROVE GrantInv'
    BY <1>28 DEF TypeOK, LocalsInv, GrantInv, CompletedIsGranted,
      FailStaleRecharging, SetStatus,
                 IsRechargingOrderStale, ledgerVars,
      procVars
<1>29. ASSUME Tick PROVE GrantInv'
    BY <1>29 DEF TypeOK, LocalsInv, GrantInv, CompletedIsGranted, Tick,
      ledgerVars, procVars
<1>30. CASE UNCHANGED vars
    BY <1>30 DEF TypeOK, LocalsInv, GrantInv, CompletedIsGranted, vars,
      rowVars, ledgerVars, procVars
<1> QED
    BY <1>1, <1>2, <1>3, <1>4, <1>5, <1>6, <1>7, <1>8, <1>9, <1>10, <1>11,
      <1>12, <1>13, <1>14, <1>15, <1>16, <1>17, <1>18, <1>19, <1>20, <1>21,
      <1>22, <1>23, <1>24, <1>25, <1>26, <1>27, <1>28, <1>29, <1>30, <1>31,
      <1>32 DEF Next,
      Start, Step

-----------------------------------------------------------------------------
\* The inductive invariant holds initially ...
LEMMA InitIInv == Init => IInv
<1> SUFFICES ASSUME Init PROVE IInv
    OBVIOUS
<1>1. TypeOK
    BY TimeAssumption, BoundAssumption DEF Init, TypeOK, AgeCap,
      RechargingTimeout, Statuses, RefundStatuses, Labels
<1>2. CreationInv /\ LocalsInv
    BY DEF Init, CreationInv, LocalsInv
<1>3. PaidInv
    BY DEF Init, PaidInv, PaymentNotForgotten, AfterPayment
<1>4. CodeInv /\ GrantInv
    BY DEF Init, CodeInv, GrantInv, CompletedIsGranted, Orders
<1> QED
    BY <1>1, <1>2, <1>3, <1>4 DEF IInv

\* ... is kept by every step ...
LEMMA StepIInv == IInv /\ [Next]_vars => IInv'
BY TypeStep, CreationStep, LocalsStep, PaidStep, CodeStep, GrantStep DEF IInv

\* ... and so always holds.
THEOREM InvariantHolds == Spec => []IInv
BY InitIInv, StepIInv, PTL DEF Spec

\* Type correctness of the order rows and of the handlers' locals.
THEOREM TypeCorrect == Spec => []TypeOK
<1>1. IInv => TypeOK
    BY DEF IInv
<1> QED
    BY <1>1, InvariantHolds, PTL

\* A top-up is credited at most once for any number of concurrent webhooks,
\* retries, time-outs and aborts of ExecuteBalanceFulfillment.
THEOREM BalanceOnce == Spec => []BalanceGrantedOnce
<1>1. IInv => BalanceGrantedOnce
    BY DEF IInv, CodeInv, BalanceGrantedOnce
<1> QED
    BY <1>1, InvariantHolds, PTL

\* markCompleted never reports an order COMPLETED whose value was not granted.
THEOREM CompletedGranted == Spec => []CompletedIsGranted
<1>1. IInv => CompletedIsGranted
    BY DEF IInv, GrantInv
<1> QED
    BY <1>1, InvariantHolds, PTL

\* Every grant goes back to a payment the provider reported or an admin's word.
THEOREM GrantBacked == Spec => []GrantIsBacked
<1>1. IInv => GrantIsBacked
    BY DEF IInv, PaidInv, GrantIsBacked
<1> QED
    BY <1>1, InvariantHolds, PTL

\* cancelCore and the expiry job never bury an order with paid_at set.
THEOREM PaymentKept == Spec => []PaymentNotForgotten
<1>1. IInv => PaymentNotForgotten
    BY DEF IInv, PaidInv
<1> QED
    BY <1>1, InvariantHolds, PTL

\* Every writer of the status column but CreateOrder's error path states in its
\* UPDATE which statuses it leaves, and COMPLETED is none of them.
LEMMA KeepsCompletedStep ==
    ASSUME TypeOK, LocalsInv, [Next]_vars
    PROVE  [KeepsCompleted]_vars
<1>1. ASSUME NEW w \in Workers, InsertOrder(w) PROVE KeepsCompleted
    BY <1>1 DEF TypeOK, LocalsInv, KeepsCompleted, InsertOrder, SetStatus
<1>2. ASSUME NEW w \in Workers, FailCreate(w) PROVE KeepsCompleted
    BY <1>2 DEF TypeOK, LocalsInv, KeepsCompleted, FailCreate, SetStatus
<1>3. ASSUME NEW w \in Workers, ToPaid(w) PROVE KeepsCompleted
    BY <1>3 DEF TypeOK, LocalsInv, KeepsCompleted, ToPaid, SetStatus, Payable
<1>4. ASSUME NEW w \in Workers, Claim(w) PROVE KeepsCompleted
    BY <1>4 DEF TypeOK, LocalsInv, KeepsCompleted, Claim, SetStatus
<1>5. ASSUME NEW w \in Workers, MarkCompleted(w) PROVE KeepsCompleted
    BY <1>5 DEF TypeOK, LocalsInv, KeepsCompleted, MarkCompleted, SetStatus
<1>6. ASSUME NEW w \in Workers, MarkFailed(w) PROVE KeepsCompleted
    BY <1>6 DEF TypeOK, LocalsInv, KeepsCompleted, MarkFailed, SetStatus
<1>7. ASSUME NEW w \in Workers, MarkPaidManually(w) PROVE KeepsCompleted
    BY <1>7 DEF TypeOK, LocalsInv, KeepsCompleted, MarkPaidManually, SetStatus
<1>8. ASSUME NEW w \in Workers, CancelCore(w) PROVE KeepsCompleted
    BY <1>8 DEF TypeOK, LocalsInv, KeepsCompleted, CancelCore, SetStatus
<1>9. ASSUME NEW w \in Workers, NEW o \in Orders, RetryFulfillment(w, o) PROVE KeepsCompleted
    BY <1>9 DEF TypeOK, LocalsInv, KeepsCompleted, RetryFulfillment, SetStatus
<1>10. ASSUME NEW o \in Orders, FailStaleRecharging(o) PROVE KeepsCompleted
    BY <1>10 DEF TypeOK, LocalsInv, KeepsCompleted, FailStaleRecharging, SetStatus,
                 IsRechargingOrderStale
<1>11. CASE UNCHANGED status
    BY <1>11 DEF KeepsCompleted
<1> QED
    BY <1>1, <1>2, <1>3, <1>4, <1>5, <1>6, <1>7, <1>8, <1>9, <1>10, <1>11
      DEF Next, Start, Step, vars, rowVars, CheckPendingLimit, Crash, UserPays, Tick,
      HandlePaymentNotification, AdminManualFulfillOrder, CancelOrder, ExpireTimedOutOrder,
      VerifyOrderByOutTradeNo, RejectPayment, StatementFails, CreatePayment,
      SavePaymentDetails, AlreadyProcessed, ResolveRedeemAction, CreateCode, Redeem,
      CheckSubscription, AssignSubscription, WriteSuccessAudit, CheckPaid

\* COMPLETED orders are final, but for the request that is still creating them.
THEOREM CompletedFinal == Spec => CompletedIsFinal
<1>1. IInv /\ [Next]_vars => [KeepsCompleted]_vars
    BY KeepsCompletedStep DEF IInv
<1> QED
    BY <1>1, InvariantHolds, PTL DEF Spec, CompletedIsFinal
=============================================================================
