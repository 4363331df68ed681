SPECIFICATION RSpec
CONSTANTS
    BalanceOrders = {b1}
    SubscriptionOrders = {}
    Workers = {w1, w2}
    b1 = b1
    w1 = w1
    w2 = w2
    Grace = 1
    OrderTimeout = 1
    MaxPending = 1
    MaxAborts = 0
    MaxGrants = 1
    Amount = 2
    InitBalance = 0
    InitDays = 0
SYMMETRY WorkerSymmetry
INVARIANTS
    RTypeOK
    RefundIsExclusive
    CalledOffIsUndone
    RefundedIsReturned
PROPERTIES
    NoCreditAfterRefund
