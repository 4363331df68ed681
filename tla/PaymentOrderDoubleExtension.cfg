SPECIFICATION Spec
CONSTANTS
    BalanceOrders = {}
    SubscriptionOrders = {s1}
    Workers = {w1}
    s1 = s1
    w1 = w1
    Grace = 1
    OrderTimeout = 1
    MaxPending = 1
    MaxAborts = 0
    MaxGrants = 2
INVARIANTS
    SubscriptionGrantedOnce
