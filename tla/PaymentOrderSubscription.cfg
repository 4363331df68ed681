SPECIFICATION FairSpec
CONSTANTS
    BalanceOrders = {}
    SubscriptionOrders = {s1}
    Workers = {w1, w2}
    s1 = s1
    w1 = w1
    w2 = w2
    Grace = 1
    OrderTimeout = 1
    MaxPending = 1
    MaxAborts = 1
    MaxGrants = 2
PROPERTIES
    RechargingEnds
    PendingEnds
    PaidEndsUnlessAborted
