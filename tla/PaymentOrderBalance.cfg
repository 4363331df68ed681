SPECIFICATION Spec
CONSTANTS
    BalanceOrders = {b1}
    SubscriptionOrders = {}
    Workers = {w1, w2, w3}
    b1 = b1
    w1 = w1
    w2 = w2
    w3 = w3
    Grace = 1
    OrderTimeout = 1
    MaxPending = 1
    MaxAborts = 1
    MaxGrants = 2
SYMMETRY WorkerSymmetry
INVARIANTS
    TypeOK
    BalanceGrantedOnce
    CompletedIsGranted
    GrantIsBacked
    PaymentNotForgotten
PROPERTIES
    CompletedIsFinal
