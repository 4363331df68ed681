SPECIFICATION FairSpec
CONSTANTS
  Workers = {w1, w2}
  Cancellers = {c1}
  None = None
  Hold = 2
  Balances = {1, 2}
  OtherHolds = {0, 2}
  Costs = {1, 3}
  MaxRetries = 1
  MaxFaults = 2
  MaxReady = 2
INVARIANTS TypeOK SettledOnce CompletedIsCharged GivenUpIsAborted HoldInCustody
PROPERTIES LedgerSpec JobEnds
CHECK_DEADLOCK FALSE
