\* Two workers on one account whose credentials change twice.
CONSTANTS
    w1 = w1
    w2 = w2
    a1 = a1
    a2 = a2
    Workers = {w1, w2}
    Admins = {a1, a2}
    None = None
    Setups <- TwoWorkers
    Threshold = 3
    MaxCreds = 3
SPECIFICATION FairSpec
INVARIANTS OneRefreshAtATime StoredTokenLives ReauthorizationSticks ErrorIsDeserved CacheIsCurrent
PROPERTIES DueIsRefreshed
CHECK_DEADLOCK FALSE
