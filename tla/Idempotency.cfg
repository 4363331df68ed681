CONSTANTS
    r1 = r1
    r2 = r2
    r3 = r3
    r4 = r4
    f1 = f1
    f2 = f2
    Requests = {r1, r2, r3}
    Bodies = {r1, r2, r3}
    Fingerprints = {f1, f2}
    Fingerprint <- MCFingerprint
    TTL = 3
    ProcessingTimeout = 2
    FailedRetryBackoff = 1
    MaxClock = 6
SPECIFICATION Spec
SYMMETRY RequestSymmetry
INVARIANTS OneOwner OneEffectPerLife
PROPERTIES ReplaysLatest
CHECK_DEADLOCK FALSE
