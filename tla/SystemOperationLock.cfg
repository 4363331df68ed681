CONSTANTS
    o1 = o1
    o2 = o2
    o3 = o3
    i1 = i1
    i3 = i3
    Operations = {o1, o2, o3}
    Bodies = {o1, o2, o3}
    Fingerprints = {i1, i3}
    OperationId <- MCOperationId
    Lease = 2
    TTL = 3
    MaxClock = 5
SPECIFICATION Spec
INVARIANTS ExclusiveUntilLapse ReleasedIsAcquirable
CHECK_DEADLOCK FALSE
SYMMETRY Repeats
