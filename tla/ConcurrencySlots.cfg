\* Two requests compete for one slot, of their user or of the account, in a
\* process that may die and in a second one that may start beside it.
CONSTANTS
    Requests = {r1, r2}
    Processes = {p1, p2}
    Running = {p1}
    Limits <- OneSlot
    QueueLimit = 1
    TTL = 1
    MaxLag = 1
    MaxFaults = 1
SPECIFICATION FairSpec
INVARIANTS HolderIsCounted WithinLimit QueueIsBounded NobodyCountedInVain
CHECK_DEADLOCK FALSE
PROPERTIES RequestsEnd Drains
