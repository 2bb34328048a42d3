SPECIFICATION FairSpec
CONSTANTS
    Ids = {k1, k2}
    Queries = {q1, q2}
    Callers = {c1, c2}
    Tasks = {t1, t2}
    MaxPrepared = 1
    None = None
INVARIANTS
    CacheBounded
    PreparesOnce
    StaleExplained
    LeaksExplained
    LockServed
PROPERTIES
    CallsEnd
CHECK_DEADLOCK FALSE
