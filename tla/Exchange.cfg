SPECIFICATION FairSpec
CONSTANTS
    Callbacks = {c1, c2}
    k1 = k1
    k2 = k2
    k3 = k3
    k4 = k4
    Codes = {k1, k2, k3, k4}
    None = None
    Provider <- MCProvider
INVARIANTS RefusalExplained OneLoginPerCode
PROPERTIES RetriesShrink CallbacksEnd
CHECK_DEADLOCK FALSE
