SPECIFICATION FairSpec
CONSTANTS
    Sats = {s1, s2}
    Elements = {e1, e2}
    MaxTriples = 3
    Catalogues <- MCCatalogues
INVARIANTS
    NothingMissed
    DeathExplained
PROPERTIES
    CatchesUp
CHECK_DEADLOCK FALSE
