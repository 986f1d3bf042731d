SPECIFICATION Spec
CONSTANTS
    NReq = 3
    Keys = {k}
    Variants = {a, b}
    QueueSize = 1
    IdleLimit = TRUE
    Batches = {1}
    MaxRounds = 1
SYMMETRY VariantSymmetry
INVARIANTS
    TypeOK
    PoolOffersOpen
    WaitersAreQueued
PROPERTIES
    AbortOnlyUnusable
\* Requests end; an agent nobody asks anything does nothing.
CHECK_DEADLOCK FALSE
