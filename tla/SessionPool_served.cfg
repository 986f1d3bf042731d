SPECIFICATION FairSpec
CONSTANTS
    NReq = 3
    Keys = {k}
    Variants = {a}
    QueueSize = 1
    IdleLimit = TRUE
    Batches = {0, 2}
    MaxRounds = 0
PROPERTIES
    ServedUnlessAbandoned
    ClosingCloses
\* Requests end; an agent nobody asks anything does nothing.
CHECK_DEADLOCK FALSE
