SPECIFICATION Spec
CONSTANTS
    NReq = 3
    Keys = {k}
    Variants = {a}
    QueueSize = 1
    IdleLimit = TRUE
    Batches = {1}
    MaxRounds = 0
INVARIANT OneRunsPerKey
\* Requests end; an agent nobody asks anything does nothing.
CHECK_DEADLOCK FALSE
