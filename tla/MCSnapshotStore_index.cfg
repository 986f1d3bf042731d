SPECIFICATION Spec
CONSTANTS
    NHosts = 1
    NPorts = 2
    Workers = {w1, w2}
    w1 = w1
    w2 = w2
    Keeps = {1}
    MaxDelete = 1
    MaxTime = 2
    MaxBackups = 2
    MaxPreviews = 1
    MaxRebuilds = 2
    MaxCrashes = 1
    MaxFaults = 1
SYMMETRY WorkerSymmetry
INVARIANTS
    AggregatesExact
    NoSilentLoss
CHECK_DEADLOCK FALSE
