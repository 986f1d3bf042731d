SPECIFICATION Spec
CONSTANTS
    NHosts = 1
    NPorts = 1
    Workers = {w1, w2}
    w1 = w1
    w2 = w2
    Keeps = {1, 2}
    MaxDelete = 2
    MaxTime = 4
    MaxBackups = 4
    MaxPreviews = 2
    MaxRebuilds = 0
    MaxCrashes = 1
    MaxFaults = 1
SYMMETRY WorkerSymmetry
INVARIANTS
    TypeOK
PROPERTIES
    NewestSurvives
    OnlyPreviewedRemoved
CHECK_DEADLOCK FALSE
