SPECIFICATION Spec
CONSTANTS
    NSched = 2
    MaxRuns = 3
    MaxJobs = 2
    MaxKept = 1
    MaxCrashes = 1
    MaxFaults = 1
INVARIANTS
    TypeOK
    TablesAgree
    OneActiveJobPerSchedule
    NoStrandedClaim
    NoUntrackedJob
    VerdictsAreTrue
PROPERTIES
    HistoryIsFinal
