SPECIFICATION FairSpec
CONSTANTS
    NSched = 1
    MaxRuns = 3
    MaxJobs = 2
    MaxKept = 1
    MaxCrashes = 1
    MaxFaults = 1
PROPERTIES
    EveryRunEnds
    DueScheduleServed
    ImplementsSlots
