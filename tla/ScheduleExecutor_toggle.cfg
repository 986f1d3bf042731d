SPECIFICATION ToggleSpec
CONSTANTS
    NSched = 1
    MaxRuns = 1
    MaxJobs = 1
    MaxKept = 1
    MaxCrashes = 1
    MaxFaults = 0
PROPERTIES
    ToggleFreesSchedule
