SPECIFICATION LiveSpec
CONSTANTS
    MaxStarts = 1
    MaxRuns = 1
    MaxDeliveries = 2
    MaxFaults = 1
    MaxProgress = 1
    Plans = {"empty", "clean", "clashing"}
INVARIANT ConflictsHavePlan
INVARIANT SettledStatus
PROPERTY RunsLeaveSolving
