SPECIFICATION Spec
CONSTANTS
    MaxStarts = 2
    MaxRuns = 1
    MaxDeliveries = 1
    MaxFaults = 1
    MaxProgress = 0
    Plans = {"clashing"}
CONSTRAINT NoStopInFlight
INVARIANT TypeOK
INVARIANT AtMostOneActive
INVARIANT RunLimit
PROPERTY ImplementsSchoolRuns
