\* A callback answered between the watchdog's read and its write.
SPECIFICATION Spec
CONSTANTS
    MaxStarts = 1
    MaxRuns = 1
    MaxDeliveries = 1
    MaxFaults = 0
    MaxProgress = 0
    Plans = {"clean"}
PROPERTY WatchdogFlipsOnlySolving
