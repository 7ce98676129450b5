SPECIFICATION FairSpec
CONSTANTS
    QueueWorkers = 2
    MaxCancels = 1
    MaxCrashes = 0
    MaxFaults = 0
PROPERTY CancelBeforeRunSettles
CHECK_DEADLOCK FALSE
