SPECIFICATION FairSpec
CONSTANTS
    QueueWorkers = 2
    MaxCancels = 2
    MaxCrashes = 1
    MaxFaults = 1
INVARIANTS
    TypeOK
    SettledIsQuiet
    OneContainer
PROPERTIES
    CancelIsFinal
    KeepsRun
    StopSettles
CHECK_DEADLOCK FALSE
