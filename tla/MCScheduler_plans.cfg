SPECIFICATION FairSpec
CONSTANTS
    p1 = p1
    p2 = p2
    Plan = {p1, p2}
    Once = {p1}
    Controlled = {p2}
    Slots = 1
    LastDay = 1
    MaxGeneration = 1
    MaxFailures = 1
INVARIANTS
    StopReportIsTrue
PROPERTIES
    LateRunKeepsControl
    KeepsSchedule
    DueIsRun
CHECK_DEADLOCK FALSE
