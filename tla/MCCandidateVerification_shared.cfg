SPECIFICATION FairSpec
CONSTANTS
    a0 = a0
    a1 = a1
    a2 = a2
    w1 = w1
    w2 = w2
    Attempt = {a0, a1}
    first = a0
    Worker = {w1, w2}
    Sweeper = {s1}
    UsesProvider = TRUE
    Events = {"hold", "p0", "cancel", "revise", "ruleset", "deliver"}
    MaxGeneration = 1
    MaxRuleset = 1
    MaxStops = 1
INVARIANTS
    TypeOK
    StoppedIsQuiet
    CostIsAccepted
PROPERTIES
    KeepsVerification
    AttemptSettles
CHECK_DEADLOCK FALSE
