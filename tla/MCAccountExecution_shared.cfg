SPECIFICATION Spec
CONSTANTS
    c1 = c1
    t1 = t1
    w1 = w1
    w2 = w2
    m1 = m1
    Locked = {c1}
    Workspace = {t1}
    Worker = {w1, w2}
    Manager = {m1}
    SchedulerOutcomes = {"stopped", "busy", "unavailable"}
    PublicationOutcomes = {TRUE, FALSE}
    MaxGeneration = 1
SYMMETRY Interchangeable
INVARIANTS
    RunnerOwnsBinding
    PausedIsQuiet
    PausedTaskIsQuiet
    CompletedHoldIsQuiet
    ExecutionInvariant
PROPERTIES
    KeepsHolds
