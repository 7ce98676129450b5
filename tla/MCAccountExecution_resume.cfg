SPECIFICATION Spec
CONSTANTS
    Locked = {c1}
    Workspace = {t1}
    Worker = {w1}
    Manager = {m1}
    SchedulerOutcomes = {"stopped", "uninventoried"}
    PublicationOutcomes = {TRUE}
    MaxGeneration = 2
INVARIANTS
    GrantsFollowAccount
PROPERTIES
    QuarantineFreezes
    ResumedFromProof
    LateStopIsHarmless
    CompletedIsFinal
