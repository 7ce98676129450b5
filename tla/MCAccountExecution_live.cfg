SPECIFICATION FairSpec
CONSTANTS
    Locked = {c1}
    Workspace = {t1}
    Worker = {w1}
    Manager = {m1}
    SchedulerOutcomes = {"stopped", "busy", "unavailable", "uninventoried"}
    PublicationOutcomes = {TRUE, FALSE}
    MaxGeneration = 1
PROPERTIES
    HoldSettles
