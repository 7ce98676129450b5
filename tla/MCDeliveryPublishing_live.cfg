SPECIFICATION FairSpec
CONSTANTS
    k1 = k1
    k2 = k2
    c1 = c1
    c2 = c2
    c3 = c3
    p1 = p1
    m1 = m1
    m2 = m2
    Key = {k2}
    Command = {c3}
    Automatic = {c3}
    KeyOf <- KeyOfCommand
    RevOf <- RevOfCommand
    Publisher = {p1}
    Manifest = {m1, m2}
    Events = {"p0", "revise", "hold", "delete", "crash"}
    MaxGeneration = 1
    MaxRevision = 2
PROPERTY CommitSettles
CHECK_DEADLOCK FALSE
