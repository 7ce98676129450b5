SPECIFICATION Spec
CONSTANTS
    k1 = k1
    k2 = k2
    c1 = c1
    c2 = c2
    c3 = c3
    p1 = p1
    p2 = p2
    m1 = m1
    m2 = m2
    m3 = m3
    Key = {k1}
    Command = {c1, c2}
    Automatic = {}
    KeyOf <- KeyOfCommand
    RevOf <- RevOfCommand
    Publisher = {p1, p2}
    Manifest = {m1, m2, m3}
    Events = {"cancel", "revise", "p0", "supersede", "hold", "delete", "crash"}
    MaxGeneration = 1
    MaxRevision = 2
SYMMETRY Interchangeable
INVARIANT PublishingInvariant
INVARIANT DeliveredIsFrozen
INVARIANT FrozenEvidence
INVARIANT OneAnswer
PROPERTY CommitPointIsFinal
PROPERTY DeliveredWhileCurrent
CHECK_DEADLOCK FALSE
