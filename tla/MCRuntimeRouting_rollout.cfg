SPECIFICATION Spec
CONSTANTS
    g1 = g1
    g2 = g2
    s1 = s1
    s2 = s2
    s3 = s3
    a1 = a1
    a2 = a2
    r1 = r1
    r2 = r2
    c1 = c1
    c2 = c2
    GateId = {g1, g2}
    Snapshot = {s1, s2, s3}
    ChecksOf <- SnapshotChecks
    PassedOf <- SnapshotPassed
    Approval = {a1, a2}
    Admin = {c1}
    Request = {r1, r2}
    Task = {t1}
    Genesis = genesis
    MaxRevision = 2
SYMMETRY Interchangeable
INVARIANTS
    RoutingInvariant
    LegacyStays
PROPERTIES
    PiOnlyWhileOpen
    KeepsRollout
CHECK_DEADLOCK FALSE
