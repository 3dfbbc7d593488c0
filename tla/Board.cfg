SPECIFICATION Spec
CONSTANTS
    k1 = k1
    k2 = k2
    k3 = k3
    a = a
    b = b
    x = x
    y = y
    s1 = s1
    s2 = s2
    NoDigest = NoDigest
    Keys = {k1, k2}
    Digests = {x, y}
    Makers = {a}
    Savers = {s1, s2}
    MaxRevision = 2
    MaxLamport = 1
    MaxDamage = 1
SYMMETRY Symmetry
INVARIANTS
    SnapshotsSound
    CountersAgree
    PurgeLeavesNothing
    EvidenceKeepsSnapshot
PROPERTIES
    JournalIsLog
\* A purged board is the end.
CHECK_DEADLOCK FALSE
