SPECIFICATION Spec
CONSTANTS
    Keys = {k1, k2}
    Contents = {c1, c2}
    Requests = {q1, q2}
    MaxAssets = 1
    Payloads = {p1, p2}
SYMMETRY Symmetry
INVARIANTS
    UploadsSound
    QuotaKept
    NoLateUpload
    FilesSound
\* A purged board takes no further step.
CHECK_DEADLOCK FALSE
