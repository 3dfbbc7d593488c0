SPECIFICATION Spec
CONSTANTS
    Jobs = {j1, j2}
    Kinds = {tex, pdf}
    Approvers = {a1}
    MaxBuilds = 2
    MaxTroubles = 1
SYMMETRY Symmetry
\* Every job completed: nothing is left to do.
CHECK_DEADLOCK FALSE
INVARIANTS
    
    ReviewedIsWhole
    AvailableIsStored
