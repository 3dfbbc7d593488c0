SPECIFICATION FairSpec
CONSTANTS
    j1 = j1
    t1 = t1
    t2 = t2
    None = None
    Jobs = {j1}
    Tasks = {t1, t2}
    Kind <- Materials
    MaxAttempts = 3
    MaxManual = 1
    Faults <- RedeliveryFaults
    MaxFaults = 2
INVARIANTS
    NothingIsLost
PROPERTIES
    Settles
\* A job at rest with every message acknowledged ends the behaviour.
CHECK_DEADLOCK FALSE
