SPECIFICATION Spec
CONSTANTS
    j1 = j1
    t1 = t1
    t2 = t2
    None = None
    Jobs = {j1}
    Tasks = {t1, t2}
    Kind <- PostLesson
    MaxAttempts = 2
    MaxManual = 1
    Faults <- FaultNames
    MaxFaults = 1
INVARIANTS
    NoLeaseWhenParked
    
PROPERTIES
    LeaseKept
    ResultsAreFenced
    CompletedIsFinal
\* A job at rest with every message acknowledged ends the behaviour.
CHECK_DEADLOCK FALSE
