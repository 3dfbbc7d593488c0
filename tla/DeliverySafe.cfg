SPECIFICATION Spec
CONSTANTS
    r1 = r1
    r2 = r2
    d1 = d1
    d2 = d2
    w1 = w1
    w2 = w2
    Runs = {r1}
    Dispatchers = {d1, d2}
    Workers = {w1, w2}
    MaxAttempts = 2
    MaxClaims = 4
    MaxResends = 1
    MaxFaults = 2
    Prompt = FALSE
SYMMETRY Symmetry
INVARIANTS
    DeliverySound

    
\* Every event completed or dead: nothing is left to do.
CHECK_DEADLOCK FALSE
