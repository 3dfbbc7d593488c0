SPECIFICATION PracticeSpec
CONSTANTS
    q1 = q1
    s1 = s1
    s2 = s2
    Requests = {q1}
    Students = {s1, s2}
    Competencies = {1, 2}
    Events <- Answers
    Batches <- Sent
    Plans <- Planned
    Notes <- Noted
    MaxKept = 3
    MaxRevision = 3
    MaxWindow = 3
    BriefLength = 1
    Today = 10
    Spacing <- Strength
SYMMETRY Symmetry
INVARIANTS
    PracticeSound
PROPERTIES
    
    PracticeHelps
