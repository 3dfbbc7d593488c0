SPECIFICATION Spec
CONSTANTS
    i1 = i1
    g1 = g1
    g2 = g2
    q1 = q1
    q2 = q2
    u1 = u1
    u2 = u2
    u3 = u3
    x = x
    y = y
    NoContent = NoContent
    Invitations = {i1}
    Guests = {g1}
    Requests = {q1, q2}
    UploadIds = {u1, u2, u3}
    Contents = {x, y}
    Parts = 1
    MaxActive = 1
    Times = {"retention"}
    MaxAccess = 2
    MaxBoardAccess = 1
    Asks = {"context", "mutation"}
SYMMETRY Symmetry
INVARIANTS
    
    
    UploadsSound
CHECK_DEADLOCK FALSE
