SPECIFICATION SocketSpec
CONSTANTS
    i1 = i1
    g1 = g1
    g2 = g2
    q1 = q1
    s1 = s1
    s2 = s2
    h1 = h1
    h2 = h2
    Invitations = {i1}
    Guests = {g1}
    Requests = {q1}
    Asks = {"ticket"}
    Sockets = {s1}
    Handlers = {h1, h2}
    MaxQueue = 1
    Times = {"invitation", "retention"}
    MaxAccess = 2
    MaxBoardAccess = 2
INVARIANTS
    LiveCookieIsCurrent
    RevocationHeard
    FlagFollowsRights
    
PROPERTIES
    RevokedSocketsClose
CHECK_DEADLOCK FALSE
