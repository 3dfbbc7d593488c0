SPECIFICATION Spec
CONSTANTS
    Users = {a, b, c}
    Admins = {a}
    Invitations = {i1, i2}
    Requests = {q1, q2}
    InviteRoles = {"admin", "student"}
SYMMETRY Symmetry
INVARIANTS
    AdminRemains
    MembersWereInvited
    NobodyIsStuck
PROPERTIES
    InvitationOpensOnce
