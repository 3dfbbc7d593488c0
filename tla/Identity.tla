------------------------------ MODULE Identity ------------------------------
(* The members of one organization, the invitations that make them and the *)
(* access to one student's card (identity/application.py), under the row   *)
(* locks of the database. A request is authorized first and runs its       *)
(* transaction after its form was awaited (identity/routes.py,             *)
(* students/routes.py). A request that waits for a row another one holds   *)
(* is aborted by the database after lock_timeout_ms (db.py), two that wait *)
(* for each other among them.                                              *)
EXTENDS Naturals, FiniteSets

CONSTANTS
    Users,         \* email addresses, a user row or not
    Admins,        \* the admins the organization starts with
    Invitations,   \* invitation rows: a bound on those made
    Requests,      \* requests under way at a time
    InviteRoles    \* bound: roles that invitations are made for

ASSUME UsersAssumption ==
    IsFiniteSet(Users) /\ Admins \subseteq Users /\ Admins # {}
ASSUME RolesAssumption == InviteRoles \subseteq {"admin", "tutor", "student"}

VARIABLES
    member,   \* memberships: [role, active] by user, role "none" without row
    access,   \* student_access of the card by user
    invite,   \* invitations
    req,      \* the requests
    grants    \* history: how often an invitation was accepted

vars == <<member, access, invite, req, grants>>

Roles == {"admin", "tutor", "student"}
Absent == [role |-> "none", active |-> FALSE]
Unmade == [user |-> "none", role |-> "none", accepted |-> FALSE,
           revoked |-> FALSE, expired |-> FALSE]

\* What a request carries: its form, the rows it holds and what it has read.
Idle == [pc |-> "idle", own |-> FALSE, user |-> "none", role |-> "none",
         active |-> FALSE, invite |-> "none", holds |-> {}, read |-> {}]

Pcs == {"idle", "update", "count", "write", "invite", "insert", "accept",
        "grant"}

\* bootstrap makes the organization and its first admin.
Init ==
    /\ member = [u \in Users |->
                   IF u \in Admins THEN [role |-> "admin", active |-> TRUE]
                   ELSE Absent]
    /\ access = [u \in Users |-> "none"]
    /\ invite = [i \in Invitations |-> Unmade]
    /\ req = [r \in Requests |-> Idle]
    /\ grants = [i \in Invitations |-> 0]

IsActive(u, role) == member[u].active /\ member[u].role = role
ActiveAdmins == {u \in Users : IsActive(u, "admin")}

\* The rows are named by the user of a membership and by the invitation.
Free(r, row) == \A q \in Requests \ {r} : row \notin req[q].holds

Ends(r) == req' = [req EXCEPT ![r] = Idle]

-----------------------------------------------------------------------------
(* Requests, as their route authorizes them: principal and switch_workspace*)
(* read the membership anew for each request, before its form is awaited.  *)

AskUpdate(r, actor, u, role, active) ==
    /\ req[r] = Idle
    /\ IsActive(actor, "admin")
    /\ req' = [req EXCEPT ![r] = [Idle EXCEPT !.pc = "update",
                 !.own = (actor = u), !.user = u, !.role = role,
                 !.active = active]]
    /\ UNCHANGED <<member, access, invite, grants>>

\* Only admins invite members, a tutor too invites to a student's card.
AskInvite(r, actor, u, role) ==
    /\ req[r] = Idle
    /\ \/ IsActive(actor, "admin")
       \/ IsActive(actor, "tutor") /\ role = "student"
    /\ req' = [req EXCEPT ![r] = [Idle EXCEPT !.pc = "invite",
                 !.user = u, !.role = role]]
    /\ UNCHANGED <<member, access, invite, grants>>

\* Whoever has the token may come back with it.
AskAccept(r, i) ==
    /\ req[r] = Idle /\ invite[i] # Unmade
    /\ req' = [req EXCEPT ![r] = [Idle EXCEPT !.pc = "accept",
                 !.invite = i]]
    /\ UNCHANGED <<member, access, invite, grants>>

-----------------------------------------------------------------------------
(* update_membership.                                                      *)

RemovesAdmin(r) ==
    /\ member[req[r].user].role = "admin"
    /\ req[r].role # "admin" \/ ~ req[r].active

\* The row is locked and read; nobody puts out himself.
LockTarget(r) ==
    LET u == req[r].user IN
    /\ req[r].pc = "update" /\ Free(r, u)
    /\ IF \/ member[u] = Absent
          \/ req[r].own /\ ~ req[r].active
       THEN Ends(r)
       ELSE req' = [req EXCEPT ![r].holds = {u},
                      ![r].pc = IF RemovesAdmin(r) THEN "count" ELSE "write"]
    /\ UNCHANGED <<member, access, invite, grants>>

\* Mutant: the admins are counted without FOR UPDATE.
CountUnlocked(r) ==
    /\ req[r].pc = "count"
    /\ IF Cardinality(ActiveAdmins) <= 1
       THEN Ends(r)
       ELSE req' = [req EXCEPT ![r].pc = "write"]
    /\ UNCHANGED <<member, access, invite, grants>>

\* _active_admin_count locks the rows it counts: one that another request
\* holds is waited for and counted as that request left it.
CountAdmins(r) ==
    /\ req[r].pc = "count"
    /\ \A u \in ActiveAdmins : Free(r, u)
    /\ IF Cardinality(ActiveAdmins) <= 1
       THEN Ends(r)
       ELSE req' = [req EXCEPT ![r].pc = "write",
                      ![r].holds = @ \cup ActiveAdmins]
    /\ UNCHANGED <<member, access, invite, grants>>

WriteMember(r) ==
    /\ req[r].pc = "write"
    /\ member' = [member EXCEPT ![req[r].user] =
                    [role |-> req[r].role, active |-> req[r].active]]
    /\ Ends(r)
    /\ UNCHANGED <<access, invite, grants>>

-----------------------------------------------------------------------------
(* create_invitation: it reads and writes without a lock.                  *)

Pending(i) == invite[i] # Unmade /\ ~ invite[i].accepted /\ ~ invite[i].revoked

\* A member already, or one with another role, or with access to the card.
Refused(u, role) ==
    \/ role # "student" /\ member[u].active
    \/ member[u].active /\ member[u].role # role
    \/ role = "student" /\ access[u] = "active"

InviteReads(r) ==
    LET u == req[r].user IN
    /\ req[r].pc = "invite"
    /\ IF Refused(u, req[r].role)
       THEN Ends(r)
       ELSE req' = [req EXCEPT ![r].pc = "insert",
              ![r].read = {i \in Invitations : Pending(i) /\ invite[i].user = u
                            /\ (invite[i].role = "student")
                                 = (req[r].role = "student")}]
    /\ UNCHANGED <<member, access, invite, grants>>

InviteWrites(r, i) ==
    /\ req[r].pc = "insert" /\ invite[i] = Unmade
    /\ \A p \in req[r].read : Free(r, p)
    /\ invite' = [p \in Invitations |->
                    IF p = i THEN [Unmade EXCEPT !.user = req[r].user,
                                                 !.role = req[r].role]
                    ELSE IF p \in req[r].read
                    THEN [invite[p] EXCEPT !.revoked = TRUE]
                    ELSE invite[p]]
    /\ Ends(r)
    /\ UNCHANGED <<member, access, grants>>

\* The bound on invitations is reached: the request comes to nothing.
NoMoreInvitations(r) ==
    /\ req[r].pc = "insert" /\ \A i \in Invitations : invite[i] # Unmade
    /\ Ends(r)
    /\ UNCHANGED <<member, access, invite, grants>>

-----------------------------------------------------------------------------
(* accept_invitation and the ways an invitation closes.                    *)

\* Mutant: the invitation is read without FOR UPDATE.
ReadInvitation(r) ==
    LET i == req[r].invite IN
    /\ req[r].pc = "accept"
    /\ IF Pending(i) /\ ~ invite[i].expired
       THEN req' = [req EXCEPT ![r].pc = "grant", ![r].user = invite[i].user,
                      ![r].active = member[invite[i].user].active,
                      ![r].read = {access[invite[i].user]}]
       ELSE Ends(r)
    /\ UNCHANGED <<member, access, invite, grants>>

\* The token's row is locked and must be open; the membership and the access
\* are read without a lock.
LockInvitation(r) ==
    LET i == req[r].invite IN
    /\ req[r].pc = "accept" /\ Free(r, i)
    /\ IF Pending(i) /\ ~ invite[i].expired
       THEN req' = [req EXCEPT ![r].pc = "grant", ![r].holds = {i},
                      ![r].user = invite[i].user,
                      ![r].active = member[invite[i].user].active,
                      ![r].read = {access[invite[i].user]}]
       ELSE Ends(r)
    /\ UNCHANGED <<member, access, invite, grants>>

\* Mutant: the invitation stays open.
GrantOnly(r) ==
    LET i == req[r].invite
        u == req[r].user
        card == invite[i].role = "student"
    IN
    /\ req[r].pc = "grant"
    /\ member[u].role \in {"none", invite[i].role}
    /\ member' = [member EXCEPT ![u] = [role |-> invite[i].role,
                                       active |-> TRUE]]
    /\ access' = IF card THEN [access EXCEPT ![u] = "active"] ELSE access
    /\ UNCHANGED <<invite, grants>>
    /\ Ends(r)

\* Another role than the membership's is a conflict. What was read as active
\* is not written again, what was read otherwise is, whatever it is by now.
Grant(r) ==
    LET i == req[r].invite
        u == req[r].user
        card == invite[i].role = "student"
    IN
    /\ req[r].pc = "grant"
    /\ \/ /\ member[u].role \notin {"none", invite[i].role}
          /\ UNCHANGED <<member, access, invite, grants>>
       \/ /\ member[u].role \in {"none", invite[i].role}
          /\ req[r].active \/ Free(r, u)
          /\ member' = IF req[r].active THEN member
                       ELSE [member EXCEPT ![u] =
                              [role |-> invite[i].role, active |-> TRUE]]
          /\ access' = IF card /\ "active" \notin req[r].read
                       THEN [access EXCEPT ![u] = "active"] ELSE access
          /\ invite' = [invite EXCEPT ![i].accepted = TRUE]
          /\ grants' = [grants EXCEPT ![i] = @ + 1]
    /\ Ends(r)

\* revoke_invitation, revoke_student_invitation
RevokeInvitation(i) ==
    /\ Pending(i) /\ \A r \in Requests : i \notin req[r].holds
    /\ invite' = [invite EXCEPT ![i].revoked = TRUE]
    /\ UNCHANGED <<member, access, req, grants>>

\* revoke_student_access
RevokeAccess(u) ==
    /\ access[u] = "active"
    /\ access' = [access EXCEPT ![u] = "revoked"]
    /\ UNCHANGED <<member, invite, req, grants>>

Expire(i) ==
    /\ Pending(i) /\ ~ invite[i].expired
    /\ invite' = [invite EXCEPT ![i].expired = TRUE]
    /\ UNCHANGED <<member, access, req, grants>>

-----------------------------------------------------------------------------
\* The rows a request cannot go on without.
WaitsFor(r) ==
    CASE req[r].pc = "update" -> {req[r].user}
      [] req[r].pc = "count"  -> ActiveAdmins
      [] req[r].pc = "insert" -> req[r].read
      [] req[r].pc = "accept" -> {req[r].invite}
      [] req[r].pc = "grant" /\ ~ req[r].active -> {req[r].user}
      [] OTHER -> {}

\* Mutant: a wait without end.
NoLockTimeout(r) == UNCHANGED vars /\ FALSE

LockTimeout(r) ==
    /\ \E row \in WaitsFor(r) : ~ Free(r, row)
    /\ Ends(r)
    /\ UNCHANGED <<member, access, invite, grants>>

Step(r) ==
    \/ LockTarget(r) \/ CountAdmins(r) \/ WriteMember(r)
    \/ InviteReads(r) \/ (\E i \in Invitations : InviteWrites(r, i))
    \/ NoMoreInvitations(r)
    \/ LockInvitation(r) \/ Grant(r) \/ LockTimeout(r)

Ask(r) ==
    \/ \E actor, u \in Users :
        \/ \E role \in InviteRoles : AskInvite(r, actor, u, role)
        \/ \E role \in {"admin", "tutor"}, active \in BOOLEAN :
             AskUpdate(r, actor, u, role, active)
    \/ \E i \in Invitations : AskAccept(r, i)

Next ==
    \/ \E r \in Requests : Ask(r) \/ Step(r)
    \/ \E i \in Invitations : RevokeInvitation(i) \/ Expire(i)
    \/ \E u \in Users : RevokeAccess(u)

Spec == Init /\ [][Next]_vars

-----------------------------------------------------------------------------
TypeOK ==
    /\ member \in [Users -> [role : Roles \cup {"none"}, active : BOOLEAN]]
    /\ access \in [Users -> {"none", "active", "revoked"}]
    /\ \A r \in Requests :
        /\ req[r].pc \in Pcs
        /\ req[r].pc \in {"update", "count", "write"} =>
             req[r].user \in Users /\ req[r].role \in Roles

\* An organization always has an active admin, whatever admins do to each
\* other at the same time (update_membership, _active_admin_count).
AdminRemains == ActiveAdmins # {}

\* An invitation is accepted once, and only while it is open: not after it was
\* revoked by its maker or by a newer invitation, though the acceptance reads
\* the account between looking at the invitation and closing it
\* (accept_invitation, revoke_invitation, create_invitation).
InvitationOpensOnce ==
    [][\A i \in Invitations : grants'[i] # grants[i] => Pending(i)]_vars

\* Who has access to the card, or a place among the members beyond the first
\* admins, accepted an invitation for it.
MembersWereInvited ==
    \A u \in Users :
        /\ access[u] # "none" => \E i \in Invitations :
             invite[i].user = u /\ invite[i].role = "student" /\ grants[i] > 0
        /\ u \notin Admins /\ member[u] # Absent =>
             \E i \in Invitations : invite[i].user = u /\ grants[i] > 0

\* No request is stuck: what it waits for is free or the wait is ended, also
\* when two updates hold the admin the other one counts.
NobodyIsStuck == \A r \in Requests : req[r] # Idle => ENABLED Step(r)
=============================================================================
