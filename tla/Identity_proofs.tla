-------------------------- MODULE Identity_proofs --------------------------
(***************************************************************************)
(* An admin remains, an invitation opens once and members were invited,    *)
(* for any users, invitations and requests at a time. The argument: what a *)
(* request has read and goes by is in rows it holds, and nobody else       *)
(* writes those.                                                           *)
(***************************************************************************)
EXTENDS Identity, FiniteSetTheorems, TLAPS

rows == <<member, access, invite, grants>>

Cards == {"none", "active", "revoked"}
Made == [user : Users, role : Roles, accepted : BOOLEAN, revoked : BOOLEAN,
         expired : BOOLEAN]
Forms == [pc : Pcs, own : BOOLEAN, user : Users \cup {"none"},
          role : Roles \cup {"none"}, active : BOOLEAN,
          invite : Invitations \cup {"none"}, holds : SUBSET (Users \cup Invitations),
          read : SUBSET (Invitations \cup Cards)]

\* The update that form f is about to write leaves an admin: it makes one, its target
\* is none, or the row of another one is held.
Spares(f) ==
    \/ f.role = "admin" /\ f.active
    \/ member[f.user].role # "admin"
    \/ \E a \in ActiveAdmins : a \in f.holds /\ a # f.user

\* What a request in form f relies on is in rows it holds.
Relies(f) ==
    /\ f.pc \in {"update", "count", "write"} =>
         f.user \in Users /\ f.role \in {"admin", "tutor"}
    /\ f.pc \in {"count", "write"} => f.user \in f.holds /\ member[f.user] # Absent
    /\ f.pc = "write" => Spares(f)
    /\ f.pc \in {"invite", "insert"} => f.user \in Users /\ f.role \in Roles
    /\ f.pc = "insert" => \A i \in Invitations : i \in f.read => invite[i] # Unmade
    /\ f.pc = "accept" => f.invite \in Invitations
    /\ f.pc = "grant" =>
         /\ f.invite \in Invitations /\ f.invite \in f.holds
         /\ Pending(f.invite) /\ f.user = invite[f.invite].user

\* A row is locked by one request.
Disjoint == \A r, q \in Requests : r # q => req[r].holds \cap req[q].holds = {}

RequestsOK == req \in [Requests -> Forms] /\ \A r \in Requests : Relies(req[r])

RowsOK ==
    /\ member \in [Users -> [role : Roles \cup {"none"}, active : BOOLEAN]]
    /\ access \in [Users -> Cards]
    /\ invite \in [Invitations -> {Unmade} \cup Made]
    /\ grants \in [Invitations -> Nat]
    /\ \A i \in Invitations : grants[i] > 0 => invite[i] # Unmade
    /\ AdminRemains /\ MembersWereInvited

IInv == RequestsOK /\ Disjoint /\ RowsOK

-----------------------------------------------------------------------------
(* Requests *)

\* The form of a request that has ended relies on nothing.
LEMMA IdleForm == Idle \in Forms /\ Relies(Idle) /\ Idle.holds = {}
<1>1. Idle \in Forms
  BY DEF Idle, Forms, Pcs
<1>2. Relies(Idle)
  BY DEF Idle, Relies
<1> QED
  BY <1>1, <1>2 DEF Idle

\* A request that holds its rows goes on relying on them.
LEMMA HeldStays ==
    ASSUME RowsOK, NEW f \in Forms, Relies(f),
           \A u \in Users : u \in f.holds => member'[u] = member[u],
           \A i \in Invitations : i \in f.holds /\ Pending(i) =>
               Pending(i)' /\ invite'[i].user = invite[i].user,
           \A i \in Invitations : invite[i] # Unmade => invite'[i] # Unmade
    PROVE  Relies(f)'
<1>1. ASSUME f.pc \in {"count", "write"} PROVE f.user \in f.holds /\ member'[f.user] # Absent
  BY <1>1 DEF Relies
<1>2. ASSUME f.pc = "write" PROVE Spares(f)'
  <2>1. f.user \in Users /\ member'[f.user] = member[f.user]
    BY <1>2 DEF Relies
  <2>2. \A a \in ActiveAdmins : a \in f.holds => a \in ActiveAdmins'
    BY DEF ActiveAdmins, IsActive
  <2>3. Spares(f)
    BY <1>2 DEF Relies
  <2> QED
    BY <2>1, <2>2, <2>3 DEF Spares
<1>3. ASSUME f.pc = "grant"
      PROVE  /\ f.invite \in Invitations /\ f.invite \in f.holds
             /\ Pending(f.invite)' /\ f.user = invite'[f.invite].user
  BY <1>3 DEF Relies
<1> QED
  BY <1>1, <1>2, <1>3 DEF Relies

\* One request moves on to form f, taking only free rows.
LEMMA OneMoves ==
    ASSUME IInv, NEW r \in Requests, NEW f \in Forms, req' = [req EXCEPT ![r] = f],
           \A row \in f.holds : row \in req[r].holds \/ Free(r, row),
           Relies(f)',
           \A q \in Requests \ {r} :
             /\ \A u \in Users : u \in req[q].holds => member'[u] = member[u]
             /\ \A i \in Invitations : i \in req[q].holds /\ Pending(i) =>
                  Pending(i)' /\ invite'[i].user = invite[i].user,
           \A i \in Invitations : invite[i] # Unmade => invite'[i] # Unmade
    PROVE  RequestsOK' /\ Disjoint'
<1>1. /\ req' \in [Requests -> Forms] /\ req'[r] = f
      /\ \A q \in Requests \ {r} : req'[q] = req[q]
  BY DEF IInv, RequestsOK
<1>2. ASSUME NEW q \in Requests PROVE Relies(req[q])'
  <2>1. CASE q = r
    BY <1>1, <2>1
  <2>2. CASE q # r
    <3>1. req[q] \in Forms /\ Relies(req[q]) /\ RowsOK
      BY DEF IInv, RequestsOK
    <3> QED
      BY <1>1, <2>2, <3>1, HeldStays
  <2> QED
    BY <2>1, <2>2
<1>3. ASSUME NEW q \in Requests \ {r} PROVE f.holds \cap req[q].holds = {}
  BY DEF Free, IInv, Disjoint
<1>4. Disjoint'
  BY <1>1, <1>3 DEF IInv, Disjoint
<1> QED
  BY <1>1, <1>2, <1>4 DEF RequestsOK

\* The same when no row is written: what is left is what the new form relies on.
LEMMA OnlyMoves ==
    ASSUME IInv, NEW r \in Requests, NEW f \in Forms, req' = [req EXCEPT ![r] = f],
           \A row \in f.holds : row \in req[r].holds \/ Free(r, row),
           Relies(f), UNCHANGED rows
    PROVE  IInv'
<1>1. RowsOK'
  BY DEF IInv, RowsOK, rows, AdminRemains, ActiveAdmins, IsActive, MembersWereInvited
<1>2. Relies(f)'
  BY DEF Relies, Spares, ActiveAdmins, IsActive, Pending, rows
<1>3. \A i \in Invitations : Pending(i) => Pending(i)' /\ invite'[i].user = invite[i].user
  BY DEF Pending, rows
<1> QED
  BY <1>1, <1>2, <1>3, OneMoves DEF rows, IInv

\* A request ends and no row is written.
LEMMA OnlyEnds ==
    ASSUME IInv, NEW r \in Requests, Ends(r), UNCHANGED rows
    PROVE  IInv'
BY IdleForm, OnlyMoves DEF Ends

\* What a request asks for.
LEMMA Asking ==
    ASSUME IInv, NEW r \in Requests, Ask(r)
    PROVE  IInv'
<1>1. ASSUME NEW actor \in Users, NEW u \in Users, NEW role \in {"admin", "tutor"},
             NEW active \in BOOLEAN, AskUpdate(r, actor, u, role, active)
      PROVE  IInv'
  <2> DEFINE f == [Idle EXCEPT !.pc = "update", !.own = (actor = u), !.user = u,
                               !.role = role, !.active = active]
  <2>1. f \in Forms /\ f.pc = "update" /\ f.user = u /\ f.role = role /\ f.holds = {}
    BY DEF Idle, Forms, Pcs, Roles
  <2>2. req' = [req EXCEPT ![r] = f] /\ UNCHANGED rows
    BY <1>1 DEF AskUpdate, rows
  <2> HIDE DEF f
  <2>3. Relies(f)
    BY <2>1 DEF Relies
  <2> QED
    BY <2>1, <2>2, <2>3, OnlyMoves
<1>2. ASSUME NEW actor \in Users, NEW u \in Users, NEW role \in InviteRoles,
             AskInvite(r, actor, u, role)
      PROVE  IInv'
  <2> DEFINE f == [Idle EXCEPT !.pc = "invite", !.user = u, !.role = role]
  <2>1. role \in Roles
    BY RolesAssumption DEF Roles
  <2>2. f \in Forms /\ f.pc = "invite" /\ f.user = u /\ f.role = role /\ f.holds = {}
    BY <2>1 DEF Idle, Forms, Pcs
  <2>3. req' = [req EXCEPT ![r] = f] /\ UNCHANGED rows
    BY <1>2 DEF AskInvite, rows
  <2> HIDE DEF f
  <2>4. Relies(f)
    BY <2>1, <2>2 DEF Relies
  <2> QED
    BY <2>2, <2>3, <2>4, OnlyMoves
<1>3. ASSUME NEW i \in Invitations, AskAccept(r, i) PROVE IInv'
  <2> DEFINE f == [Idle EXCEPT !.pc = "accept", !.invite = i]
  <2>1. f \in Forms /\ f.pc = "accept" /\ f.invite = i /\ f.holds = {}
    BY DEF Idle, Forms, Pcs
  <2>2. req' = [req EXCEPT ![r] = f] /\ UNCHANGED rows
    BY <1>3 DEF AskAccept, rows
  <2> HIDE DEF f
  <2>3. Relies(f)
    BY <2>1 DEF Relies
  <2> QED
    BY <2>1, <2>2, <2>3, OnlyMoves
<1> QED
  BY <1>1, <1>2, <1>3 DEF Ask

-----------------------------------------------------------------------------
(* update_membership *)

\* The row is locked.
LEMMA Locking ==
    ASSUME IInv, NEW r \in Requests, LockTarget(r)
    PROVE  IInv'
<1> DEFINE u == req[r].user
<1>1. /\ req[r].pc = "update" /\ Free(r, u) /\ UNCHANGED rows
      /\ u \in Users /\ req[r].role \in {"admin", "tutor"} /\ req[r] \in Forms
  BY DEF LockTarget, IInv, RequestsOK, Relies, rows
<1>2. CASE Ends(r)
  BY <1>1, <1>2, OnlyEnds
<1>3. CASE /\ member[u] # Absent
           /\ req' = [req EXCEPT ![r].holds = {u},
                        ![r].pc = IF RemovesAdmin(r) THEN "count" ELSE "write"]
  <2> DEFINE pc == IF RemovesAdmin(r) THEN "count" ELSE "write"
             f == [req[r] EXCEPT !.holds = {u}, !.pc = pc]
  <2>1. req' = [req EXCEPT ![r] = f]
    BY <1>3
  <2>2. pc \in {"count", "write"} /\ (pc = "write" => ~RemovesAdmin(r))
    OBVIOUS
  <2> HIDE DEF pc
  <2>3. f \in Forms
    BY <1>1, <2>2 DEF Forms, Pcs
  <2>4. /\ f.pc = pc /\ f.holds = {u} /\ f.user = u /\ f.role = req[r].role
        /\ f.active = req[r].active
    BY <1>1 DEF Forms
  <2> HIDE DEF f
  <2>5. ASSUME pc = "write" PROVE Spares(f)
    BY <2>2, <2>4, <2>5 DEF RemovesAdmin, Spares
  <2>6. Relies(f)
    BY <1>1, <1>3, <2>2, <2>4, <2>5 DEF Relies
  <2> QED
    BY <1>1, <2>1, <2>3, <2>4, <2>6, OnlyMoves
<1> QED
  BY <1>2, <1>3 DEF LockTarget

\* The admins are counted.
LEMMA Counting ==
    ASSUME IInv, NEW r \in Requests, CountAdmins(r)
    PROVE  IInv'
<1>1. /\ req[r].pc = "count" /\ \A a \in ActiveAdmins : Free(r, a)
      /\ UNCHANGED rows /\ Relies(req[r]) /\ req[r] \in Forms
  BY DEF CountAdmins, IInv, RequestsOK, rows
<1>2. CASE Ends(r)
  BY <1>1, <1>2, OnlyEnds
<1>3. CASE /\ ~(Cardinality(ActiveAdmins) <= 1)
           /\ req' = [req EXCEPT ![r].pc = "write",
                        ![r].holds = @ \cup ActiveAdmins]
  <2> DEFINE f == [req[r] EXCEPT !.pc = "write",
                                 !.holds = req[r].holds \cup ActiveAdmins]
  <2>1. req' = [req EXCEPT ![r] = f]
    BY <1>3
  <2>2. ActiveAdmins \subseteq Users /\ IsFiniteSet(ActiveAdmins)
    <3>1. ActiveAdmins \subseteq Users
      BY DEF ActiveAdmins
    <3> QED
      BY <3>1, UsersAssumption, FS_Subset
  <2>3. PICK a \in ActiveAdmins : a # req[r].user
    <3> SUFFICES ASSUME \A a \in ActiveAdmins : a = req[r].user PROVE FALSE
      OBVIOUS
    <3>1. ActiveAdmins \subseteq {req[r].user}
      OBVIOUS
    <3>2. IsFiniteSet({req[r].user}) /\ Cardinality({req[r].user}) = 1
      BY FS_Singleton
    <3>3. Cardinality(ActiveAdmins) <= 1
      BY <3>1, <3>2, FS_Subset
    <3> QED
      BY <1>3, <3>3
  <2>4. f \in Forms
    BY <1>1, <2>2 DEF Forms, Pcs
  <2>5. /\ f.pc = "write" /\ f.holds = req[r].holds \cup ActiveAdmins
        /\ f.user = req[r].user /\ f.role = req[r].role
    BY <1>1 DEF Forms
  <2> HIDE DEF f
  <2>6. Spares(f)
    BY <2>3, <2>5 DEF Spares
  <2>7. Relies(f)
    BY <1>1, <2>5, <2>6 DEF Relies
  <2> QED
    BY <1>1, <2>1, <2>4, <2>5, <2>7, OnlyMoves
<1> QED
  BY <1>2, <1>3 DEF CountAdmins

\* A membership stays one, whatever is written to it.
LEMMA StaysMember ==
    ASSUME RowsOK, invite' = invite, grants' = grants, access' = access,
           NEW u \in Users, NEW row \in [role : Roles, active : BOOLEAN],
           member[u] # Absent, member' = [member EXCEPT ![u] = row]
    PROVE  MembersWereInvited'
<1>1. \A v \in Users : member'[v] # Absent => member[v] # Absent
  BY DEF RowsOK
<1> QED
  BY <1>1 DEF RowsOK, MembersWereInvited

\* The update is written.
LEMMA Writing ==
    ASSUME IInv, NEW r \in Requests, WriteMember(r)
    PROVE  IInv'
<1> DEFINE u == req[r].user
           row == [role |-> req[r].role, active |-> req[r].active]
<1>1. /\ u \in Users /\ req[r].role \in {"admin", "tutor"} /\ req[r].active \in BOOLEAN
      /\ u \in req[r].holds /\ member[u] # Absent /\ Spares(req[r])
  BY DEF WriteMember, IInv, RequestsOK, Relies, Forms
<1>2. /\ member' = [member EXCEPT ![u] = row] /\ UNCHANGED <<access, invite, grants>>
      /\ req' = [req EXCEPT ![r] = Idle]
  BY DEF WriteMember, Ends
<1>3. row \in [role : Roles, active : BOOLEAN]
  BY <1>1 DEF Roles
<1>4. /\ member' \in [Users -> [role : Roles \cup {"none"}, active : BOOLEAN]]
      /\ \A v \in Users \ {u} : member'[v] = member[v]
      /\ member'[u] = row
  BY <1>1, <1>2, <1>3 DEF IInv, RowsOK
<1>5. AdminRemains'
  <2>1. CASE req[r].role = "admin" /\ req[r].active
    BY <1>1, <1>4, <2>1 DEF AdminRemains, ActiveAdmins, IsActive
  <2>2. CASE member[u].role # "admin"
    <3>1. PICK a \in ActiveAdmins : TRUE
      BY DEF IInv, RowsOK, AdminRemains
    <3>2. a \in Users /\ a # u /\ member[a].active /\ member[a].role = "admin"
      BY <2>2, <3>1 DEF ActiveAdmins, IsActive
    <3> QED
      BY <1>4, <3>2 DEF AdminRemains, ActiveAdmins, IsActive
  <2>3. CASE \E a \in ActiveAdmins : a \in req[r].holds /\ a # u
    BY <1>4, <2>3 DEF AdminRemains, ActiveAdmins, IsActive
  <2> QED
    BY <1>1, <2>1, <2>2, <2>3 DEF Spares
<1>6. MembersWereInvited'
  BY <1>1, <1>2, <1>3, StaysMember DEF IInv
<1>7. RowsOK'
  BY <1>2, <1>4, <1>5, <1>6 DEF IInv, RowsOK
<1>8. \A q \in Requests \ {r} :
        /\ \A v \in Users : v \in req[q].holds => member'[v] = member[v]
        /\ \A i \in Invitations : Pending(i) => Pending(i)' /\ invite'[i].user = invite[i].user
        /\ invite' = invite
  BY <1>1, <1>2, <1>4 DEF IInv, Disjoint, Pending
<1>9. Relies(Idle)' /\ Idle \in Forms /\ Idle.holds = {}
  BY IdleForm DEF Relies, Idle
<1>10. RequestsOK' /\ Disjoint'
  BY <1>2, <1>8, <1>9, OneMoves
<1> QED
  BY <1>7, <1>10 DEF IInv

-----------------------------------------------------------------------------
(* create_invitation *)

\* It reads.
LEMMA Reading ==
    ASSUME IInv, NEW r \in Requests, InviteReads(r)
    PROVE  IInv'
<1> DEFINE open == {i \in Invitations : Pending(i) /\ invite[i].user = req[r].user
                      /\ (invite[i].role = "student") = (req[r].role = "student")}
           f == [req[r] EXCEPT !.pc = "insert", !.read = open]
<1>1. /\ req[r].pc = "invite" /\ UNCHANGED rows /\ Relies(req[r]) /\ req[r] \in Forms
  BY DEF InviteReads, IInv, RequestsOK, rows
<1>2. CASE Ends(r)
  BY <1>1, <1>2, OnlyEnds
<1>3. CASE req' = [req EXCEPT ![r].pc = "insert", ![r].read = open]
  <2>1. req' = [req EXCEPT ![r] = f]
    BY <1>3
  <2>2. open \subseteq Invitations
    OBVIOUS
  <2>6. \A i \in open : invite[i] # Unmade
    BY DEF Pending
  <2> HIDE DEF open
  <2>3. f \in Forms
    BY <1>1, <2>2 DEF Forms, Pcs
  <2>4. /\ f.pc = "insert" /\ f.holds = req[r].holds /\ f.user = req[r].user
        /\ f.role = req[r].role /\ f.read = open
    BY <1>1 DEF Forms
  <2> HIDE DEF f
  <2>5. Relies(f)
    BY <1>1, <2>4, <2>6 DEF Relies
  <2> QED
    BY <1>1, <2>1, <2>3, <2>4, <2>5, OnlyMoves
<1> QED
  BY <1>2, <1>3 DEF InviteReads

\* Invitations that are made keep their addressee, so whoever was invited stays invited.
LEMMA StaysInvited ==
    ASSUME RowsOK, member' = member, grants' = grants,
           \A u \in Users : access[u] = "none" => access'[u] = "none",
           \A i \in Invitations : invite[i] # Unmade =>
               invite'[i].user = invite[i].user /\ invite'[i].role = invite[i].role
    PROVE  MembersWereInvited'
<1>1. ASSUME NEW u \in Users, NEW i \in Invitations, invite[i].user = u, grants[i] > 0
      PROVE  invite'[i].user = u /\ invite'[i].role = invite[i].role /\ grants'[i] > 0
  BY <1>1 DEF RowsOK
<1>2. ASSUME NEW u \in Users, access'[u] # "none"
      PROVE  \E i \in Invitations :
               invite'[i].user = u /\ invite'[i].role = "student" /\ grants'[i] > 0
  <2>1. PICK i \in Invitations :
          invite[i].user = u /\ invite[i].role = "student" /\ grants[i] > 0
    BY <1>2 DEF RowsOK, MembersWereInvited
  <2> QED
    BY <1>1, <2>1
<1>3. ASSUME NEW u \in Users, u \notin Admins, member'[u] # Absent
      PROVE  \E i \in Invitations : invite'[i].user = u /\ grants'[i] > 0
  <2>1. PICK i \in Invitations : invite[i].user = u /\ grants[i] > 0
    BY <1>3 DEF RowsOK, MembersWereInvited
  <2> QED
    BY <1>1, <2>1
<1> QED
  BY <1>2, <1>3 DEF MembersWereInvited

\* Steps on invitations and on access to the card by nobody or by a request that ends.
LEMMA InvitationsChange ==
    ASSUME IInv, member' = member, grants' = grants, access' \in [Users -> Cards],
           \A u \in Users : access[u] = "none" => access'[u] = "none",
           invite' \in [Invitations -> {Unmade} \cup Made],
           \A i \in Invitations : invite[i] # Unmade =>
               /\ invite'[i].user = invite[i].user /\ invite'[i].role = invite[i].role
               /\ invite'[i] # Unmade
    PROVE  RowsOK'
<1>1. MembersWereInvited'
  BY StaysInvited DEF IInv
<1>2. AdminRemains'
  BY DEF IInv, RowsOK, AdminRemains, ActiveAdmins, IsActive
<1> QED
  BY <1>1, <1>2 DEF IInv, RowsOK

\* A made row is not the unmade one.
LEMMA MadeIsMade == ASSUME NEW i \in Made PROVE i # Unmade
BY DEF Made, Unmade, Roles

\* It writes.
LEMMA Inviting ==
    ASSUME IInv, NEW r \in Requests, NEW i \in Invitations, InviteWrites(r, i)
    PROVE  IInv'
<1> DEFINE new == [Unmade EXCEPT !.user = req[r].user, !.role = req[r].role]
<1>1. /\ req[r].pc = "insert" /\ invite[i] = Unmade
      /\ \A p \in req[r].read : Free(r, p)
      /\ req' = [req EXCEPT ![r] = Idle] /\ UNCHANGED <<member, access, grants>>
  BY DEF InviteWrites, Ends
<1>2. req[r].user \in Users /\ req[r].role \in Roles
  BY <1>1 DEF IInv, RequestsOK, Relies
<1>3. new \in Made
  BY <1>2 DEF Unmade, Made
<1>4. invite' = [p \in Invitations |->
                    IF p = i THEN new
                    ELSE IF p \in req[r].read
                    THEN [invite[p] EXCEPT !.revoked = TRUE] ELSE invite[p]]
  BY DEF InviteWrites
<1> HIDE DEF new
<1>5. ASSUME NEW row \in {Unmade} \cup Made
      PROVE  /\ row \in Made => [row EXCEPT !.revoked = TRUE] \in Made
             /\ [row EXCEPT !.revoked = TRUE].user = row.user
             /\ [row EXCEPT !.revoked = TRUE].role = row.role
  BY DEF Made, Unmade
<1>6. \A p \in Invitations : p \in req[r].read => invite[p] \in Made
  BY <1>1 DEF IInv, RequestsOK, Relies, RowsOK
<1>7. /\ invite' \in [Invitations -> {Unmade} \cup Made]
      /\ \A p \in Invitations : invite[p] # Unmade =>
           /\ invite'[p].user = invite[p].user /\ invite'[p].role = invite[p].role
           /\ invite'[p] # Unmade
  <2>1. \A p \in Invitations : invite[p] \in {Unmade} \cup Made
    BY DEF IInv, RowsOK
  <2>2. ASSUME NEW p \in Invitations
        PROVE  /\ invite'[p] \in {Unmade} \cup Made
               /\ invite[p] # Unmade =>
                    /\ invite'[p].user = invite[p].user /\ invite'[p].role = invite[p].role
                    /\ invite'[p] # Unmade
    <3>1. CASE p = i
      BY <1>1, <1>3, <1>4, <3>1
    <3>2. CASE p # i /\ p \in req[r].read
      <4>1. invite'[p] = [invite[p] EXCEPT !.revoked = TRUE] /\ invite[p] \in Made
        BY <1>4, <1>6, <3>2
      <4>2. invite'[p] \in Made
        BY <1>5, <4>1
      <4> QED
        BY <1>5, <4>1, <4>2, MadeIsMade
    <3>3. CASE p # i /\ p \notin req[r].read
      BY <1>4, <2>1, <3>3
    <3> QED
      BY <3>1, <3>2, <3>3
  <2>3. DOMAIN invite' = Invitations /\ invite' = [p \in Invitations |-> invite'[p]]
    BY <1>4
  <2> QED
    BY <2>2, <2>3
<1>8. RowsOK'
  BY <1>1, <1>7, InvitationsChange DEF IInv, RowsOK
<1>9. \A q \in Requests \ {r} : \A p \in Invitations : p \in req[q].holds /\ Pending(p) =>
        Pending(p)' /\ invite'[p].user = invite[p].user
  <2> SUFFICES ASSUME NEW q \in Requests \ {r}, NEW p \in Invitations,
                      p \in req[q].holds, Pending(p)
               PROVE  Pending(p)' /\ invite'[p].user = invite[p].user
    OBVIOUS
  <2>1. p # i /\ p \notin req[r].read
    BY <1>1 DEF Pending, Free
  <2>2. invite'[p] = invite[p]
    BY <1>4, <2>1
  <2> QED
    BY <2>2 DEF Pending
<1>10. Relies(Idle)' /\ Idle \in Forms /\ Idle.holds = {}
  BY IdleForm DEF Relies, Idle
<1>11. RequestsOK' /\ Disjoint'
  BY <1>1, <1>7, <1>9, <1>10, OneMoves
<1> QED
  BY <1>8, <1>11 DEF IInv

-----------------------------------------------------------------------------
(* accept_invitation and the ways an invitation closes *)

\* The invitation is locked and must be open.
LEMMA Opening ==
    ASSUME IInv, NEW r \in Requests, LockInvitation(r)
    PROVE  IInv'
<1> DEFINE i == req[r].invite
           u == invite[i].user
           f == [req[r] EXCEPT !.pc = "grant", !.holds = {i}, !.user = u,
                  !.active = member[u].active, !.read = {access[u]}]
<1>1. /\ req[r].pc = "accept" /\ Free(r, i) /\ i \in Invitations
      /\ UNCHANGED rows /\ req[r] \in Forms
  BY DEF LockInvitation, IInv, RequestsOK, Relies, rows
<1>2. CASE Ends(r)
  BY <1>1, <1>2, OnlyEnds
<1>3. CASE /\ Pending(i)
           /\ req' = [req EXCEPT ![r].pc = "grant", ![r].holds = {i},
                        ![r].user = u, ![r].active = member[u].active,
                        ![r].read = {access[u]}]
  <2>1. req' = [req EXCEPT ![r] = f]
    BY <1>3
  <2>2. u \in Users
    BY <1>1, <1>3 DEF Pending, IInv, RowsOK, Made
  <2>3. member[u].active \in BOOLEAN /\ access[u] \in Cards
    BY <2>2 DEF IInv, RowsOK
  <2>4. f \in Forms
    BY <1>1, <2>2, <2>3 DEF Forms, Pcs
  <2>5. f.pc = "grant" /\ f.holds = {i} /\ f.user = u /\ f.invite = i
    BY <1>1 DEF Forms
  <2> HIDE DEF f
  <2>6. Relies(f)
    BY <1>1, <1>3, <2>5 DEF Relies
  <2> QED
    BY <1>1, <2>1, <2>4, <2>5, <2>6, OnlyMoves
<1> QED
  BY <1>2, <1>3 DEF LockInvitation

\* The membership, the access and the mark on the invitation are written.
LEMMA Granting ==
    ASSUME IInv, NEW r \in Requests, Grant(r)
    PROVE  IInv'
<1> DEFINE i == req[r].invite
           u == req[r].user
           role == invite[i].role
           row == [role |-> role, active |-> TRUE]
<1>1. /\ i \in Invitations /\ i \in req[r].holds /\ Pending(i) /\ u = invite[i].user
      /\ req' = [req EXCEPT ![r] = Idle]
  BY DEF Grant, Ends, IInv, RequestsOK, Relies
<1>2. invite[i] \in Made /\ u \in Users /\ role \in Roles
  BY <1>1 DEF Pending, IInv, RowsOK, Made
<1>3. CASE UNCHANGED rows
  BY <1>1, <1>3, OnlyEnds DEF Ends
<1>4. CASE /\ member[u].role \in {"none", role}
           /\ req[r].active \/ Free(r, u)
           /\ member' = IF req[r].active THEN member ELSE [member EXCEPT ![u] = row]
           /\ access' = IF role = "student" /\ "active" \notin req[r].read
                        THEN [access EXCEPT ![u] = "active"] ELSE access
           /\ invite' = [invite EXCEPT ![i].accepted = TRUE]
           /\ grants' = [grants EXCEPT ![i] = grants[i] + 1]
  <2> HIDE DEF row, role, u, i
  <2>1. row = [role |-> role, active |-> TRUE]
    BY DEF row
  <2>2. /\ member' \in [Users -> [role : Roles \cup {"none"}, active : BOOLEAN]]
        /\ \A v \in Users \ {u} : member'[v] = member[v]
        /\ member'[u] \in {member[u], row}
        /\ req[r].active => member' = member
    BY <1>2, <1>4, <2>1 DEF IInv, RowsOK
  <2>3. /\ access' \in [Users -> Cards]
        /\ \A v \in Users \ {u} : access'[v] = access[v]
        /\ access'[u] # "none" => access[u] # "none" \/ role = "student"
    BY <1>2, <1>4 DEF IInv, RowsOK, Cards
  <2>4. /\ grants' \in [Invitations -> Nat] /\ grants'[i] > 0
        /\ \A p \in Invitations \ {i} : grants'[p] = grants[p]
    BY <1>1, <1>4 DEF IInv, RowsOK
  <2>5. /\ \A p \in Invitations \ {i} : invite'[p] = invite[p]
        /\ invite'[i] = [invite[i] EXCEPT !.accepted = TRUE]
        /\ DOMAIN invite' = Invitations /\ invite' = [p \in Invitations |-> invite'[p]]
    BY <1>1, <1>4 DEF IInv, RowsOK
  <2>6. /\ invite'[i] \in Made /\ invite'[i].user = invite[i].user
        /\ invite'[i].role = invite[i].role
    BY <1>2, <2>5 DEF Made
  <2>7. /\ invite' \in [Invitations -> {Unmade} \cup Made]
        /\ \A p \in Invitations : /\ invite'[p].user = invite[p].user
                                  /\ invite'[p].role = invite[p].role
                                  /\ invite[p] # Unmade => invite'[p] # Unmade
    BY <2>5, <2>6, MadeIsMade DEF IInv, RowsOK
  <2>8. \A p \in Invitations : grants'[p] > 0 => invite'[p] # Unmade
    BY <2>4, <2>5, <2>6, MadeIsMade DEF IInv, RowsOK
  <2>9. AdminRemains'
    <3>1. PICK a \in Users : member[a].active /\ member[a].role = "admin"
      BY DEF IInv, RowsOK, AdminRemains, ActiveAdmins, IsActive
    <3>2. member'[a].active /\ member'[a].role = "admin"
      BY <1>4, <2>1, <2>2, <3>1
    <3> QED
      BY <3>2 DEF AdminRemains, ActiveAdmins, IsActive
  <2>10. \A p \in Invitations : grants[p] > 0 => grants'[p] > 0
    BY <2>4
  <2>11. u = invite'[i].user /\ role = invite'[i].role
    BY <1>1, <2>6 DEF role
  <2>12. ASSUME NEW v \in Users, access'[v] # "none"
         PROVE  \E p \in Invitations :
                  invite'[p].user = v /\ invite'[p].role = "student" /\ grants'[p] > 0
    <3>1. CASE access[v] # "none"
      BY <2>7, <2>10, <3>1 DEF IInv, RowsOK, MembersWereInvited
    <3>2. CASE access[v] = "none"
      BY <1>1, <2>3, <2>4, <2>11, <2>12, <3>2
    <3> QED
      BY <3>1, <3>2
  <2>13. ASSUME NEW v \in Users, v \notin Admins, member'[v] # Absent
         PROVE  \E p \in Invitations : invite'[p].user = v /\ grants'[p] > 0
    <3>1. CASE v # u
      BY <2>2, <2>7, <2>10, <2>13, <3>1 DEF IInv, RowsOK, MembersWereInvited
    <3>2. CASE v = u
      BY <1>1, <2>4, <2>11, <3>2
    <3> QED
      BY <3>1, <3>2
  <2>14. MembersWereInvited'
    BY <2>12, <2>13 DEF MembersWereInvited
  <2>15. RowsOK'
    BY <2>2, <2>3, <2>4, <2>7, <2>8, <2>9, <2>14 DEF RowsOK
  <2>16. \A q \in Requests \ {r} :
           /\ \A v \in Users : v \in req[q].holds => member'[v] = member[v]
           /\ \A p \in Invitations : p \in req[q].holds /\ Pending(p) =>
                Pending(p)' /\ invite'[p].user = invite[p].user
    <3> SUFFICES ASSUME NEW q \in Requests \ {r}
                 PROVE  /\ \A v \in Users : v \in req[q].holds => member'[v] = member[v]
                        /\ \A p \in Invitations : p \in req[q].holds /\ Pending(p) =>
                             Pending(p)' /\ invite'[p].user = invite[p].user
      OBVIOUS
    <3>1. \A v \in Users : v \in req[q].holds => member'[v] = member[v]
      BY <1>4, <2>2 DEF Free
    <3>2. i \notin req[q].holds
      BY <1>1 DEF IInv, Disjoint
    <3>3. \A p \in Invitations : p \in req[q].holds /\ Pending(p) =>
            Pending(p)' /\ invite'[p].user = invite[p].user
      BY <2>5, <3>2 DEF Pending
    <3> QED
      BY <3>1, <3>3
  <2>17. Relies(Idle)' /\ Idle \in Forms /\ Idle.holds = {}
    BY IdleForm DEF Relies, Idle
  <2>18. RequestsOK' /\ Disjoint'
    BY <1>1, <2>7, <2>16, <2>17, OneMoves
  <2> QED
    BY <2>15, <2>18 DEF IInv
<1> QED
  BY <1>3, <1>4 DEF Grant, rows

\* Steps that leave the requests alone.
LEMMA NobodyMoves ==
    ASSUME IInv, req' = req, member' = member, RowsOK',
           \A q \in Requests, i \in Invitations : i \in req[q].holds /\ Pending(i) =>
               Pending(i)' /\ invite'[i].user = invite[i].user,
           \A i \in Invitations : invite[i] # Unmade => invite'[i] # Unmade
    PROVE  IInv'
<1>1. ASSUME NEW q \in Requests PROVE Relies(req[q])'
  <2>1. req[q] \in Forms /\ Relies(req[q]) /\ RowsOK
    BY DEF IInv, RequestsOK
  <2> QED
    BY <2>1, HeldStays
<1>2. RequestsOK' /\ Disjoint'
  BY <1>1 DEF IInv, RequestsOK, Disjoint
<1> QED
  BY <1>2 DEF IInv

\* An invitation is revoked or expires.
LEMMA Closing ==
    ASSUME IInv, NEW i \in Invitations, RevokeInvitation(i) \/ Expire(i)
    PROVE  IInv'
<1>1. Pending(i) /\ UNCHANGED <<member, access, req, grants>>
  BY DEF RevokeInvitation, Expire
<1>2. invite[i] \in Made
  BY <1>1 DEF Pending, IInv, RowsOK
<1>3. PICK row \in Made : /\ row.user = invite[i].user /\ row.role = invite[i].role
                          /\ invite' = [invite EXCEPT ![i] = row]
                          /\ \/ RevokeInvitation(i)
                             \/ /\ row.accepted = invite[i].accepted
                                /\ row.revoked = invite[i].revoked
  <2>1. CASE RevokeInvitation(i)
    <3> DEFINE row == [invite[i] EXCEPT !.revoked = TRUE]
    <3>1. row \in Made /\ row.user = invite[i].user /\ row.role = invite[i].role
      BY <1>2 DEF Made
    <3>2. invite' = [invite EXCEPT ![i] = row]
      BY <2>1 DEF RevokeInvitation
    <3> HIDE DEF row
    <3> QED
      BY <2>1, <3>1, <3>2
  <2>2. CASE Expire(i)
    <3> DEFINE row == [invite[i] EXCEPT !.expired = TRUE]
    <3>1. /\ row \in Made /\ row.user = invite[i].user /\ row.role = invite[i].role
          /\ row.accepted = invite[i].accepted /\ row.revoked = invite[i].revoked
      BY <1>2 DEF Made
    <3>2. invite' = [invite EXCEPT ![i] = row]
      BY <2>2 DEF Expire
    <3> QED
      BY <3>1, <3>2
  <2> QED
    BY <2>1, <2>2
<1>4. /\ invite' \in [Invitations -> {Unmade} \cup Made]
      /\ \A p \in Invitations \ {i} : invite'[p] = invite[p]
      /\ invite'[i] = row
  BY <1>3 DEF IInv, RowsOK
<1>5. \A p \in Invitations : invite[p] # Unmade =>
        /\ invite'[p].user = invite[p].user /\ invite'[p].role = invite[p].role
        /\ invite'[p] # Unmade
  BY <1>3, <1>4, MadeIsMade
<1>6. RowsOK'
  BY <1>1, <1>4, <1>5, InvitationsChange DEF IInv, RowsOK
<1>7. \A q \in Requests, p \in Invitations : p \in req[q].holds /\ Pending(p) =>
        Pending(p)' /\ invite'[p].user = invite[p].user
  <2> SUFFICES ASSUME NEW q \in Requests, NEW p \in Invitations, p \in req[q].holds, Pending(p)
               PROVE  Pending(p)' /\ invite'[p].user = invite[p].user
    OBVIOUS
  <2>1. CASE p # i
    BY <1>4, <2>1 DEF Pending
  <2>2. CASE p = i
    <3>1. ~RevokeInvitation(i)
      BY <2>2 DEF RevokeInvitation
    <3>2. invite'[p] # Unmade /\ invite'[p].user = invite[p].user
      BY <1>5 DEF Pending
    <3> QED
      BY <1>3, <1>4, <2>2, <3>1, <3>2 DEF Pending
  <2> QED
    BY <2>1, <2>2
<1> QED
  BY <1>1, <1>5, <1>6, <1>7, NobodyMoves

\* Access to the card is revoked.
LEMMA Withdrawing ==
    ASSUME IInv, NEW u \in Users, RevokeAccess(u)
    PROVE  IInv'
<1>1. /\ access[u] = "active" /\ access' = [access EXCEPT ![u] = "revoked"]
      /\ UNCHANGED <<member, invite, req, grants>>
  BY DEF RevokeAccess
<1>2. access' \in [Users -> Cards] /\ \A v \in Users : access[v] = "none" => access'[v] = "none"
  BY <1>1 DEF IInv, RowsOK, Cards
<1>3. RowsOK'
  BY <1>1, <1>2, InvitationsChange DEF IInv, RowsOK
<1> QED
  BY <1>1, <1>3, NobodyMoves DEF Pending

-----------------------------------------------------------------------------
\* The invariant is inductive.
LEMMA InitIInv == Init => IInv
<1> SUFFICES ASSUME Init PROVE IInv
  OBVIOUS
<1>1. Idle \in Forms /\ Relies(Idle) /\ Idle.holds = {}
  BY IdleForm
<1>2. RequestsOK /\ Disjoint
  BY <1>1 DEF Init, RequestsOK, Disjoint
<1>3. AdminRemains
  BY UsersAssumption DEF Init, AdminRemains, ActiveAdmins, IsActive
<1>4. MembersWereInvited
  BY DEF Init, MembersWereInvited
<1>5. /\ member \in [Users -> [role : Roles \cup {"none"}, active : BOOLEAN]]
      /\ access \in [Users -> Cards] /\ invite \in [Invitations -> {Unmade} \cup Made]
      /\ grants \in [Invitations -> Nat] /\ \A i \in Invitations : ~(grants[i] > 0)
  BY DEF Init, Roles, Absent, Cards
<1> QED
  BY <1>2, <1>3, <1>4, <1>5 DEF IInv, RowsOK

\* Every step of every request keeps it.
LEMMA NextIInv == IInv /\ [Next]_vars => IInv'
<1> SUFFICES ASSUME IInv, [Next]_vars PROVE IInv'
  OBVIOUS
<1>1. ASSUME NEW r \in Requests, Ask(r) PROVE IInv'
  BY <1>1, Asking
<1>2. ASSUME NEW r \in Requests, Step(r) PROVE IInv'
  <2>1. CASE NoMoreInvitations(r) \/ LockTimeout(r)
    BY <2>1, OnlyEnds DEF NoMoreInvitations, LockTimeout, rows
  <2>2. ASSUME NEW i \in Invitations, InviteWrites(r, i) PROVE IInv'
    BY <2>2, Inviting
  <2> QED
    BY <1>2, <2>1, <2>2, Locking, Counting, Writing, Reading, Opening, Granting DEF Step
<1>3. ASSUME NEW i \in Invitations, RevokeInvitation(i) \/ Expire(i) PROVE IInv'
  BY <1>3, Closing
<1>4. ASSUME NEW u \in Users, RevokeAccess(u) PROVE IInv'
  BY <1>4, Withdrawing
<1>5. CASE UNCHANGED vars
  <2>1. UNCHANGED rows /\ req' = req /\ RowsOK
    BY <1>5 DEF vars, rows, IInv
  <2>2. RowsOK'
    BY <2>1 DEF RowsOK, rows, AdminRemains, ActiveAdmins, IsActive, MembersWereInvited
  <2> QED
    BY <2>1, <2>2, NobodyMoves DEF rows, Pending
<1> QED
  BY <1>1, <1>2, <1>3, <1>4, <1>5 DEF Next

\* So it always holds.
LEMMA Invariant == Spec => []IInv
BY InitIInv, NextIInv, PTL DEF Spec

(* An organization always has an active admin, whatever its admins do to each other at
   the same time (update_membership, _active_admin_count). *)
THEOREM AnAdminRemains == Spec => []AdminRemains
<1>1. IInv => AdminRemains
  BY DEF IInv, RowsOK
<1> QED
  BY <1>1, Invariant, PTL

(* Whoever is a member beyond the first admins, or has access to the card, accepted an
   invitation for it (accept_invitation). *)
THEOREM OnlyTheInvitedAreMembers == Spec => []MembersWereInvited
<1>1. IInv => MembersWereInvited
  BY DEF IInv, RowsOK
<1> QED
  BY <1>1, Invariant, PTL

(* An invitation is accepted while it is open, so once: not after it was accepted,
   revoked or replaced, whatever happens between the acceptance's reads and its commit
   (accept_invitation, revoke_invitation, create_invitation). *)
THEOREM InvitationsOpenOnce == Spec => InvitationOpensOnce
<1>1. IInv /\ [Next]_vars => [\A i \in Invitations : grants'[i] # grants[i] => Pending(i)]_vars
  <2> SUFFICES ASSUME IInv, Next, NEW i \in Invitations, grants'[i] # grants[i]
               PROVE  Pending(i)
    OBVIOUS
  <2>1. PICK r \in Requests : Grant(r)
    <3>1. ASSUME NEW r \in Requests, Ask(r) PROVE grants' = grants
      BY <3>1 DEF Ask, AskUpdate, AskInvite, AskAccept
    <3>2. ASSUME NEW r \in Requests, Step(r), ~Grant(r) PROVE grants' = grants
      BY <3>2 DEF Step, LockTarget, CountAdmins, WriteMember, InviteReads, InviteWrites,
                  NoMoreInvitations, LockInvitation, LockTimeout
    <3>3. ASSUME NEW k \in Invitations, RevokeInvitation(k) \/ Expire(k)
          PROVE  grants' = grants
      BY <3>3 DEF RevokeInvitation, Expire
    <3>4. ASSUME NEW u \in Users, RevokeAccess(u) PROVE grants' = grants
      BY <3>4 DEF RevokeAccess
    <3> QED
      BY <3>1, <3>2, <3>3, <3>4 DEF Next
  <2>2. req[r].pc = "grant" /\ Pending(req[r].invite)
    BY <2>1 DEF Grant, IInv, RequestsOK, Relies
  <2>3. i = req[r].invite
    BY <2>1 DEF Grant, IInv, RowsOK
  <2> QED
    BY <2>2, <2>3
<1> QED
  BY <1>1, Invariant, PTL DEF Spec, InvitationOpensOnce
=============================================================================
