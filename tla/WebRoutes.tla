----------------------------- MODULE WebRoutes -----------------------------
(***************************************************************************)
(* The HTTP routes of the full application outside the boards, and the     *)
(* sign-in of the board profile: who is signed in, what a handler asks     *)
(* before it acts, which rows it can reach and what it changes.            *)
(*                                                                         *)
(* A handler is a set of checks, all of which must pass, and what it does. *)
(* A session only names a user and an organization: what it may do is read *)
(* anew from the database at every request.  Here a request and the rows   *)
(* it finds are one moment; what may come between a check and the change   *)
(* is the matter of Identity, Delivery, MaterialRun and PracticeSync.      *)
(***************************************************************************)
EXTENDS BoardAccess, Integers

CONSTANTS
    SessionMaxAge,
    SessionIdleTimeout

Recipients == {"student", "parent"}
NoOne == "nobody"
NoSession == [user |-> NoOne, org |-> "none", age |-> 0, idle |-> 0]
NoRow == [org |-> "nowhere"]

\* since: created_at, by which the first of the memberships of a user is found
Memberships ==
    [org : Organizations, user : People, role : Staff \cup Recipients, active : BOOLEAN,
     since : Nat]

\* Revoked exactly when it is not active.
Accesses ==
    [org : Organizations, user : People, student : Students, role : Recipients,
     active : BOOLEAN]

\* What a path may lead to (a student, a lesson, a run, a delivery, ...) with the student
\* it is about, the user it is meant for and what the handlers look at of its state.
Rows ==
    [org : Organizations, student : Students, user : People, active : BOOLEAN,
     published : BOOLEAN, stored : BOOLEAN, delivered : BOOLEAN]

Databases ==
    [users : SUBSET People, organizations : SUBSET Organizations,
     memberships : SUBSET Memberships, accesses : SUBSET Accesses]

Sessions == [user : People, org : Organizations, age : Nat, idle : Nat]

\* csrf: the token of the form or of the header is the one of the session.
\* signs: whose email and password the form carries, or who accepts an invitation.
\* target: the workspace that the form or the invitation names.
\* wrong: what else a handler may refuse.
WebRequests ==
    [session : Sessions \cup {NoSession}, row : Rows \cup {NoRow}, csrf : BOOLEAN,
     signs : People \cup {NoOne}, target : Organizations,
     wrong : SUBSET {"content", "state", "signature", "token", "bearer", "disabled"}]

-----------------------------------------------------------------------------
(* Who is signed in *)

\* The memberships that let a user in.
Current(db, user) ==
    {m \in db.memberships : /\ m.user = user /\ m.active
                            /\ m.user \in db.users /\ m.org \in db.organizations}

AccessesOf(db, user, org) ==
    {a \in db.accesses : a.user = user /\ a.org = org /\ a.active}

Member(db, m) ==
    [kind |-> "member", org |-> m.org, id |-> m.user, role |-> m.role,
     students |-> {a.student : a \in AccessesOf(db, m.user, m.org)}]

\* IdentityService.switch_workspace, which also reads a session anew
InWorkspace(db, user, org) ==
    LET here == {m \in Current(db, user) : m.org = org}
    IN  IF here = {} THEN Nobody ELSE Member(db, CHOOSE m \in here : TRUE)

\* IdentityService.authenticate: the oldest membership is the one signed in to.
Authenticated(db, user) ==
    LET oldest == {m \in Current(db, user) :
                      \A n \in Current(db, user) : m.since <= n.since}
    IN  IF oldest = {} THEN Nobody ELSE Member(db, CHOOSE m \in oldest : TRUE)

Expired(session) == session.age > SessionMaxAge \/ session.idle > SessionIdleTimeout

\* WebSupport.principal
Principal(db, r) ==
    IF r.session = NoSession \/ Expired(r.session) THEN Nobody
    ELSE InWorkspace(db, r.session.user, r.session.org)

-----------------------------------------------------------------------------
(* What a handler asks *)

\* The row of the path, looked up in the organization of the one who asks
RowFound(r, p) == r.row # NoRow /\ r.row.org = p.org

\* ensure_practice_analytics_access
AnalyticsAllowed(db, r, p) ==
    /\ RowFound(r, p) /\ r.row.active
    /\ \/ p.role \in Staff
       \/ \E a \in AccessesOf(db, p.id, p.org) :
             a.student = r.row.student /\ a.role = p.role

\* PracticeSyncService._student_id: bound to exactly one student
OwnStudents(db, p) ==
    {a.student : a \in {b \in AccessesOf(db, p.id, p.org) : b.role = "student"}}
BoundStudent(db, p) ==
    p.role = "student" /\ \E student \in Students : OwnStudents(db, p) = {student}

\* MaterialDelivery, ArtifactVersion and UserNotification joined with StudentAccess
InPortal(r, p) == RowFound(r, p) /\ r.row.student \in p.students

Passes(check, db, r) ==
    LET p == Principal(db, r) IN
    CASE check = "session" -> p # Nobody
      [] check = "tutor" -> p.role \in Staff
      [] check = "admin" -> p.role = "admin"
      [] check = "recipient" -> p.role \in Recipients
      [] check = "csrf" -> r.csrf
      [] check = "row" -> RowFound(r, p)
      [] check = "active" -> RowFound(r, p) /\ r.row.active
      [] check = "stored" -> r.row.stored
      [] check = "delivery" -> InPortal(r, p) /\ r.row.delivered
      [] check = "artifact" ->
            InPortal(r, p) /\ r.row.delivered /\ r.row.published /\ r.row.stored
      [] check = "notification" -> InPortal(r, p) /\ r.row.user = p.id
      [] check = "analytics" -> AnalyticsAllowed(db, r, p)
      [] check = "student" -> BoundStudent(db, p)
      [] check = "workspace" -> InWorkspace(db, p.id, r.target) # Nobody
      [] check = "credentials" -> Authenticated(db, r.signs) # Nobody
      [] check = "staff" -> Authenticated(db, r.signs).role \in Staff
      [] check = "content" -> "content" \notin r.wrong      \* ValidationError
      [] check = "state" -> "state" \notin r.wrong          \* ConflictError, GoneError
      [] check = "signature" -> "signature" \notin r.wrong  \* of BigBlueButton
      [] check = "token" -> "token" \notin r.wrong          \* of the path
      [] check = "bearer" -> "bearer" \notin r.wrong
      [] check = "enabled" -> "disabled" \notin r.wrong

LetIn(route, db, r) == \A check \in route.checks : Passes(check, db, r)

WebRoute(method, checks, does, logged) ==
    [method |-> method, checks |-> checks, does |-> does, logged |-> logged]

Page(checks) == WebRoute("GET", checks, {}, FALSE)
Download(checks) == WebRoute("GET", checks, {}, TRUE)
Act(checks, does) == WebRoute("POST", checks \cup {"csrf"}, does, TRUE)
Quiet(checks, does) == WebRoute("POST", checks \cup {"csrf"}, does, FALSE)

-----------------------------------------------------------------------------
(* identity and audit *)

LoginPage == Page({})
Login == Quiet({"credentials"}, {"signin"})
Logout == Quiet({"session"}, {"signout"})
SwitchWorkspace == Act({"session", "workspace"}, {"switch"})
TeamPage == Page({"admin"})
InviteMember == Act({"admin", "content", "state"}, {"invitation"})
UpdateMember == Act({"admin", "row", "content"}, {"membership"})
RevokeInvitation == Act({"admin", "row"}, {"invitation"})
InvitationPage == Page({"token"})
AcceptInvitation == Act({"token", "content", "state"}, {"membership", "enter"})
AuditPage == Page({"admin"})

\* of the board profile, which nobody else signs in to
BoardLogin == Quiet({"credentials", "staff"}, {"signin"})

(* students *)

StudentsPage == Page({"tutor"})
CreateStudent == Act({"tutor", "content"}, {"student"})
StudentDetail == Page({"tutor", "row"})
InviteRecipient == Act({"tutor", "row", "content", "state"}, {"invitation"})
RevokeRecipientAccess == Act({"tutor", "row"}, {"access"})
RevokeRecipientInvitation == Act({"tutor", "row"}, {"invitation"})
UpdateStudent == Act({"tutor", "row", "content"}, {"student"})

(* scheduling and classroom *)

Schedule == Page({"tutor", "content"})
CreateLesson == Act({"tutor", "active", "content", "state"}, {"lesson"})
LessonDetail == Page({"tutor", "row"})
OpenLessonBoard == WebRoute("GET", {"tutor", "row", "state"}, {"board"}, TRUE)
UpdateNotes == Act({"tutor", "row"}, {"lesson"})
JoinAsTutor == WebRoute("GET", {"tutor", "row"}, {"lesson", "room"}, FALSE)
JoinAsStudent == WebRoute("GET", {"token", "state"}, {"room"}, FALSE)
EndLesson == Act({"tutor", "row"}, {"lesson", "room"})
DemoRoom == Page({"tutor", "enabled", "row"})
LessonFinished == Page({})

(* materials and automation *)

ProcessLesson == Act({"tutor", "row"}, {"job"})
JobStatus == Page({"session", "row"})
ArtifactMarkdown == Download({"tutor", "row"})
ArtifactVersionDownload == Download({"tutor", "row", "stored"})
ApproveRun == Act({"tutor", "row", "state"}, {"run"})
\* The service logs the recording, without a user.
RecordingReady == WebRoute("POST", {"signature", "state"}, {"job"}, TRUE)
WorkflowStatus == Page({"session", "row"})
UpdateTranscript == Act({"tutor", "row"}, {"transcript"})
OperationsPage == Page({"tutor"})
RetryJob == Act({"tutor", "row", "state"}, {"job"})
CancelJob == Act({"tutor", "row", "state"}, {"job"})
ResendOutbox == Act({"tutor", "row"}, {"job"})

(* portal *)

PortalHome == Page({"recipient"})
PortalDelivery == Page({"recipient", "delivery"})
PortalArtifact == Download({"recipient", "artifact"})
PortalArtifactPreview == Download({"recipient", "artifact"})
Notifications == Page({"recipient"})
NotificationRead == Quiet({"recipient", "notification"}, {"notification"})
PublishRun == Act({"tutor", "row", "state"}, {"run"})
RevokeRun == Act({"tutor", "row", "state"}, {"run"})

\* PortalService.home
HomeDeliveries(p, rows) ==
    {row \in rows : row.org = p.org /\ row.student \in p.students /\ row.delivered}
HomeNotifications(p, rows) ==
    {row \in rows : row.org = p.org /\ row.student \in p.students /\ row.user = p.id}
HomeEvidence(p, rows) ==
    {row \in rows : /\ row.org = p.org /\ row.student \in p.students
                    /\ row.stored /\ row.published}

(* practice *)

Bootstrap == Page({"enabled", "session", "student"})
GetState == Page({"enabled", "session", "student"})
PostEvents == Act({"enabled", "session", "student", "content", "state"}, {"practice"})
PutState == Act({"enabled", "session", "student", "content", "state"}, {"practice"})
PutMyMetadata == Act({"enabled", "session", "student", "content", "state"}, {"metadata"})
StudentAnalytics == Page({"enabled", "session", "analytics"})
StudentPracticeBrief == Page({"enabled", "session", "analytics"})
PutStudentMetadata == Act({"enabled", "tutor", "analytics", "content"}, {"metadata"})
StudentPracticePage == Page({"enabled", "tutor", "analytics"})

(* dashboard *)

Dashboard == Page({"tutor"})
HealthLive == Page({})
HealthReady == Page({})
Metrics == Page({"enabled", "bearer"})

Open ==
    {LoginPage, Login, BoardLogin, InvitationPage, AcceptInvitation, JoinAsStudent,
     LessonFinished, RecordingReady, HealthLive, HealthReady, Metrics}
ForMembers ==
    {Logout, SwitchWorkspace, JobStatus, WorkflowStatus, StudentAnalytics,
     StudentPracticeBrief}
ForRecipients ==
    {PortalHome, PortalDelivery, PortalArtifact, PortalArtifactPreview, Notifications,
     NotificationRead, Bootstrap, GetState, PostEvents, PutState, PutMyMetadata}
ForAdmins == {TeamPage, InviteMember, UpdateMember, RevokeInvitation, AuditPage}
ForTutors ==
    {StudentsPage, CreateStudent, StudentDetail, InviteRecipient, RevokeRecipientAccess,
     RevokeRecipientInvitation, UpdateStudent, Schedule, CreateLesson, LessonDetail,
     OpenLessonBoard, UpdateNotes, JoinAsTutor, EndLesson, DemoRoom, ProcessLesson,
     ArtifactMarkdown, ArtifactVersionDownload, ApproveRun, UpdateTranscript,
     OperationsPage, RetryJob, CancelJob, ResendOutbox, PublishRun, RevokeRun,
     PutStudentMetadata, StudentPracticePage, Dashboard}

WebRouteSet == Open \cup ForMembers \cup ForRecipients \cup ForAdmins \cup ForTutors

-----------------------------------------------------------------------------
(* The session a request leaves in its cookie *)

Fresh(user, org) == [user |-> user, org |-> org, age |-> 0, idle |-> 0]

\* web.set_principal after session.clear; a session that no longer holds is cleared too.
SessionAfter(route, db, r) ==
    CASE "signin" \in route.does -> Fresh(r.signs, Authenticated(db, r.signs).org)
      [] "enter" \in route.does -> Fresh(r.signs, r.target)
      [] "signout" \in route.does -> NoSession
      [] "switch" \in route.does -> [r.session EXCEPT !.org = r.target, !.idle = 0]
      [] OTHER -> IF Principal(db, r) = Nobody THEN NoSession
                  ELSE [r.session EXCEPT !.idle = 0]
=============================================================================
