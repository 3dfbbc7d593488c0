---------------------------- MODULE BoardAccess ----------------------------
(***************************************************************************)
(* Who may read, write and manage a board.  The full application decides   *)
(* with BoardAccessPolicy; the board profile with                          *)
(* StandaloneBoardAccessPolicy, which is written apart (and twice) so that *)
(* it needs no lessons and no students.  An answer is the status the       *)
(* request gets; the policies are asked about a row that was found in the  *)
(* organization of the actor.                                              *)
(***************************************************************************)

CONSTANTS
    Organizations,
    People,         \* user ids
    Students,
    Capabilities,   \* of guests: board.read, board.write, ...
    BoardIds

Ok == 200
Unauthorized == 401
Forbidden == 403
NotFound == 404
Gone == 410

NoStudent == "none"
Staff == {"admin", "tutor"}

\* A member of an organization, with the students it has active access to.
MemberActors ==
    [kind : {"member"}, org : Organizations, id : People,
     role : Staff \cup {"student", "parent"}, students : SUBSET Students]

\* Without a session, or a cookie, that still holds.
Nobody == [kind |-> "nobody", org |-> "none", id |-> "none", role |-> "none",
           students |-> {}]

\* A guest, from a cookie or a ticket of an invitation of its board.
GuestActors ==
    [kind : {"guest"}, org : Organizations, board : BoardIds, can : SUBSET Capabilities]

\* A row: of a lesson with its student, or standalone (ck_board_documents_linkage).
Documents ==
    [id : BoardIds, org : Organizations, owner : People,
     student : Students \cup {NoStudent}, deleted : BOOLEAN]

Standalone(doc) == doc.student = NoStudent
IsGuest(actor) == actor.kind = "guest"

CreateAnswer(actor) == IF actor.role \in Staff THEN Ok ELSE Forbidden

-----------------------------------------------------------------------------
(* BoardAccessPolicy *)

\* _has_student_access
HasStudentAccess(actor, student) == student \in actor.students

ReadAnswerOfGuest(actor, doc) ==
    IF doc.id # actor.board \/ ~Standalone(doc) THEN NotFound
    ELSE IF doc.deleted THEN Gone
    ELSE IF "board.read" \notin actor.can THEN NotFound
    ELSE Ok

MayRead(actor, doc) ==
    \/ actor.role = "admin"
    \/ actor.role = "tutor" /\ (Standalone(doc) => doc.owner = actor.id)
    \/ /\ actor.role \in {"student", "parent"}
       /\ ~Standalone(doc) /\ HasStudentAccess(actor, doc.student)

ReadAnswer(actor, doc) ==
    IF IsGuest(actor) THEN ReadAnswerOfGuest(actor, doc)
    ELSE IF MayRead(actor, doc) THEN Ok ELSE NotFound

WriteAnswer(actor, doc) ==
    IF ReadAnswer(actor, doc) # Ok THEN ReadAnswer(actor, doc)
    ELSE IF IsGuest(actor)
         THEN IF "board.write" \in actor.can THEN Ok ELSE Forbidden
         ELSE IF actor.role = "parent" THEN Forbidden ELSE Ok

ManageAnswer(actor, doc) ==
    IF ReadAnswer(actor, doc) # Ok THEN ReadAnswer(actor, doc)
    ELSE IF IsGuest(actor) THEN NotFound
    ELSE IF actor.role \in Staff THEN Ok ELSE Forbidden

-----------------------------------------------------------------------------
(* StandaloneBoardAccessPolicy, of standalone_access.py; the one of access.py *)
(* differs in the last answer of Manage.                                      *)

AloneMayRead(actor, doc) ==
    \/ actor.role = "admin"
    \/ actor.role = "tutor" /\ doc.owner = actor.id

AloneReadAnswer(actor, doc) ==
    IF ~Standalone(doc) THEN NotFound
    ELSE IF doc.deleted THEN IF IsGuest(actor) THEN Gone ELSE NotFound
    ELSE IF IsGuest(actor)
         THEN IF doc.id # actor.board \/ "board.read" \notin actor.can THEN NotFound ELSE Ok
         ELSE IF AloneMayRead(actor, doc) THEN Ok ELSE NotFound

AloneWriteAnswer(actor, doc) ==
    IF AloneReadAnswer(actor, doc) # Ok THEN AloneReadAnswer(actor, doc)
    ELSE IF IsGuest(actor) /\ "board.write" \notin actor.can THEN Forbidden
    ELSE Ok

AloneManageAnswer(actor, doc, otherwise) ==
    IF AloneReadAnswer(actor, doc) # Ok THEN AloneReadAnswer(actor, doc)
    ELSE IF IsGuest(actor) THEN NotFound
    ELSE IF actor.role \in Staff THEN Ok ELSE otherwise
=============================================================================
