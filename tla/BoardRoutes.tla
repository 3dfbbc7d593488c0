---------------------------- MODULE BoardRoutes ----------------------------
(***************************************************************************)
(* The HTTP routes of the boards: those of the full application            *)
(* (routes.py), those of the board profile (standalone_routes.py) and the  *)
(* command uploads they share (command_upload_routes.py).                  *)
(*                                                                         *)
(* A handler is a list of checks, each of which may answer the request     *)
(* with an error, then what it does, what it writes to the audit log and   *)
(* what it tells the sockets of the board.  All handlers make their checks *)
(* in the order of Order.  What happens between a check and the act is the *)
(* matter of GuestAccess, CommandUpload and BoardMedia.                    *)
(***************************************************************************)
EXTENDS BoardAccess, Naturals

Missing == [id |-> "none", org |-> "nowhere", owner |-> "none", student |-> NoStudent,
            deleted |-> FALSE]

\* What a client sends: who its session says it is, its valid guest cookie, the row
\* its path leads to, its headers, its body and what is wrong with the content.
Requests ==
    [member : MemberActors \cup {Nobody}, guest : GuestActors \cup {Nobody},
     doc : Documents \cup {Missing}, csrf : BOOLEAN, epoch : BOOLEAN,
     body : {"valid", "type", "length", "empty", "large", "invalid"},
     wrong : SUBSET {"headers", "fields", "graph", "version", "document", "actor"},
     published : BOOLEAN, enabled : BOOLEAN]

\* board_principal: whoever is signed in is not taken for a guest.
Actor(r) == IF r.member # Nobody THEN r.member ELSE r.guest

Found(r) == r.doc # Missing /\ r.doc.org = Actor(r).org

\* BoardPersistenceService.get
DocumentAnswer(r) ==
    IF ~Found(r) THEN NotFound ELSE IF r.doc.deleted THEN Gone ELSE Ok

\* _validated_body, _bounded_binary_body, _read_bytes
BodyAnswer(r) ==
    CASE r.body = "valid" -> Ok
      [] r.body = "type" -> 415
      [] r.body \in {"length", "empty"} -> 400
      [] r.body = "large" -> 413
      [] r.body = "invalid" -> 422

Unless(problem, status) == IF problem THEN status ELSE Ok

Lacks(r, capability) == IsGuest(Actor(r)) /\ capability \notin Actor(r).can

\* validate_csrf, of a member's session or of a guest's cookie
CsrfAnswer(r) == Unless(~r.csrf, Forbidden)

\* validate_mutation
EpochAnswer(r) ==
    IF ~r.csrf THEN Forbidden ELSE Unless(IsGuest(Actor(r)) /\ ~r.epoch, 409)

Order == <<"member", "actor", "create", "document", "row", "read", "write", "manage",
           "standalone", "published", "snapshot", "connect", "csrf", "epoch", "enabled",
           "headers", "body", "version", "fields", "graph", "subject", "author">>

CheckNames == {Order[i] : i \in DOMAIN Order}

AnswerTo(app, check, r) ==
    CASE check = "member" -> Unless(r.member = Nobody, Unauthorized)
      [] check = "actor" -> Unless(Actor(r) = Nobody, Unauthorized)
      [] check = "create" -> IF IsGuest(Actor(r)) THEN Ok ELSE CreateAnswer(Actor(r))
      [] check = "document" -> DocumentAnswer(r)
      [] check = "row" -> Unless(~Found(r), NotFound)
      [] check = "read" -> IF app = "full" THEN ReadAnswer(Actor(r), r.doc)
                           ELSE AloneReadAnswer(Actor(r), r.doc)
      [] check = "write" -> IF app = "full" THEN WriteAnswer(Actor(r), r.doc)
                            ELSE AloneWriteAnswer(Actor(r), r.doc)
      [] check = "manage" -> IF app = "full" THEN ManageAnswer(Actor(r), r.doc)
                             ELSE AloneManageAnswer(Actor(r), r.doc, Forbidden)
      [] check = "standalone" -> Unless(~Standalone(r.doc), NotFound)
      [] check = "published" ->
            Unless(Actor(r).role \notin Staff /\ ~r.published, NotFound)
      [] check = "snapshot" -> Unless(Lacks(r, "board.snapshot.write"), Forbidden)
      [] check = "connect" -> Unless(Lacks(r, "collaboration.connect"), NotFound)
      [] check = "csrf" -> CsrfAnswer(r)
      [] check = "epoch" -> EpochAnswer(r)
      [] check = "enabled" -> Unless(~r.enabled, 503)
      [] check = "headers" -> Unless("headers" \in r.wrong, 422)
      [] check = "body" -> BodyAnswer(r)
      [] check = "version" -> Unless("version" \in r.wrong, 422)
      [] check = "fields" -> Unless("fields" \in r.wrong, 422)
      [] check = "graph" -> Unless("graph" \in r.wrong, 422)
      [] check = "subject" -> Unless("document" \in r.wrong, 422)
      [] check = "author" -> Unless("actor" \in r.wrong, Forbidden)

Admitted(app, route, r) == \A check \in route.checks : AnswerTo(app, check, r) = Ok

\* The first refusal, in the order of the handler.
Answer(app, route, r) ==
    LET refusals == {i \in DOMAIN Order : /\ Order[i] \in route.checks
                                          /\ AnswerTo(app, Order[i], r) # Ok}
        first == CHOOSE i \in refusals : \A j \in refusals : i <= j
    IN  IF refusals = {} THEN Ok ELSE AnswerTo(app, Order[first], r)

Route(checks, does, logged, tells) ==
    [checks |-> checks, does |-> does, logged |-> logged, tells |-> tells]

Reading(checks) == Route(checks, {}, FALSE, {})

-----------------------------------------------------------------------------
(* routes.py.  What is told is told if the act has changed something. *)

Managing == {"member", "document", "manage", "csrf"}
Serving == {"actor", "document", "read"}
Mutating == {"actor", "document", "write", "epoch"}

BoardContext == Reading({"actor", "document", "read", "standalone"})
CreateStandaloneBoard ==
    Route({"member", "create", "csrf", "body"}, {"create"}, TRUE, {})
ListStandaloneBoards == Reading({"member", "create"})
CreateBoardInvitation ==
    Route(Managing \cup {"standalone", "body"}, {"invite"}, TRUE, {})
ListBoardInvitations == Reading({"member", "document", "manage", "standalone"})
UpdateBoardInvitation ==
    Route(Managing \cup {"body", "fields"}, {"rights"}, TRUE, {"capabilities"})
RevokeBoardInvitation == Route(Managing, {"rights", "disconnect"}, TRUE, {"revocation"})
RotateBoardInvitation == Route(Managing, {"rights", "disconnect"}, TRUE, {"revocation"})
UpdateStandaloneBoard ==
    Route(Managing \cup {"standalone", "body", "fields"}, {"title", "rights"}, TRUE,
          {"capabilities"})
CreateLessonBoard == Route({"member", "create", "csrf", "body"}, {"create"}, TRUE, {})
ListLessonBoards == Reading({"member", "document", "read"})
GetBoard == Reading(Serving)
UploadBoardMedia ==
    Route(Mutating \cup {"enabled", "headers", "body"}, {"media"}, TRUE, {})
GetBoardMedia == Reading(Serving)
GetBoardMediaContent == Reading(Serving)
BoardRevisions == Reading({"member", "document", "read"})
BoardRevision == Reading({"member", "document", "read"})
GetCommands == Reading(Serving)
AppendCommands ==
    Route(Mutating \cup {"body", "graph", "subject", "author"}, {"append"}, TRUE,
          {"revision"})
ArchiveBoard == Route(Managing, {"rights"}, TRUE, {"capabilities"})
UnarchiveBoard == Route(Managing, {"rights"}, TRUE, {"capabilities"})
CollaborationTicket ==
    Route(Serving \cup {"connect", "csrf", "body"}, {"ticket"}, FALSE, {})
FinalizeBoardEvidence == Route(Managing \cup {"body"}, {"evidence"}, TRUE, {})
ListBoardEvidence == Reading({"member", "row", "read", "published"})
PublishBoardEvidence == Route(Managing, {"evidence"}, TRUE, {})
RevokeBoardEvidence == Route(Managing, {"evidence"}, TRUE, {})
BoardEvidenceArtifact == Reading({"member", "row", "read", "published"})
SaveSnapshot ==
    Route(Mutating \cup {"snapshot", "body", "subject"}, {"snapshot"}, TRUE, {})
DeleteBoard == Route(Managing, {"rights", "disconnect"}, TRUE, {"revocation"})

BoardClientEvent == Reading({"member", "csrf", "body"})
\* geometry_gateway.py: for those who may create boards
GeometryProxy == Reading({"member", "create", "body"})

(* command_upload_routes.py, in both applications; no log of the batch is kept *)

StartUpload == Route(Mutating \cup {"body"}, {"upload"}, FALSE, {})
UploadPart == Route(Mutating \cup {"body"}, {"upload"}, FALSE, {})
FinalizeUpload == Route(Mutating, {"append"}, FALSE, {"revision"})
AbortUpload == Route(Mutating, {"upload"}, FALSE, {})

Uploads == {StartUpload, UploadPart, FinalizeUpload, AbortUpload}

FullRoutes ==
    Uploads \cup
    {BoardContext, CreateStandaloneBoard, ListStandaloneBoards, CreateBoardInvitation,
     ListBoardInvitations, UpdateBoardInvitation, RevokeBoardInvitation,
     RotateBoardInvitation, UpdateStandaloneBoard, CreateLessonBoard, ListLessonBoards,
     GetBoard, UploadBoardMedia, GetBoardMedia, GetBoardMediaContent, BoardRevisions,
     BoardRevision, GetCommands, AppendCommands, ArchiveBoard, UnarchiveBoard,
     CollaborationTicket, FinalizeBoardEvidence, ListBoardEvidence, PublishBoardEvidence,
     RevokeBoardEvidence, BoardEvidenceArtifact, SaveSnapshot, DeleteBoard,
     BoardClientEvent, GeometryProxy}

-----------------------------------------------------------------------------
(* standalone_routes.py: every member must be one who may create boards *)

AloneManaging == Managing \cup {"create"}

AloneContext == Reading(Serving \cup {"create"})
AloneCreateBoard == Route({"member", "create", "csrf", "body"}, {"create"}, TRUE, {})
AloneListBoards == Reading({"member", "create"})
AloneUpdateBoard ==
    Route(AloneManaging \cup {"body", "fields"}, {"title", "rights"}, TRUE, {"capabilities"})
AloneArchiveBoard == Route(AloneManaging, {"rights"}, TRUE, {"capabilities"})
AloneUnarchiveBoard == Route(AloneManaging, {"rights"}, TRUE, {"capabilities"})
AloneDeleteBoard == Route(AloneManaging, {"rights", "disconnect"}, TRUE, {"revocation"})
AloneCreateInvitation == Route(AloneManaging \cup {"body"}, {"invite"}, TRUE, {})
AloneListInvitations == Reading({"member", "create", "document", "manage"})
AloneUpdateInvitation ==
    Route(AloneManaging \cup {"body", "fields"}, {"rights"}, TRUE, {"capabilities"})
AloneRevokeInvitation == Route(AloneManaging, {"rights", "disconnect"}, TRUE, {"revocation"})
AloneRotateInvitation == Route(AloneManaging, {"rights", "disconnect"}, TRUE, {"revocation"})
AloneGetBoard == Reading(Serving)
AloneGetCommands == Reading(Serving)
AloneAppendCommands ==
    Route(Mutating \cup {"body", "graph", "subject", "author"}, {"append"}, TRUE,
          {"revision"})
\* Snapshots of version 1.4 only, where routes.py reads 1.4, 1.5 and 1.6.
AloneSaveSnapshot ==
    Route(Mutating \cup {"snapshot", "body", "version", "subject"}, {"snapshot"},
          TRUE, {})
AloneTicket == Route(Serving \cup {"connect", "csrf", "body"}, {"ticket"}, FALSE, {})

\* What one path and method reaches in the one application and in the other.
Twins ==
    {<<BoardContext, AloneContext>>, <<CreateStandaloneBoard, AloneCreateBoard>>,
     <<ListStandaloneBoards, AloneListBoards>>, <<UpdateStandaloneBoard, AloneUpdateBoard>>,
     <<ArchiveBoard, AloneArchiveBoard>>, <<UnarchiveBoard, AloneUnarchiveBoard>>,
     <<DeleteBoard, AloneDeleteBoard>>, <<CreateBoardInvitation, AloneCreateInvitation>>,
     <<ListBoardInvitations, AloneListInvitations>>,
     <<UpdateBoardInvitation, AloneUpdateInvitation>>,
     <<RevokeBoardInvitation, AloneRevokeInvitation>>,
     <<RotateBoardInvitation, AloneRotateInvitation>>, <<GetBoard, AloneGetBoard>>,
     <<GetCommands, AloneGetCommands>>, <<AppendCommands, AloneAppendCommands>>,
     <<SaveSnapshot, AloneSaveSnapshot>>, <<CollaborationTicket, AloneTicket>>}
        \cup {<<route, route>> : route \in Uploads}

AloneRoutes == {twin[2] : twin \in Twins}

\* What board_profile.py lets through of routes.py when the profile is set in the file
\* of the settings: no command uploads, and the media the app of its own has not.
ProfileRoutes ==
    {BoardContext, CreateStandaloneBoard, ListStandaloneBoards, GetBoard,
     UpdateStandaloneBoard, DeleteBoard, ArchiveBoard, UnarchiveBoard,
     CreateBoardInvitation, ListBoardInvitations, UpdateBoardInvitation,
     RevokeBoardInvitation, RotateBoardInvitation, UploadBoardMedia, GetBoardMedia,
     GetBoardMediaContent, GetCommands, AppendCommands, SaveSnapshot,
     CollaborationTicket}
=============================================================================
