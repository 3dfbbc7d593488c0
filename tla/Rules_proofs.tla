---------------------------- MODULE Rules_proofs ----------------------------
(***************************************************************************)
(* What the rules without a state of their own promise together, for every *)
(* organization, database, member, guest and request: the routes of the    *)
(* boards, the other routes, the week and the booking of lessons, the      *)
(* envelopes of board commands and the settings; and what the circuit      *)
(* breaker in front of the providers promises.                             *)
(***************************************************************************)
EXTENDS BoardRoutes, WebRoutes, Scheduling, BoardContract, Settings, CircuitBreaker,
        WellFoundedInduction, TLAPS

-----------------------------------------------------------------------------
(* THE ROUTES OF THE BOARDS *)

\* What the checks of a route ask.
LEMMA CheckAnswers ==
    ASSUME NEW r, NEW app
    PROVE  /\ AnswerTo(app, "member", r) = Unless(r.member = Nobody, Unauthorized)
           /\ AnswerTo(app, "actor", r) = Unless(Actor(r) = Nobody, Unauthorized)
           /\ AnswerTo(app, "document", r) = DocumentAnswer(r)
           /\ AnswerTo(app, "epoch", r) = EpochAnswer(r)
           /\ AnswerTo(app, "csrf", r) = CsrfAnswer(r)
           /\ AnswerTo(app, "create", r)
                 = IF IsGuest(Actor(r)) THEN Ok ELSE CreateAnswer(Actor(r))
           /\ AnswerTo(app, "read", r)
                 = IF app = "full" THEN ReadAnswer(Actor(r), r.doc)
                   ELSE AloneReadAnswer(Actor(r), r.doc)
           /\ AnswerTo(app, "write", r)
                 = IF app = "full" THEN WriteAnswer(Actor(r), r.doc)
                   ELSE AloneWriteAnswer(Actor(r), r.doc)
           /\ AnswerTo(app, "manage", r)
                 = IF app = "full" THEN ManageAnswer(Actor(r), r.doc)
                   ELSE AloneManageAnswer(Actor(r), r.doc, Forbidden)
           /\ AnswerTo(app, "standalone", r) = Unless(~Standalone(r.doc), NotFound)
           /\ AnswerTo(app, "version", r) = Unless("version" \in r.wrong, 422)
  BY DEF AnswerTo

(* Every route is of one of five kinds: it only reads, manages, writes, creates a *)
(* board or hands out a ticket.                                                   *)

Readers == {BoardContext, ListStandaloneBoards, ListBoardInvitations, ListLessonBoards,
    GetBoard, GetBoardMedia, GetBoardMediaContent, BoardRevisions, BoardRevision,
    GetCommands, ListBoardEvidence, BoardEvidenceArtifact, BoardClientEvent,
    GeometryProxy, AloneContext, AloneListBoards, AloneListInvitations, AloneGetBoard,
    AloneGetCommands}
Managers == {CreateBoardInvitation, UpdateBoardInvitation, RevokeBoardInvitation,
    RotateBoardInvitation, UpdateStandaloneBoard, ArchiveBoard, UnarchiveBoard,
    FinalizeBoardEvidence, PublishBoardEvidence, RevokeBoardEvidence, DeleteBoard,
    AloneUpdateBoard, AloneArchiveBoard, AloneUnarchiveBoard, AloneDeleteBoard,
    AloneCreateInvitation, AloneUpdateInvitation, AloneRevokeInvitation,
    AloneRotateInvitation}
Writers == {UploadBoardMedia, AppendCommands, SaveSnapshot, StartUpload, UploadPart,
    FinalizeUpload, AbortUpload, AloneAppendCommands, AloneSaveSnapshot}
Creators == {CreateStandaloneBoard, CreateLessonBoard, AloneCreateBoard}
Tickets == {CollaborationTicket, AloneTicket}

\* No route of the two applications is left out.
LEMMA EveryRoute ==
    FullRoutes \cup AloneRoutes
        \subseteq Readers \cup Managers \cup Writers \cup Creators \cup Tickets
  <1> DEFINE OfSomeKind == Readers \cup Managers \cup Writers \cup Creators \cup Tickets
  <1>1. FullRoutes \subseteq OfSomeKind
    BY DEF FullRoutes, Uploads, Readers, Managers, Writers, Creators, Tickets
  <1>2. AloneRoutes \subseteq OfSomeKind
    BY DEF AloneRoutes, Twins, Uploads, Readers, Managers, Writers, Creators, Tickets
  <1> QED BY <1>1, <1>2

\* What reads changes nothing and tells nobody.
LEMMA ReadersOnlyRead == \A route \in Readers : route.does = {} /\ route.tells = {}
  BY DEF Readers, Reading, Route, BoardContext, ListStandaloneBoards,
      ListBoardInvitations, ListLessonBoards, GetBoard, GetBoardMedia,
      GetBoardMediaContent, BoardRevisions, BoardRevision, GetCommands,
      ListBoardEvidence, BoardEvidenceArtifact, BoardClientEvent, GeometryProxy,
      AloneContext, AloneListBoards, AloneListInvitations, AloneGetBoard,
      AloneGetCommands

\* What manages asks for a session, the right to manage and the csrf token.
LEMMA ManagersManage == \A route \in Managers : Managing \subseteq route.checks
  <1> SUFFICES ASSUME NEW route \in Managers, NEW check \in Managing
               PROVE  check \in route.checks
    OBVIOUS
  <1> QED
    BY DEF Managers, Reading, Route, AloneManaging, CreateBoardInvitation,
        UpdateBoardInvitation, RevokeBoardInvitation, RotateBoardInvitation,
        UpdateStandaloneBoard, ArchiveBoard, UnarchiveBoard, FinalizeBoardEvidence,
        PublishBoardEvidence, RevokeBoardEvidence, DeleteBoard, AloneUpdateBoard,
        AloneArchiveBoard, AloneUnarchiveBoard, AloneDeleteBoard, AloneCreateInvitation,
        AloneUpdateInvitation, AloneRevokeInvitation, AloneRotateInvitation

\* What writes asks for the right to write and for the current epoch of a guest.
LEMMA WritersWrite == \A route \in Writers : Mutating \subseteq route.checks
  <1> SUFFICES ASSUME NEW route \in Writers, NEW check \in Mutating
               PROVE  check \in route.checks
    OBVIOUS
  <1> QED
    BY DEF Writers, Reading, Route, UploadBoardMedia, AppendCommands, SaveSnapshot,
        StartUpload, UploadPart, FinalizeUpload, AbortUpload, AloneAppendCommands,
        AloneSaveSnapshot

\* What creates a board names none.
LEMMA CreatorsCreate == \A route \in Creators :
    /\ {"member", "create", "csrf"} \subseteq route.checks
    /\ {"document", "row"} \cap route.checks = {}
  BY DEF Creators, Reading, Route, CreateStandaloneBoard, CreateLessonBoard,
      AloneCreateBoard

\* A ticket is given to those who may read and connect.
LEMMA TicketsConnect == \A route \in Tickets :
    Serving \cup {"connect", "csrf"} \subseteq route.checks /\ route.does = {"ticket"}
  BY DEF Tickets, Reading, Route, CollaborationTicket, AloneTicket

\* A route that leads to a board asks a policy about it.
LEMMA BoardsArePoliced == \A route \in Readers :
    \/ {"document", "row"} \cap route.checks = {}
    \/ {"member", "row", "read"} \subseteq route.checks
    \/ "document" \in route.checks /\ {"read", "manage"} \cap route.checks # {}
  BY DEF Readers, Reading, Route, Serving, BoardContext, ListStandaloneBoards,
      ListBoardInvitations, ListLessonBoards, GetBoard, GetBoardMedia,
      GetBoardMediaContent, BoardRevisions, BoardRevision, GetCommands,
      ListBoardEvidence, BoardEvidenceArtifact, BoardClientEvent, GeometryProxy,
      AloneContext, AloneListBoards, AloneListInvitations, AloneGetBoard,
      AloneGetCommands

\* What a twin of the board profile asks that the other does not, and back.
LEMMA TwinsAskAlike == \A twin \in Twins :
    /\ twin[1].does = twin[2].does
    /\ \A check \in twin[1].checks \ {"standalone"} : check \in twin[2].checks
    /\ \A check \in twin[2].checks \ {"create", "version"} : check \in twin[1].checks
    /\ {"member", "actor"} \cap twin[1].checks # {}
    /\ {"read", "write", "manage"} \cap twin[1].checks # {}
         => "document" \in twin[1].checks
  BY DEF Twins, Uploads, Reading, Route, Managing, AloneManaging, Serving, Mutating,
      BoardContext, CreateStandaloneBoard, ListStandaloneBoards, CreateBoardInvitation,
      ListBoardInvitations, UpdateBoardInvitation, RevokeBoardInvitation,
      RotateBoardInvitation, UpdateStandaloneBoard, CreateLessonBoard, ListLessonBoards,
      GetBoard, UploadBoardMedia, GetBoardMedia, GetBoardMediaContent, BoardRevisions,
      BoardRevision, GetCommands, AppendCommands, ArchiveBoard, UnarchiveBoard,
      CollaborationTicket, FinalizeBoardEvidence, ListBoardEvidence,
      PublishBoardEvidence, RevokeBoardEvidence, BoardEvidenceArtifact, SaveSnapshot,
      DeleteBoard, BoardClientEvent, GeometryProxy, AloneContext, AloneCreateBoard,
      AloneListBoards, AloneUpdateBoard, AloneArchiveBoard, AloneUnarchiveBoard,
      AloneDeleteBoard, AloneCreateInvitation, AloneListInvitations,
      AloneUpdateInvitation, AloneRevokeInvitation, AloneRotateInvitation,
      AloneGetBoard, AloneGetCommands, AloneAppendCommands, AloneSaveSnapshot,
      AloneTicket, StartUpload, UploadPart, FinalizeUpload, AbortUpload

-----------------------------------------------------------------------------
(* The two policies *)

\* No error is a success.
LEMMA OkIsNoRefusal == Ok \notin {Unauthorized, Forbidden, NotFound, Gone, 409, 422}
  BY DEF Ok, Unauthorized, Forbidden, NotFound, Gone

\* A live standalone board is answered alike by the policy of the full application
\* (access.py) and by the one the board profile has of its own (standalone_access.py).
THEOREM PoliciesAgree ==
    ASSUME NEW actor, NEW doc, Standalone(doc), ~doc.deleted
    PROVE  /\ ReadAnswer(actor, doc) = AloneReadAnswer(actor, doc)
           /\ WriteAnswer(actor, doc) = AloneWriteAnswer(actor, doc)
           /\ ManageAnswer(actor, doc) = AloneManageAnswer(actor, doc, Forbidden)
  <1>1. ReadAnswer(actor, doc) = AloneReadAnswer(actor, doc)
    BY DEF ReadAnswer, AloneReadAnswer, ReadAnswerOfGuest, MayRead, AloneMayRead
  <1>2. ReadAnswer(actor, doc) = Ok /\ ~IsGuest(actor) => actor.role # "parent"
    BY OkIsNoRefusal DEF ReadAnswer, MayRead
  <1>3. WriteAnswer(actor, doc) = AloneWriteAnswer(actor, doc)
    BY <1>1, <1>2 DEF WriteAnswer, AloneWriteAnswer
  <1>4. ManageAnswer(actor, doc) = AloneManageAnswer(actor, doc, Forbidden)
    BY <1>1 DEF ManageAnswer, AloneManageAnswer
  <1> QED BY <1>1, <1>3, <1>4

\* What the docstring of access.py claims: whoever may not read a live board is told
\* what is told of a board that does not exist, by every question of either policy.
THEOREM PoliciesConceal ==
    ASSUME NEW actor, NEW doc, ~doc.deleted, NEW otherwise
    PROVE  /\ ReadAnswer(actor, doc) # Ok =>
                 {ReadAnswer(actor, doc), WriteAnswer(actor, doc),
                  ManageAnswer(actor, doc)} = {NotFound}
           /\ AloneReadAnswer(actor, doc) # Ok =>
                 {AloneReadAnswer(actor, doc), AloneWriteAnswer(actor, doc),
                  AloneManageAnswer(actor, doc, otherwise)} = {NotFound}
  <1>1. ReadAnswer(actor, doc) \in {Ok, NotFound}
    BY DEF ReadAnswer, ReadAnswerOfGuest
  <1>2. AloneReadAnswer(actor, doc) \in {Ok, NotFound}
    BY DEF AloneReadAnswer
  <1> QED BY <1>1, <1>2 DEF WriteAnswer, ManageAnswer, AloneWriteAnswer, AloneManageAnswer

-----------------------------------------------------------------------------
(* What the checks ask *)

\* Whom a request may come from.
LEMMA MembersAreMembers ==
    ASSUME NEW r \in Requests
    PROVE  /\ r.member \in MemberActors \cup {Nobody}
           /\ r.guest \in GuestActors \cup {Nobody}
           /\ r.doc \in Documents \cup {Missing}
           /\ Actor(r) \in MemberActors \cup GuestActors \cup {Nobody}
           /\ r.member # Nobody => ~IsGuest(Actor(r)) /\ Actor(r) = r.member
  BY DEF Requests, Actor, MemberActors, GuestActors, Nobody, IsGuest

\* Found in the organization of the actor, and not deleted.
LEMMA DocumentChecked ==
    ASSUME NEW r, NEW app, AnswerTo(app, "document", r) = Ok
    PROVE  Found(r) /\ ~r.doc.deleted
  BY OkIsNoRefusal, CheckAnswers DEF DocumentAnswer

\* What is known of a request that passed the checks of a writing route.
LEMMA MutationChecked ==
    ASSUME NEW r \in Requests, NEW app, NEW checks, Mutating \subseteq checks,
           \A check \in checks : AnswerTo(app, check, r) = Ok
    PROVE  /\ Actor(r) # Nobody /\ Found(r) /\ ~r.doc.deleted
           /\ r.csrf /\ (IsGuest(Actor(r)) => r.epoch)
           /\ (IF app = "full" THEN WriteAnswer(Actor(r), r.doc)
                ELSE AloneWriteAnswer(Actor(r), r.doc)) = Ok
  BY OkIsNoRefusal, CheckAnswers, DocumentChecked DEF Mutating, Unless, EpochAnswer

\* And of a managing one.
LEMMA ManagementChecked ==
    ASSUME NEW r \in Requests, NEW app, NEW checks, Managing \subseteq checks,
           \A check \in checks : AnswerTo(app, check, r) = Ok
    PROVE  /\ r.member # Nobody /\ Found(r) /\ ~r.doc.deleted /\ r.csrf
           /\ (IF app = "full" THEN ManageAnswer(Actor(r), r.doc)
                ELSE AloneManageAnswer(Actor(r), r.doc, Forbidden)) = Ok
  BY OkIsNoRefusal, CheckAnswers, DocumentChecked DEF Managing, Unless, CsrfAnswer

-----------------------------------------------------------------------------
(* The routes *)

\* Which boards a policy opens at all.
WithinReach(actor, doc) ==
    /\ doc.org = actor.org
    /\ IsGuest(actor) =>
         doc.id = actor.board /\ Standalone(doc) /\ "board.read" \in actor.can
    /\ ~IsGuest(actor) =>
         /\ actor.role = "tutor" /\ Standalone(doc) => doc.owner = actor.id
         /\ actor.role \in {"student", "parent"} => doc.student \in actor.students

\* Whom either policy lets read is within reach of the board.
LEMMA PoliciesKeepWithin ==
    ASSUME NEW actor, NEW doc, doc.org = actor.org, 
           \/ ReadAnswer(actor, doc) = Ok
           \/ AloneReadAnswer(actor, doc) = Ok
    PROVE  WithinReach(actor, doc)
  <1>1. CASE ReadAnswer(actor, doc) = Ok
    BY <1>1, OkIsNoRefusal
    DEF ReadAnswer, ReadAnswerOfGuest, MayRead, HasStudentAccess, WithinReach
  <1>2. CASE AloneReadAnswer(actor, doc) = Ok
    BY <1>2, OkIsNoRefusal DEF AloneReadAnswer, AloneMayRead, WithinReach
  <1> QED BY <1>1, <1>2

\* Who may write or manage may read.
LEMMA WritersRead ==
    ASSUME NEW actor, NEW doc
    PROVE  /\ \/ WriteAnswer(actor, doc) = Ok
              \/ ManageAnswer(actor, doc) = Ok
              => ReadAnswer(actor, doc) = Ok
           /\ \/ AloneWriteAnswer(actor, doc) = Ok
              \/ AloneManageAnswer(actor, doc, Forbidden) = Ok
              => AloneReadAnswer(actor, doc) = Ok
  BY DEF WriteAnswer, ManageAnswer, AloneWriteAnswer, AloneManageAnswer

\* No request that names a board, in either application, is admitted to a board of
\* another organization, of another student, of another tutor or of another invitation.
THEOREM NoOneReachesFurther ==
    ASSUME NEW app, NEW route \in FullRoutes \cup AloneRoutes, NEW r \in Requests,
           Admitted(app, route, r), {"document", "row"} \cap route.checks # {}
    PROVE  WithinReach(Actor(r), r.doc)
  <1>1. \A check \in route.checks : AnswerTo(app, check, r) = Ok
    BY DEF Admitted
  <1>2. /\ Found(r)
        /\ \/ ReadAnswer(Actor(r), r.doc) = Ok
           \/ AloneReadAnswer(Actor(r), r.doc) = Ok
    <2>1. CASE route \in Readers
      <3>1. CASE {"member", "row", "read"} \subseteq route.checks
        <4>1. AnswerTo(app, "row", r) = Ok /\ AnswerTo(app, "read", r) = Ok
          BY <1>1, <3>1
        <4>2. AnswerTo(app, "row", r) = Unless(~Found(r), NotFound)
          BY DEF AnswerTo
        <4> QED BY <4>1, <4>2, CheckAnswers, OkIsNoRefusal DEF Unless
      <3>2. CASE "document" \in route.checks /\ {"read", "manage"} \cap route.checks # {}
        <4>1. \/ AnswerTo(app, "read", r) = Ok
              \/ AnswerTo(app, "manage", r) = Ok
          BY <1>1, <3>2
        <4> QED BY <1>1, <3>2, <4>1, DocumentChecked, CheckAnswers, WritersRead
      <3> QED BY <2>1, <3>1, <3>2, BoardsArePoliced
    <2>2. CASE route \in Managers
      BY <1>1, <2>2, ManagersManage, ManagementChecked, WritersRead
    <2>3. CASE route \in Writers
      BY <1>1, <2>3, WritersWrite, MutationChecked, WritersRead
    <2>4. CASE route \in Creators
      BY <2>4, CreatorsCreate
    <2>5. CASE route \in Tickets
      <3>1. AnswerTo(app, "document", r) = Ok /\ AnswerTo(app, "read", r) = Ok
        BY <1>1, <2>5, TicketsConnect DEF Serving
      <3> QED BY <3>1, DocumentChecked, CheckAnswers
    <2> QED BY <2>1, <2>2, <2>3, <2>4, <2>5, EveryRoute
  <1>3. r.doc.org = Actor(r).org
    BY <1>2 DEF Found
  <1> QED BY <1>2, <1>3, PoliciesKeepWithin

\* Without a session a request changes nothing but the live standalone board of its
\* invitation, if the invitation lets it write and its access epoch is the current one
\* (docs/board-api.md: every unsafe request revalidates epoch and capability).  A ticket
\* to listen is the one thing a reading guest gets.
THEOREM GuestsChangeOnlyTheirBoard ==
    ASSUME NEW app, NEW route \in FullRoutes \cup AloneRoutes, NEW r \in Requests,
           Admitted(app, route, r), r.member = Nobody, route.does \notin {{}, {"ticket"}}
    PROVE  /\ r.guest \in GuestActors
           /\ r.doc.id = r.guest.board /\ Standalone(r.doc) /\ ~r.doc.deleted
           /\ "board.write" \in r.guest.can
           /\ r.csrf /\ r.epoch
  <1>1. \A check \in route.checks : AnswerTo(app, check, r) = Ok
    BY DEF Admitted
  <1>2. "member" \notin route.checks
    BY <1>1, CheckAnswers, OkIsNoRefusal DEF Unless
  <1>3. Mutating \subseteq route.checks
    <2>1. route \notin Readers /\ route \notin Tickets
      BY ReadersOnlyRead, TicketsConnect
    <2>2. route \notin Managers /\ route \notin Creators
      BY <1>2, ManagersManage, CreatorsCreate DEF Managing
    <2> QED BY <2>1, <2>2, EveryRoute, WritersWrite
  <1>4. /\ Actor(r) # Nobody /\ Found(r) /\ ~r.doc.deleted
        /\ r.csrf /\ (IsGuest(Actor(r)) => r.epoch)
        /\ (IF app = "full" THEN WriteAnswer(Actor(r), r.doc)
             ELSE AloneWriteAnswer(Actor(r), r.doc)) = Ok
    BY <1>1, <1>3, MutationChecked
  <1>5. r.guest \in GuestActors /\ Actor(r) = r.guest /\ IsGuest(r.guest)
    BY <1>4, MembersAreMembers DEF Actor, GuestActors, IsGuest
  <1>6. "board.write" \in r.guest.can
    BY <1>4, <1>5, OkIsNoRefusal DEF WriteAnswer, AloneWriteAnswer
  <1>7. WithinReach(r.guest, r.doc)
    BY <1>4, <1>5, WritersRead, PoliciesKeepWithin DEF Found
  <1> QED BY <1>4, <1>5, <1>6, <1>7 DEF WithinReach

\* A parent looks on: no route lets it change a board of its children or any other.
THEOREM ParentsChangeNothing ==
    ASSUME NEW app, NEW route \in FullRoutes \cup AloneRoutes, NEW r \in Requests,
           r.member.role = "parent", route.does \notin {{}, {"ticket"}}
    PROVE  ~Admitted(app, route, r)
  <1> SUFFICES ASSUME \A check \in route.checks : AnswerTo(app, check, r) = Ok PROVE FALSE
    BY DEF Admitted
  <1>1. r.member # Nobody /\ Actor(r) = r.member /\ ~IsGuest(r.member)
    BY MembersAreMembers DEF Nobody
  <1>2. /\ WriteAnswer(r.member, r.doc) # Ok /\ AloneWriteAnswer(r.member, r.doc) # Ok
        /\ ManageAnswer(r.member, r.doc) # Ok
        /\ AloneManageAnswer(r.member, r.doc, Forbidden) # Ok
    BY <1>1, OkIsNoRefusal DEF WriteAnswer, AloneWriteAnswer, ManageAnswer,
       AloneManageAnswer, AloneReadAnswer, AloneMayRead, Staff
  <1>3. route \notin Readers /\ route \notin Tickets
    BY ReadersOnlyRead, TicketsConnect
  <1>4. route \notin Managers
    BY <1>1, <1>2, ManagersManage, ManagementChecked
  <1>5. route \notin Writers
    BY <1>1, <1>2, WritersWrite, MutationChecked
  <1>6. route \notin Creators
    BY <1>1, CreatorsCreate, CheckAnswers, OkIsNoRefusal DEF CreateAnswer, Staff
  <1> QED BY <1>3, <1>4, <1>5, <1>6, EveryRoute

\* What takes rights or gives them is told to the sockets of the board, what cuts
\* guests off is told as a revocation, and every batch raises the revision they hear
\* (docs/board-api.md: rotate, revoke and delete publish an access event).
THEOREM RightsAreAnnounced ==
    \A route \in FullRoutes \cup AloneRoutes :
        /\ "rights" \in route.does => route.tells # {}
        /\ "disconnect" \in route.does => "revocation" \in route.tells
        /\ "append" \in route.does => "revision" \in route.tells
  <1> DEFINE Told(route) ==
        /\ "rights" \in route.does => route.tells # {}
        /\ "disconnect" \in route.does => "revocation" \in route.tells
        /\ "append" \in route.does => "revision" \in route.tells
  <1>1. \A route \in Readers \cup Tickets : Told(route)
    BY ReadersOnlyRead, TicketsConnect
  <1>2. \A route \in Managers : Told(route)
    BY DEF Managers, Route, CreateBoardInvitation,
        UpdateBoardInvitation, RevokeBoardInvitation, RotateBoardInvitation,
        UpdateStandaloneBoard, ArchiveBoard, UnarchiveBoard, FinalizeBoardEvidence,
        PublishBoardEvidence, RevokeBoardEvidence, DeleteBoard, AloneUpdateBoard,
        AloneArchiveBoard, AloneUnarchiveBoard, AloneDeleteBoard, AloneCreateInvitation,
        AloneUpdateInvitation, AloneRevokeInvitation, AloneRotateInvitation
  <1>3. \A route \in Writers : Told(route)
    BY DEF Writers, Route, UploadBoardMedia, AppendCommands, SaveSnapshot,
        StartUpload, UploadPart, FinalizeUpload, AbortUpload, AloneAppendCommands,
        AloneSaveSnapshot
  <1>4. \A route \in Creators : Told(route)
    BY DEF Creators, Route, CreateStandaloneBoard, CreateLessonBoard, AloneCreateBoard
  <1> QED BY <1>1, <1>2, <1>3, <1>4, EveryRoute

\* docs/board-api.md says that the board routes are shared by the two applications: what
\* a tutor, an admin, a guest or nobody asks of a standalone board is admitted by both or
\* by neither and does the same.  Snapshots of versions 1.5 and 1.6 are the exception.
THEOREM AppsAgree ==
    ASSUME NEW twin \in Twins, NEW r \in Requests, Standalone(r.doc),
           r.member.role \in Staff \cup {"none"}, "version" \notin r.wrong
    PROVE  /\ Admitted("full", twin[1], r) <=> Admitted("board", twin[2], r)
           /\ twin[1].does = twin[2].does
  <1>1. ASSUME NEW check, r.doc.deleted => check \notin {"read", "write", "manage"}
        PROVE  AnswerTo("full", check, r) = AnswerTo("board", check, r)
    <2>1. CASE check \in {"read", "write", "manage"}
      BY <1>1, <2>1, CheckAnswers, PoliciesAgree
    <2>2. CASE check \notin {"read", "write", "manage"}
      BY <2>2 DEF AnswerTo
    <2> QED BY <2>1, <2>2
  <1>2. ASSUME NEW app
        PROVE  /\ AnswerTo(app, "standalone", r) = Ok /\ AnswerTo(app, "version", r) = Ok
               /\ Actor(r) # Nobody => AnswerTo(app, "create", r) = Ok
    <2>1. AnswerTo(app, "standalone", r) = Ok /\ AnswerTo(app, "version", r) = Ok
      BY CheckAnswers DEF Unless
    <2>2. CASE r.member # Nobody
      <3>1. r.member.role \in Staff
        BY <2>2, MembersAreMembers DEF MemberActors, Staff
      <3> QED BY <2>1, <2>2, <3>1, CheckAnswers, MembersAreMembers DEF CreateAnswer
    <2>3. CASE r.member = Nobody
      <3>1. Actor(r) = Nobody \/ IsGuest(Actor(r))
        BY <2>3, MembersAreMembers DEF Actor, GuestActors, IsGuest
      <3> QED BY <2>1, <3>1, CheckAnswers
    <2> QED BY <2>2, <2>3
  <1>3. ASSUME NEW app, NEW i \in {1, 2}, Admitted(app, twin[i], r)
        PROVE  /\ Actor(r) # Nobody
               /\ r.doc.deleted => {"read", "write", "manage"} \cap twin[i].checks = {}
    <2>1. \A check \in twin[i].checks : AnswerTo(app, check, r) = Ok
      BY <1>3 DEF Admitted
    <2>2. "member" \in twin[i].checks \/ "actor" \in twin[i].checks
      BY TwinsAskAlike
    <2>3. {"read", "write", "manage"} \cap twin[i].checks # {}
            => "document" \in twin[i].checks
      BY TwinsAskAlike
    <2>4. Actor(r) # Nobody
      BY <2>1, <2>2, CheckAnswers, OkIsNoRefusal, MembersAreMembers DEF Unless, Actor
    <2> QED BY <2>1, <2>3, <2>4, DocumentChecked
  <1>4. ASSUME Admitted("full", twin[1], r), NEW check \in twin[2].checks
        PROVE  AnswerTo("board", check, r) = Ok
    <2>1. CASE check \in {"create", "version"}
      BY <1>2, <1>3, <1>4, <2>1
    <2>2. CASE check \notin {"create", "version"}
      <3>1. check \in twin[1].checks
        BY <2>2, TwinsAskAlike
      <3> QED BY <1>1, <1>3, <1>4, <3>1 DEF Admitted
    <2> QED BY <2>1, <2>2
  <1>5. ASSUME Admitted("board", twin[2], r), NEW check \in twin[1].checks
        PROVE  AnswerTo("full", check, r) = Ok
    <2>1. CASE check = "standalone"
      BY <1>2, <2>1
    <2>2. CASE check # "standalone"
      <3>1. check \in twin[2].checks
        BY <2>2, TwinsAskAlike
      <3> QED BY <1>1, <1>3, <1>5, <3>1 DEF Admitted
    <2> QED BY <2>1, <2>2
  <1> QED BY <1>4, <1>5, TwinsAskAlike DEF Admitted

\* The two compositions of the board profile serve the same paths: what the board app
\* serves the allowlist lets through, but the command uploads, which the allowlist was
\* never told of.
THEOREM AllowlistServes ==
    /\ ProfileRoutes \subseteq FullRoutes
    /\ \A twin \in Twins : twin[1] \in Uploads \/ twin[1] \in ProfileRoutes
  <1>1. ProfileRoutes \subseteq FullRoutes BY DEF ProfileRoutes, FullRoutes
  <1>2. \A twin \in Twins : twin[1] \in Uploads \/ twin[1] \in ProfileRoutes
    BY DEF ProfileRoutes, Twins
  <1> QED BY <1>1, <1>2

-----------------------------------------------------------------------------
(* THE OTHER ROUTES, THE WEEK AND THE BOOKING OF LESSONS *)

-----------------------------------------------------------------------------
(* Who the one who asks can be *)

\* Without a session that holds, or a member by a current membership.
LEMMA WhoIsSignedIn ==
    ASSUME NEW db \in Databases, NEW user, NEW org
    PROVE  /\ \/ InWorkspace(db, user, org) = Nobody
              \/ \E m \in Current(db, user) :
                    m.org = org /\ InWorkspace(db, user, org) = Member(db, m)
           /\ InWorkspace(db, user, org) # Nobody
                 => InWorkspace(db, user, org).role \in Staff \cup Recipients
  <1> DEFINE here == {m \in Current(db, user) : m.org = org}
  <1>1. CASE here = {}
    BY <1>1 DEF InWorkspace
  <1>2. CASE here # {}
    <2>1. PICK m \in here : InWorkspace(db, user, org) = Member(db, m)
      BY <1>2 DEF InWorkspace
    <2>2. m.role \in Staff \cup Recipients
      BY DEF Current, Databases, Memberships
    <2>3. InWorkspace(db, user, org).role = m.role
      BY <2>1 DEF Member
    <2> QED BY <2>1, <2>2, <2>3
  <1> QED BY <1>1, <1>2

\* Nobody is of no role and is no member.
LEMMA NobodyIsNoMember ==
    /\ Nobody.role \notin Staff \cup Recipients
    /\ \A db, m : Member(db, m) # Nobody
  BY DEF Nobody, Staff, Recipients, Member

-----------------------------------------------------------------------------
(* What the routes of a kind ask *)

\* A route for members asks for a session.
LEMMA MembersAreAsked == \A route \in ForMembers : "session" \in route.checks
  BY DEF ForMembers, Logout, SwitchWorkspace, JobStatus, WorkflowStatus,
      StudentAnalytics, StudentPracticeBrief, Page, Act, Quiet, WebRoute

\* A route for students and parents asks for a session too.
LEMMA RecipientsAreAsked ==
    \A route \in ForRecipients :
        \/ "recipient" \in route.checks
        \/ "session" \in route.checks /\ "student" \in route.checks
  BY DEF ForRecipients, PortalHome, PortalDelivery, PortalArtifact,
      PortalArtifactPreview, Notifications, NotificationRead, Bootstrap, GetState,
      PostEvents, PutState, PutMyMetadata, Page, Download, Act, Quiet, WebRoute

\* A route of the administration asks for an admin.
LEMMA AdminsAreAsked == \A route \in ForAdmins : "admin" \in route.checks
  BY DEF ForAdmins, TeamPage, InviteMember, UpdateMember, RevokeInvitation, AuditPage,
      Page, Act, WebRoute

\* A route of the teaching staff asks for a tutor.
LEMMA TutorsAreAsked == \A route \in ForTutors : "tutor" \in route.checks
  BY DEF ForTutors, StudentsPage, CreateStudent, StudentDetail, InviteRecipient,
      RevokeRecipientAccess, RevokeRecipientInvitation, UpdateStudent, Schedule,
      CreateLesson, LessonDetail, OpenLessonBoard, UpdateNotes, JoinAsTutor, EndLesson,
      DemoRoom, ProcessLesson, ArtifactMarkdown, ArtifactVersionDownload, ApproveRun,
      UpdateTranscript, OperationsPage, RetryJob, CancelJob, ResendOutbox, PublishRun,
      RevokeRun, PutStudentMetadata, StudentPracticePage, Dashboard, Page, Download,
      Act, WebRoute

\* Checks that look a row up by the path.
RowChecks == {"row", "active", "delivery", "artifact", "notification", "analytics"}
Leads(route) == RowChecks \cap route.checks # {}

\* Every one of them finds the row in the organization of the one who asks.
LEMMA RowsAreFound ==
    ASSUME NEW db, NEW r, NEW route, Leads(route), LetIn(route, db, r)
    PROVE  RowFound(r, Principal(db, r))
  <1>1. PICK check \in RowChecks : Passes(check, db, r)
    BY DEF Leads, LetIn
  <1> QED BY <1>1 DEF Passes, RowChecks, AnalyticsAllowed, InPortal

\* Who is let through to a route that is not open to all is signed in.
LEMMA SignedIn ==
    ASSUME NEW db, NEW r, NEW route \in WebRouteSet \ Open, LetIn(route, db, r)
    PROVE  Principal(db, r) # Nobody
  <1>1. \A check \in route.checks : Passes(check, db, r)
    BY DEF LetIn
  <1>2. CASE route \in ForMembers
    BY <1>1, <1>2, MembersAreAsked DEF Passes
  <1>3. CASE route \in ForRecipients
    BY <1>1, <1>3, RecipientsAreAsked, NobodyIsNoMember DEF Passes
  <1>4. CASE route \in ForAdmins
    BY <1>1, <1>4, AdminsAreAsked, NobodyIsNoMember DEF Passes, Staff
  <1>5. CASE route \in ForTutors
    BY <1>1, <1>5, TutorsAreAsked, NobodyIsNoMember DEF Passes
  <1> QED BY <1>2, <1>3, <1>4, <1>5 DEF WebRouteSet

-----------------------------------------------------------------------------
(* Organizations, sessions *)

\* Tenants stay apart: whoever is admitted to a row holds, at that moment, an active
\* membership in the organization of the row, whatever the cookie has kept.
THEOREM TenantsStayApart ==
    ASSUME NEW db \in Databases, NEW r \in WebRequests, NEW route \in WebRouteSet \ Open,
           Leads(route), LetIn(route, db, r)
    PROVE  \E m \in db.memberships :
              /\ m.user = r.session.user /\ m.org = r.row.org /\ m.active
              /\ m.user \in db.users /\ m.org \in db.organizations
  <1>1. Principal(db, r) # Nobody /\ RowFound(r, Principal(db, r))
    BY SignedIn, RowsAreFound
  <1>2. Principal(db, r) = InWorkspace(db, r.session.user, r.session.org)
    BY <1>1 DEF Principal
  <1>3. PICK m \in Current(db, r.session.user) :
          m.org = r.session.org /\ Principal(db, r) = Member(db, m)
    BY <1>1, <1>2, WhoIsSignedIn
  <1>4. m.org = r.row.org
    BY <1>1, <1>3 DEF RowFound, Member
  <1> QED BY <1>3, <1>4 DEF Current

\* A session that is too old, was idle too long, or whose membership, user or
\* organization is gone opens nothing but the routes open to all.
THEOREM LostSessionsOpenNothing ==
    ASSUME NEW db \in Databases, NEW r \in WebRequests, NEW route \in WebRouteSet,
           LetIn(route, db, r),
           \/ r.session.age > SessionMaxAge
           \/ r.session.idle > SessionIdleTimeout
           \/ ~\E m \in Current(db, r.session.user) : m.org = r.session.org
    PROVE  route \in Open
  <1>1. Principal(db, r) = Nobody
    BY WhoIsSignedIn DEF Principal, Expired
  <1> QED BY <1>1, SignedIn

\* Signing in leaves a session that the next request finds a member by, in the
\* organization that was signed in to: nobody is sent back to the sign-in at once.
THEOREM SigningInHolds ==
    ASSUME SessionMaxAge \in Nat, SessionIdleTimeout \in Nat, NoOne \notin People,
           NEW db \in Databases, NEW r \in WebRequests, NEW next \in WebRequests,
           NEW route \in {Login, BoardLogin}, LetIn(route, db, r),
           next.session = SessionAfter(route, db, r)
    PROVE  /\ Principal(db, next) # Nobody
           /\ Principal(db, next).org = Authenticated(db, r.signs).org
  <1> DEFINE p == Authenticated(db, r.signs)
  <1>1. p # Nobody /\ route.does = {"signin"}
    <2>1. "credentials" \in route.checks /\ route.does = {"signin"}
      BY DEF Login, BoardLogin, Quiet, WebRoute
    <2>2. Passes("credentials", db, r)
      BY <2>1 DEF LetIn
    <2> QED BY <2>1, <2>2 DEF Passes
  <1>2. PICK m \in Current(db, r.signs) : p = Member(db, m)
    BY <1>1 DEF Authenticated
  <1>3. next.session = Fresh(r.signs, p.org)
    <2>1. "signin" \in route.does /\ "enter" \notin route.does
          /\ "signout" \notin route.does /\ "switch" \notin route.does
      BY <1>1
    <2> QED BY <2>1 DEF SessionAfter
  <1>4. r.signs \in People
    BY <1>2 DEF Current, Databases, Memberships
  <1>5. next.session # NoSession /\ ~Expired(next.session)
    BY <1>3, <1>4 DEF Fresh, NoSession, Expired
  <1>6. Principal(db, next) = InWorkspace(db, r.signs, p.org)
    BY <1>3, <1>5 DEF Principal, Fresh
  <1>7. p.org = m.org
    BY <1>2 DEF Member
  <1>8. InWorkspace(db, r.signs, p.org) # Nobody
    BY <1>2, <1>7, NobodyIsNoMember DEF InWorkspace
  <1>9. PICK n \in Current(db, r.signs) :
          n.org = p.org /\ InWorkspace(db, r.signs, p.org) = Member(db, n)
    BY <1>8, WhoIsSignedIn
  <1> QED BY <1>6, <1>8, <1>9 DEF Member

-----------------------------------------------------------------------------
(* Changes *)

\* The routes whose change rests on something else than the csrf token of a session.
Trusting == {OpenLessonBoard, JoinAsTutor, JoinAsStudent, RecordingReady}

\* No form of another site changes anything: every route that changes something asks
\* for the csrf token, except the callback, which asks for a signature, the link of the
\* student, which carries a token, and two pages of tutors that prepare what they open.
THEOREM ForgedRequestsChangeNothing ==
    ASSUME NEW db, NEW r, NEW route \in WebRouteSet, route.does # {},
           LetIn(route, db, r), ~r.csrf
    PROVE  /\ route \in Trusting
           /\ \/ "signature" \notin r.wrong
              \/ "token" \notin r.wrong
              \/ Principal(db, r).role \in Staff
  <1>1. \A check \in route.checks : Passes(check, db, r)
    BY DEF LetIn
  <1>2. "csrf" \notin route.checks
    BY <1>1 DEF Passes
  <1>3. route \in Trusting
    <2>1. CASE route \in Open
      BY <1>2, <2>1 DEF Open, LoginPage, Login, BoardLogin, InvitationPage,
         AcceptInvitation, JoinAsStudent, LessonFinished, RecordingReady, HealthLive,
         HealthReady, Metrics, Page, Act, Quiet, WebRoute, Trusting
    <2>2. CASE route \in ForMembers
      BY <1>2, <2>2 DEF ForMembers, Logout, SwitchWorkspace, JobStatus, WorkflowStatus,
         StudentAnalytics, StudentPracticeBrief, Page, Act, Quiet, WebRoute
    <2>3. CASE route \in ForRecipients
      BY <1>2, <2>3 DEF ForRecipients, PortalHome, PortalDelivery, PortalArtifact,
         PortalArtifactPreview, Notifications, NotificationRead, Bootstrap, GetState,
         PostEvents, PutState, PutMyMetadata, Page, Download, Act, Quiet, WebRoute
    <2>4. CASE route \in ForAdmins
      BY <1>2, <2>4 DEF ForAdmins, TeamPage, InviteMember, UpdateMember,
         RevokeInvitation, AuditPage, Page, Act, WebRoute
    <2>5. CASE route \in ForTutors
      BY <1>2, <2>5 DEF ForTutors, StudentsPage, CreateStudent, StudentDetail,
         InviteRecipient, RevokeRecipientAccess, RevokeRecipientInvitation,
         UpdateStudent, Schedule, CreateLesson, LessonDetail, OpenLessonBoard,
         UpdateNotes, JoinAsTutor, EndLesson, DemoRoom, ProcessLesson, ArtifactMarkdown,
         ArtifactVersionDownload, ApproveRun, UpdateTranscript, OperationsPage,
         RetryJob, CancelJob, ResendOutbox, PublishRun, RevokeRun, PutStudentMetadata,
         StudentPracticePage, Dashboard, Page, Download, Act, WebRoute, Trusting
    <2> QED BY <2>1, <2>2, <2>3, <2>4, <2>5 DEF WebRouteSet
  <1>4. \/ "signature" \in route.checks
        \/ "token" \in route.checks
        \/ "tutor" \in route.checks
    BY <1>3 DEF Trusting, OpenLessonBoard, JoinAsTutor, JoinAsStudent, RecordingReady,
       WebRoute
  <1> QED BY <1>1, <1>3, <1>4 DEF Passes

\* Of what a recipient may change nothing is of somebody else: its session, the
\* notifications meant for it and, for a student, the practice of the one student it is.
THEOREM RecipientsChangeTheirOwn ==
    ASSUME NEW db \in Databases, NEW r \in WebRequests, NEW route \in WebRouteSet \ Open,
           LetIn(route, db, r), Principal(db, r).role \in Recipients
    PROVE  /\ route.does \subseteq {"signout", "switch", "notification", "practice",
                                    "metadata"}
           /\ "notification" \in route.does =>
                 r.row.user = Principal(db, r).id
                   /\ r.row.student \in Principal(db, r).students
           /\ {"practice", "metadata"} \cap route.does # {} =>
                 /\ Principal(db, r).role = "student"
                 /\ \E s \in Students : OwnStudents(db, Principal(db, r)) = {s}
  <1>1. \A check \in route.checks : Passes(check, db, r)
    BY DEF LetIn
  <1>2. route \notin ForAdmins /\ route \notin ForTutors
    BY <1>1, AdminsAreAsked, TutorsAreAsked DEF Passes, Staff, Recipients
  <1>3. CASE route \in ForMembers
    BY <1>3 DEF ForMembers, Logout, SwitchWorkspace, JobStatus, WorkflowStatus,
       StudentAnalytics, StudentPracticeBrief, Page, Act, Quiet, WebRoute
  <1>4. CASE route \in ForRecipients
    <2>1. /\ route.does \subseteq {"notification", "practice", "metadata"}
          /\ "notification" \in route.does => "notification" \in route.checks
          /\ {"practice", "metadata"} \cap route.does # {} => "student" \in route.checks
      BY <1>4 DEF ForRecipients, PortalHome, PortalDelivery, PortalArtifact,
         PortalArtifactPreview, Notifications, NotificationRead, Bootstrap, GetState,
         PostEvents, PutState, PutMyMetadata, Page, Download, Act, Quiet, WebRoute
    <2> QED BY <1>1, <2>1 DEF Passes, InPortal, BoundStudent
  <1> QED BY <1>2, <1>3, <1>4 DEF WebRouteSet

-----------------------------------------------------------------------------
(* What a student or a parent may see *)

\* A recipient is led to nothing but rows of the students it has access to, except by
\* the two status routes, which ask for a session of the organization and no more.
THEOREM RecipientsKeepToTheirStudents ==
    ASSUME NEW db \in Databases, NEW r \in WebRequests,
           NEW route \in WebRouteSet \ (Open \cup {JobStatus, WorkflowStatus}),
           Leads(route), LetIn(route, db, r), Principal(db, r).role \in Recipients
    PROVE  r.row.student \in Principal(db, r).students
  <1>1. \A check \in route.checks : Passes(check, db, r)
    BY DEF LetIn
  <1>2. route \notin ForAdmins /\ route \notin ForTutors
    BY <1>1, AdminsAreAsked, TutorsAreAsked DEF Passes, Staff, Recipients
  <1>3. {"delivery", "artifact", "notification", "analytics"} \cap route.checks # {}
    <2>1. CASE route \in ForMembers
      BY <2>1 DEF ForMembers, Logout, SwitchWorkspace, JobStatus, WorkflowStatus,
         StudentAnalytics, StudentPracticeBrief, Page, Act, Quiet, WebRoute, Leads,
         RowChecks
    <2>2. CASE route \in ForRecipients
      BY <2>2 DEF ForRecipients, PortalHome, PortalDelivery, PortalArtifact,
         PortalArtifactPreview, Notifications, NotificationRead, Bootstrap, GetState,
         PostEvents, PutState, PutMyMetadata, Page, Download, Act, Quiet, WebRoute, Leads,
         RowChecks
    <2> QED BY <1>2, <2>1, <2>2 DEF WebRouteSet
  <1>4. CASE {"delivery", "artifact", "notification"} \cap route.checks # {}
    BY <1>1, <1>4 DEF Passes, InPortal
  <1>5. CASE "analytics" \in route.checks
    <2>1. AnalyticsAllowed(db, r, Principal(db, r))
      BY <1>1, <1>5 DEF Passes
    <2> DEFINE p == Principal(db, r)
    <2>2. PICK a \in AccessesOf(db, p.id, p.org) : a.student = r.row.student
      BY <2>1 DEF AnalyticsAllowed, Staff, Recipients
    <2>3. p # Nobody
      BY NobodyIsNoMember
    <2>4. p = InWorkspace(db, r.session.user, r.session.org)
      BY <2>3 DEF Principal
    <2>5. PICK m \in Current(db, r.session.user) : p = Member(db, m)
      BY <2>3, <2>4, WhoIsSignedIn
    <2>6. p.students = {b.student : b \in AccessesOf(db, p.id, p.org)}
      BY <2>5 DEF Member
    <2> QED BY <2>2, <2>6
  <1> QED BY <1>3, <1>4, <1>5

\* What the portal lists can be opened: a delivery has a page, a notification can be
\* marked as read, with the csrf token, by the request that follows.
THEOREM HomeOpens ==
    ASSUME NEW db \in Databases, NEW r \in WebRequests, Principal(db, r).role \in Recipients,
           NEW rows \in SUBSET Rows, r.row \in Rows
    PROVE  /\ r.row \in HomeDeliveries(Principal(db, r), rows)
                => LetIn(PortalDelivery, db, r)
           /\ r.row \in HomeNotifications(Principal(db, r), rows) /\ r.csrf
                => LetIn(NotificationRead, db, r)
  <1>1. NoRow \notin Rows
    BY DEF NoRow, Rows
  <1> QED
    BY <1>1 DEF HomeDeliveries, HomeNotifications, LetIn, PortalDelivery,
       NotificationRead, Page, Quiet, WebRoute, Passes, InPortal, RowFound

\* And board evidence the portal lists is served by the board routes, to the same member,
\* whether its board is still there or not.
THEOREM EvidenceOpens ==
    ASSUME NEW p \in MemberActors, p.role \in Recipients, NoStudent \notin Students,
           NEW rows \in SUBSET Rows, NEW e \in HomeEvidence(p, rows),
           NEW r \in Requests, r.member = p, r.published,
           r.doc \in Documents, r.doc # Missing,
           r.doc.org = e.org, r.doc.student = e.student
    PROVE  Admitted("full", BoardEvidenceArtifact, r)
  <1>1. p # Nobody /\ ~IsGuest(p)
    BY DEF MemberActors, Nobody, IsGuest
  <1>2. Actor(r) = p
    BY <1>1 DEF Actor, Nobody, Nobody
  <1>3. e.org = p.org /\ e.student \in p.students
    BY DEF HomeEvidence
  <1>4. Found(r)
    BY <1>2, <1>3 DEF Found
  <1>5. e.student \in Students
    BY <1>3 DEF MemberActors
  <1>6. ReadAnswer(p, r.doc) = Ok
    BY <1>1, <1>3, <1>5 DEF ReadAnswer, MayRead, Standalone,
       HasStudentAccess, Recipients, NoStudent, NoStudent
  <1> QED
    BY <1>1, <1>2, <1>4, <1>6 DEF Admitted, BoardEvidenceArtifact,
       Reading, Route, AnswerTo, Unless, Nobody,
       Nobody

-----------------------------------------------------------------------------
(* Scheduling *)

\* Lessons booked one after the other never overlap: what create admits keeps the
\* standing lessons of an organization apart.
THEOREM BookingsStayApart ==
    ASSUME NEW lessons \in SUBSET Lessons, NEW new \in Lessons,
           NoClash(lessons), Bookable(lessons, new)
    PROVE  NoClash(lessons \cup {new})
  <1> SUFFICES ASSUME NEW a \in lessons \cup {new}, NEW b \in lessons \cup {new},
                      a # b, a.org = b.org, "cancelled" \notin {a.status, b.status}
               PROVE  ~Overlap(a, b)
    BY DEF NoClash
  <1>1. CASE a \in lessons /\ b \in lessons
    BY <1>1 DEF NoClash
  <1>2. CASE a \in lessons /\ b = new
    BY <1>2 DEF Bookable, Standing
  <1>3. CASE a = new /\ b \in lessons
    <2>1. ~Overlap(b, a)
      BY <1>3 DEF Bookable, Standing
    <2> QED BY <1>3, <2>1 DEF Overlap, Lessons
  <1> QED BY <1>1, <1>2, <1>3

\* Every lesson the week finds is shown on exactly one of its seven days, whatever the
\* zone does to its clocks, as long as midnight parts the days.
THEOREM WeekShowsEveryLesson ==
    ASSUME NEW lessons \in SUBSET Lessons, NEW org, NEW monday \in Int,
           NEW LocalDay \in [Int -> Int], NEW DayStart \in [Int -> Int],
           \A day, instant \in Int :
              LocalDay[instant] >= day <=> instant >= DayStart[day],
           NEW l \in InWeek(lessons, org, monday, DayStart)
    PROVE  /\ LocalDay[l.starts] \in WeekDays(monday)
           /\ \A day \in WeekDays(monday) :
                 l \in OnDay(InWeek(lessons, org, monday, DayStart), day, LocalDay)
                    <=> day = LocalDay[l.starts]
  <1>1. l.starts \in Int /\ monday + 7 \in Int
    BY DEF InWeek, Lessons
  <1>2. LocalDay[l.starts] \in Int
    BY <1>1
  <1>3. DayStart[monday] <= l.starts /\ l.starts < DayStart[monday + 7]
    BY DEF InWeek
  <1>4. DayStart[monday] \in Int /\ DayStart[monday + 7] \in Int
    BY <1>1
  <1>5. LocalDay[l.starts] >= monday /\ ~(LocalDay[l.starts] >= monday + 7)
    BY <1>1, <1>3, <1>4
  <1>6. LocalDay[l.starts] \in WeekDays(monday)
    BY <1>2, <1>5 DEF WeekDays
  <1> QED BY <1>6 DEF OnDay

-----------------------------------------------------------------------------
(* WHAT IS RELIED ON ONCE AN ENVELOPE OR THE SETTINGS ARE ACCEPTED *)

(* Envelopes *)

\* A group lists identifiers.
LEMMA GroupsListIds ==
    ASSUME NEW graph \in Graphs, NEW g \in DOMAIN graph.groups
    PROVE  graph.groups[g].objects \in Seq(Ids)
  <1>1. graph.groups \in Seq(Groups) BY DEF Graphs
  <1>2. graph.groups[g] \in Groups BY <1>1
  <1> QED BY <1>2 DEF Groups

\* The place where an object is named is found, and is the only one.
LEMMA OnePlace ==
    ASSUME NEW graph \in Graphs, Restorable(graph),
           NEW g \in DOMAIN graph.groups, NEW k \in DOMAIN graph.groups[g].objects
    PROVE  LET id == graph.groups[g].objects[k] IN
           /\ <<g, k>> \in Places(graph, id)
           /\ Membership(graph, id) = graph.groups[g].id
  <1> DEFINE id == graph.groups[g].objects[k]
  <1>3. graph.groups[g].objects \in Seq(Ids) BY GroupsListIds
  <1>4. k \in Nat /\ id \in Ids BY <1>3
  <1>5. <<g, k>> \in Places(graph, id) BY <1>4 DEF Places
  <1>6. \A p, q \in Places(graph, id) : p = q BY <1>4 DEF Restorable, GroupsSound
  <1>7. PlaceOf(graph, id) = <<g, k>> BY <1>5, <1>6 DEF PlaceOf
  <1>8. PlaceOf(graph, id)[1] = g BY <1>7
  <1>9. Places(graph, id) # {} BY <1>5
  <1>10. Membership(graph, id) = graph.groups[g].id BY <1>8, <1>9 DEF Membership
  <1> QED BY <1>5, <1>10

\* The two descriptions of the groups in a pasted graph are one: an object names a
\* group exactly when the group lists the object.  Clients follow the one or the other.
THEOREM GroupsAgree ==
    ASSUME NEW graph \in Graphs, Restorable(graph), NoGroup \notin SafeIds,
           NEW i \in DOMAIN graph.objects, NEW g \in DOMAIN graph.groups
    PROVE  graph.objects[i].group = graph.groups[g].id
               <=> graph.objects[i].id \in Range(graph.groups[g].objects)
  <1> DEFINE object == graph.objects[i]
             group == graph.groups[g]
  <1>1. Membership(graph, object.id) = object.group BY DEF Restorable, ObjectsSound
  <1>2. ASSUME object.id \in Range(group.objects)
        PROVE  object.group = group.id
    <2>1. PICK k \in DOMAIN group.objects : group.objects[k] = object.id
      BY <1>2 DEF Range
    <2> QED BY <1>1, <2>1, OnePlace
  <1>3. ASSUME object.group = group.id
        PROVE  object.id \in Range(group.objects)
    <2>1. group.id # NoGroup BY DEF Restorable, Distinct, IdsOf
    <2>2. Places(graph, object.id) # {} BY <1>1, <1>3, <2>1 DEF Membership
    <2>3. PICK p \in Places(graph, object.id) : TRUE BY <2>2
    <2>4. /\ p[1] \in DOMAIN graph.groups
          /\ p[2] \in DOMAIN graph.groups[p[1]].objects
          /\ graph.groups[p[1]].objects[p[2]] = object.id
      BY <2>3 DEF Places
    <2>5. Membership(graph, object.id) = graph.groups[p[1]].id BY <2>4, OnePlace
    <2>6. graph.groups[p[1]].id = group.id BY <1>1, <1>3, <2>5
    <2>7. p[1] = g BY <2>4, <2>6 DEF Restorable, Distinct
    <2> QED BY <2>4, <2>7 DEF Range
  <1> QED BY <1>2, <1>3

\* No object lies in two groups, nor twice in one.
THEOREM GroupsAreApart ==
    ASSUME NEW graph \in Graphs, Restorable(graph),
           NEW g \in DOMAIN graph.groups, NEW h \in DOMAIN graph.groups,
           NEW k \in DOMAIN graph.groups[g].objects,
           NEW l \in DOMAIN graph.groups[h].objects,
           graph.groups[g].objects[k] = graph.groups[h].objects[l]
    PROVE  g = h /\ k = l
  <1>1. graph.groups[g].objects[k] \in Ids BY GroupsListIds
  <1>2. /\ <<g, k>> \in Places(graph, graph.groups[g].objects[k])
        /\ <<h, l>> \in Places(graph, graph.groups[g].objects[k])
    BY OnePlace
  <1>3. <<g, k>> = <<h, l>> BY <1>1, <1>2 DEF Restorable, GroupsSound
  <1> QED BY <1>3

\* What the graph leads to is in the graph: the groups, records and imports a client
\* follows from an object or a record are never missing.
THEOREM NothingDangles ==
    ASSUME NEW graph \in Graphs, Restorable(graph)
    PROVE  /\ \A i \in DOMAIN graph.objects :
                 /\ graph.objects[i].group # NoGroup =>
                        \E g \in DOMAIN graph.groups :
                            graph.groups[g].id = graph.objects[i].group
                 /\ graph.objects[i].import # NoImport =>
                        \E e \in DOMAIN graph.imports :
                            /\ graph.imports[e].id = graph.objects[i].import
                            /\ \E g \in DOMAIN graph.groups :
                                   graph.groups[g].id = graph.imports[e].root
           /\ \A g \in DOMAIN graph.groups :
                 \E i \in DOMAIN graph.objects :
                     graph.objects[i].id \in Range(graph.groups[g].objects)
  <1>1. ASSUME NEW i \in DOMAIN graph.objects, graph.objects[i].group # NoGroup
        PROVE  \E g \in DOMAIN graph.groups : graph.groups[g].id = graph.objects[i].group
    BY <1>1 DEF Restorable, ObjectsSound, IdsOf
  <1>2. ASSUME NEW i \in DOMAIN graph.objects, graph.objects[i].import # NoImport
        PROVE  \E e \in DOMAIN graph.imports :
                   /\ graph.imports[e].id = graph.objects[i].import
                   /\ \E g \in DOMAIN graph.groups :
                          graph.groups[g].id = graph.imports[e].root
    <2>1. PICK e \in DOMAIN graph.imports : graph.imports[e].id = graph.objects[i].import
      BY <1>2 DEF Restorable, ObjectsSound, IdsOf
    <2>2. graph.imports[e].root \in IdsOf(graph.groups)
      BY <2>1 DEF Restorable, EntriesSound
    <2> QED BY <2>1, <2>2 DEF IdsOf
  <1>3. ASSUME NEW g \in DOMAIN graph.groups
        PROVE  \E i \in DOMAIN graph.objects :
                   graph.objects[i].id \in Range(graph.groups[g].objects)
    <2>1. graph.groups[g].objects \in Seq(Ids) BY GroupsListIds
    <2>2. graph.groups[g].objects # <<>> BY DEF Restorable, GroupsSound
    <2>3. 1 \in DOMAIN graph.groups[g].objects BY <2>1, <2>2
    <2>4. graph.groups[g].objects[1] \in Range(graph.groups[g].objects)
      BY <2>3 DEF Range
    <2>5. graph.groups[g].objects[1] \in IdsOf(graph.objects)
      BY <2>4 DEF Restorable, GroupsSound
    <2> QED BY <2>4, <2>5 DEF IdsOf
  <1> QED BY <1>1, <1>2, <1>3

\* A set of numbers that is not empty has a least one.
LEMMA LeastNumber ==
    ASSUME NEW N \in SUBSET Nat, N # {}
    PROVE  \E n \in N : \A m \in N : n <= m
  <1> DEFINE LowerThan == {p \in Nat \X Nat : p[1] < p[2]}
  <1>1. IsWellFoundedOn(LowerThan, Nat)
    BY NatLessThanWellFounded DEF OpToRel
  <1> HIDE DEF LowerThan
  <1>2. PICK n \in N : \A m \in N : <<m, n>> \notin LowerThan BY <1>1, WFMin
  <1>3. ASSUME NEW m \in N PROVE n <= m
    <2>1. <<m, n>> \notin LowerThan BY <1>2
    <2> QED BY <2>1 DEF LowerThan
  <1> QED BY <1>3

\* The commands of a batch are numbered and bear numbers.
LEMMA CommandsAreNumbered ==
    ASSUME NEW envelope \in Envelopes
    PROVE  /\ DOMAIN envelope.commands = 1..Len(envelope.commands)
           /\ Len(envelope.commands) \in Nat
           /\ \A k \in DOMAIN envelope.commands : envelope.commands[k].lamport \in Nat
  <1>1. envelope.commands \in Seq(Commands) BY DEF Envelopes
  <1>2. ASSUME NEW S, NEW s \in Seq(S)
        PROVE  DOMAIN s = 1..Len(s) /\ Len(s) \in Nat /\ \A k \in DOMAIN s : s[k] \in S
    OBVIOUS
  <1>3. /\ DOMAIN envelope.commands = 1..Len(envelope.commands)
        /\ Len(envelope.commands) \in Nat
        /\ \A k \in DOMAIN envelope.commands : envelope.commands[k] \in Commands
    BY <1>1, <1>2
  <1>4. \A c \in Commands : c.lamport \in Nat BY DEF Commands
  <1> QED BY <1>3, <1>4

\* In a batch whose neighbours are in order, any two commands are: the least one that
\* is not above an earlier one would not be above its neighbour.
LEMMA CommandsRise ==
    ASSUME NEW envelope \in Envelopes, InOrder(envelope),
           NEW i \in DOMAIN envelope.commands, NEW j \in DOMAIN envelope.commands, i < j
    PROVE  envelope.commands[i].lamport < envelope.commands[j].lamport
  <1> DEFINE commands == envelope.commands
             late == {k \in DOMAIN commands :
                         i < k /\ ~(commands[i].lamport < commands[k].lamport)}
  <1>1. i \in Nat /\ j \in Nat BY CommandsAreNumbered
  <1>2. /\ DOMAIN commands = 1..Len(commands) /\ Len(commands) \in Nat
        /\ \A k \in DOMAIN commands : commands[k].lamport \in Nat
    BY CommandsAreNumbered
  <1>3. SUFFICES ASSUME late # {} PROVE FALSE BY <1>2
  <1>4. late \in SUBSET Nat BY <1>2
  <1>5. PICK k \in late : \A m \in late : k <= m BY <1>3, <1>4, LeastNumber
  <1>6. k \in DOMAIN commands /\ i < k /\ ~(commands[i].lamport < commands[k].lamport)
    BY <1>5
  <1>7. k - 1 \in DOMAIN commands /\ k - 1 \notin late /\ (k - 1) + 1 = k
    <2>1. k \in 1..Len(commands) /\ k - 1 < k BY <1>2, <1>6
    <2>2. k - 1 \in 1..Len(commands) /\ (k - 1) + 1 = k BY <1>1, <1>2, <1>6, <2>1
    <2>3. k - 1 \notin late
      <3>1. ~(k <= k - 1) BY <2>1
      <3> HIDE DEF late
      <3> QED BY <1>5, <3>1
    <2> QED BY <1>2, <2>2, <2>3
  <1>8. commands[k - 1].lamport < commands[k].lamport BY <1>6, <1>7 DEF InOrder
  <1>9. k - 1 = i \/ commands[i].lamport < commands[k - 1].lamport
    BY <1>1, <1>2, <1>6, <1>7
  <1> QED BY <1>2, <1>6, <1>7, <1>8, <1>9

\* The journal compares the first Lamport time of a batch with the last one of the batch
\* before (append_commands, envelope_lamport_range).  It is enough: every command of the
\* later batch is above every one of the earlier, and within a batch each is above those
\* before it, so that a batch may stand for one number in the journal.
THEOREM BatchesStayInOrder ==
    ASSUME NEW e \in Envelopes, Accepted(e), NEW f \in Envelopes, Accepted(f),
           NEW a \in LamportRange(e), NEW b \in LamportRange(f), a[2] < b[1]
    PROVE  /\ \A i \in DOMAIN e.commands, j \in DOMAIN f.commands :
                 e.commands[i].lamport < f.commands[j].lamport
           /\ \A i, j \in DOMAIN e.commands :
                 i < j => e.commands[i].lamport < e.commands[j].lamport
  <1>1. /\ InOrder(e) /\ InOrder(f)
        /\ a = <<e.commands[1].lamport, e.commands[Len(e.commands)].lamport>>
        /\ b = <<f.commands[1].lamport, f.commands[Len(f.commands)].lamport>>
    BY DEF LamportRange, Accepted
  <1>2. ASSUME NEW g \in Envelopes, Accepted(g), InOrder(g), NEW i \in DOMAIN g.commands
        PROVE  /\ g.commands[1].lamport <= g.commands[i].lamport
               /\ g.commands[i].lamport <= g.commands[Len(g.commands)].lamport
               /\ g.commands[1].lamport \in Nat /\ g.commands[i].lamport \in Nat
               /\ g.commands[Len(g.commands)].lamport \in Nat
    <2>1. /\ DOMAIN g.commands = 1..Len(g.commands) /\ Len(g.commands) \in Nat
          /\ \A k \in DOMAIN g.commands : g.commands[k].lamport \in Nat
      BY <1>2, CommandsAreNumbered
    <2>2. i \in Nat /\ 1 <= i /\ i <= Len(g.commands) BY <1>2, <2>1
    <2>3. 1 \in DOMAIN g.commands /\ Len(g.commands) \in DOMAIN g.commands BY <2>1, <2>2
    <2>4. 1 = i \/ g.commands[1].lamport < g.commands[i].lamport
      BY <1>2, <2>2, <2>3, CommandsRise
    <2>5. i = Len(g.commands)
            \/ g.commands[i].lamport < g.commands[Len(g.commands)].lamport
      BY <1>2, <2>1, <2>2, <2>3, CommandsRise
    <2> QED BY <1>2, <2>1, <2>3, <2>4, <2>5
  <1>3. ASSUME NEW i \in DOMAIN e.commands, NEW j \in DOMAIN f.commands
        PROVE  e.commands[i].lamport < f.commands[j].lamport
    <2>1. e.commands[i].lamport <= a[2] /\ e.commands[i].lamport \in Nat /\ a[2] \in Nat
      BY <1>1, <1>2
    <2>2. b[1] <= f.commands[j].lamport /\ f.commands[j].lamport \in Nat /\ b[1] \in Nat
      BY <1>1, <1>2
    <2> QED BY <2>1, <2>2
  <1> QED BY <1>1, <1>3, CommandsRise

-----------------------------------------------------------------------------
(* Settings *)

\* The dependencies of every module are modules.
LEMMA DependenciesAreModules ==
    ASSUME NEW module \in Modules
    PROVE  DependsOn(module) \subseteq Modules
  BY DEF DependsOn, Modules

\* ModuleRegistry.ordered finds what it visits: the modules named, and what each
\* module it has reached depends on, are reached.
LEMMA ReachedIsClosed ==
    ASSUME NEW names \in SUBSET Modules
    PROVE  names \subseteq Reached(names) /\ Closed(Reached(names))
  <1>1. names \subseteq Reached(names) BY DEF Reached
  <1>2. ASSUME NEW module \in Reached(names), NEW other \in DependsOn(module)
        PROVE  other \in Reached(names)
    BY <1>2, DependenciesAreModules DEF Reached, Closed
  <1> QED BY <1>1, <1>2 DEF Closed

\* No module of the registry waits for itself: among any modules there is one that
\* depends on none of the others, so the refusal of a cycle is never met.
THEOREM NoCycle ==
    ASSUME NEW X \in SUBSET Modules, X # {}
    PROVE  \E module \in X : DependsOn(module) \cap X = {}
  <1> SUFFICES ASSUME \A module \in X : DependsOn(module) \cap X # {} PROVE FALSE
    OBVIOUS
  <1>1. "audit" \notin X BY DEF DependsOn
  <1>2. "identity" \notin X BY <1>1 DEF DependsOn
  <1>3. "students" \notin X BY <1>2 DEF DependsOn
  <1>4. "practice" \notin X BY <1>1, <1>2, <1>3 DEF DependsOn
  <1>5. "scheduling" \notin X BY <1>3 DEF DependsOn
  <1>6. "boards" \notin X BY <1>5 DEF DependsOn
  <1>7. "classroom" \notin X BY <1>5 DEF DependsOn
  <1>8. "materials" \notin X BY <1>7 DEF DependsOn
  <1>9. "automation" \notin X BY <1>8 DEF DependsOn
  <1>10. "portal" \notin X BY <1>9 DEF DependsOn
  <1>11. "dashboard" \notin X BY <1>2, <1>8 DEF DependsOn
  <1> QED
    BY <1>1, <1>2, <1>3, <1>4, <1>5, <1>6, <1>7, <1>8, <1>9, <1>10, <1>11 DEF Modules

\* The validation of the settings (config.py) lists by hand which names of
\* ENABLED_MODULES bring in which module; the registry computes it from the
\* dependencies.  The two lists agree.
THEOREM FlagsAgree ==
    ASSUME NEW s \in Configurations, s.profile = "full", s.enabled \subseteq Modules
    PROVE  /\ ClassroomEnabled(s) <=> "classroom" \in Installed("full", s)
           /\ MaterialsEnabled(s) <=> "materials" \in Installed("full", s)
           /\ AutomationEnabled(s) <=> "automation" \in Installed("full", s)
           /\ BoardsEnabled(s) <=> "boards" \in Installed("full", s)
  <1>1. CASE s.enabled = {}
    BY <1>1 DEF ClassroomEnabled, MaterialsEnabled, AutomationEnabled, BoardsEnabled, AnyOf,
                Installed, Modules
  <1>2. CASE s.enabled # {}
    <2> DEFINE R == Reached(s.enabled)
    <2>1. Installed("full", s) = R BY <1>2 DEF Installed
    <2>2. s.enabled \subseteq R /\ Closed(R) BY ReachedIsClosed
    <2>3. \A m \in R : DependsOn(m) \subseteq R BY <2>2 DEF Closed
    <2>4. /\ "portal" \in R => "automation" \in R
          /\ "automation" \in R => "materials" \in R
          /\ "dashboard" \in R => "materials" \in R
          /\ "materials" \in R => "classroom" \in R
      BY <2>3 DEF DependsOn
    <2>5. ASSUME NEW away \in SUBSET Modules, s.enabled \cap away = {},
                 Closed(Modules \ away)
          PROVE  R \cap away = {}
      BY <2>5 DEF Reached
    <2>6. AnyOf(s, {"classroom", "materials", "automation", "portal", "dashboard"})
            <=> "classroom" \in R
      <3> DEFINE away == {"classroom", "materials", "automation", "portal", "dashboard"}
      <3>1. Closed(Modules \ away) BY DEF Closed, DependsOn, Modules
      <3>2. away \in SUBSET Modules BY DEF Modules
      <3>3. s.enabled \cap away = {} => "classroom" \notin R BY <2>5, <3>1, <3>2
      <3>4. s.enabled \cap away # {} => "classroom" \in R BY <2>2, <2>4
      <3> QED BY <1>2, <3>3, <3>4 DEF AnyOf
    <2>7. AnyOf(s, {"materials", "automation", "portal", "dashboard"}) <=> "materials" \in R
      <3> DEFINE away == {"materials", "automation", "portal", "dashboard"}
      <3>1. Closed(Modules \ away) BY DEF Closed, DependsOn, Modules
      <3>2. away \in SUBSET Modules BY DEF Modules
      <3>3. s.enabled \cap away = {} => "materials" \notin R BY <2>5, <3>1, <3>2
      <3>4. s.enabled \cap away # {} => "materials" \in R BY <2>2, <2>4
      <3> QED BY <1>2, <3>3, <3>4 DEF AnyOf
    <2>8. AnyOf(s, {"automation", "portal"}) <=> "automation" \in R
      <3> DEFINE away == {"automation", "portal"}
      <3>1. Closed(Modules \ away) BY DEF Closed, DependsOn, Modules
      <3>2. away \in SUBSET Modules BY DEF Modules
      <3>3. s.enabled \cap away = {} => "automation" \notin R BY <2>5, <3>1, <3>2
      <3>4. s.enabled \cap away # {} => "automation" \in R BY <2>2, <2>4
      <3> QED BY <1>2, <3>3, <3>4 DEF AnyOf
    <2>9. AnyOf(s, {"boards"}) <=> "boards" \in R
      <3> DEFINE away == {"boards"}
      <3>1. Closed(Modules \ away) BY DEF Closed, DependsOn, Modules
      <3>2. away \in SUBSET Modules BY DEF Modules
      <3>3. s.enabled \cap away = {} => "boards" \notin R BY <2>5, <3>1, <3>2
      <3>4. s.enabled \cap away # {} => "boards" \in R BY <2>2
      <3> QED BY <1>2, <3>3, <3>4 DEF AnyOf
    <2> QED
      BY <2>1, <2>6, <2>7, <2>8, <2>9
         DEF ClassroomEnabled, MaterialsEnabled, AutomationEnabled, BoardsEnabled
  <1> QED BY <1>1, <1>2

\* In production no module runs on a stand-in: automation transcribes with a real
\* provider and leaves its jobs to the workers, materials are compiled by the document
\* engine and stored in S3 past the scanner, lessons meet in BigBlueButton, boards lie
\* in S3.  Some providers are refused by name, the others because of what they become:
\* "auto" is a stand-in in the demo mode, which the classroom refuses.
THEOREM ProductionIsReal ==
    ASSUME NEW s \in Configurations, s.profile = "full", s.enabled \subseteq Modules,
           s.production, Valid(s)
    PROVE  LET installed == Installed("full", s) IN
           /\ "automation" \in installed =>
                 /\ Transcription(s) \in {"webhook", "faster-whisper"}
                 /\ JobDispatcher(s) = "celery"
                 /\ Distributed("full", s)
           /\ "materials" \in installed =>
                 /\ DocumentEngine(s) = "latexed"
                 /\ ArtifactStorage(s) = "s3"
                 /\ Scanned("full", s)
           /\ "classroom" \in installed => Conference(s) = "bigbluebutton"
           /\ "boards" \in installed => ArtifactStorage(s) = "s3"
           /\ ~Seeded("full", s)
  <1> DEFINE installed == Installed("full", s)
  <1>1. FitForProduction(s) BY DEF Valid
  <1>2. /\ ClassroomEnabled(s) <=> "classroom" \in installed
        /\ MaterialsEnabled(s) <=> "materials" \in installed
        /\ AutomationEnabled(s) <=> "automation" \in installed
        /\ BoardsEnabled(s) <=> "boards" \in installed
    BY FlagsAgree
  <1>3. ClassroomEnabled(s) => ~s.demo BY <1>1 DEF FitForProduction
  <1>4. AutomationEnabled(s) => ClassroomEnabled(s)
    BY DEF AutomationEnabled, ClassroomEnabled, AnyOf
  <1>5. s.transcription \in {"auto", "disabled", "demo", "webhook", "faster-whisper", "other"}
    BY DEF Configurations
  <1>6. AutomationEnabled(s) =>
            Transcription(s) \in {"webhook", "faster-whisper"}
    <2> SUFFICES ASSUME AutomationEnabled(s)
                 PROVE  Transcription(s) \in {"webhook", "faster-whisper"}
      OBVIOUS
    <2>1. /\ s.transcription \notin {"disabled", "demo", "other"}
          /\ s.transcription = "auto" => s.transcription_url
      BY <1>1 DEF FitForProduction, Valid
    <2>2. ~s.demo BY <1>3, <1>4
    <2>3. CASE s.transcription = "auto" BY <2>1, <2>2, <2>3 DEF Transcription
    <2>4. CASE s.transcription # "auto" BY <1>5, <2>1, <2>4 DEF Transcription
    <2> QED BY <2>3, <2>4
  <1>7. AutomationEnabled(s) => JobDispatcher(s) = "celery" /\ Distributed("full", s)
    BY <1>1 DEF FitForProduction, JobDispatcher, Distributed
  <1>8. MaterialsEnabled(s) =>
            /\ DocumentEngine(s) = "latexed"
            /\ ArtifactStorage(s) = "s3"
            /\ Scanned("full", s)
    <2>1. s.documents \in {"local", "latex-for-everyone", "other"} BY DEF Configurations
    <2> QED
      BY <1>1, <2>1 DEF FitForProduction, Valid, DocumentEngine, ArtifactStorage, Scanned
  <1>9. ClassroomEnabled(s) => Conference(s) = "bigbluebutton" BY <1>3 DEF Conference
  <1>10. BoardsEnabled(s) => ArtifactStorage(s) = "s3"
    BY <1>1 DEF FitForProduction, ArtifactStorage
  <1>11. ~Seeded("full", s) BY <1>1 DEF FitForProduction, Seeded
  <1> QED BY <1>2, <1>6, <1>7, <1>8, <1>9, <1>10, <1>11

\* The sockets of a board hear every process: in production where automation is
\* installed or the profile is that of the boards, and in the board app always.  The
\* boards of an application without automation may still be told nothing of what
\* another process does: no setting is refused for it.
THEOREM BoardsAreHeard ==
    ASSUME NEW s \in Configurations, s.production, Valid(s), NEW app \in {"full", "alone", "board"},
           app = "alone" => s.profile = "board",
           app = "full" => AutomationEnabled(s)
    PROVE  Distributed(app, s)
  BY DEF Valid, FitForProduction, Distributed

\* A process told by its environment to serve the boards alone does not start: the
\* loader passes the settings a module name their validation refuses for this profile.
\* The board app is reached from no environment at all, and what a profile in the file
\* of the settings starts is the allowlist over the full application.
THEOREM BoardEnvironmentIsRefused ==
    ASSUME NEW e \in Environments, NEW s \in Configurations
    PROVE  /\ e.os = "board" => Started(e, s) = "refused"
           /\ Started(e, s) # "board"
           /\ Started(e, s) = "alone" => e.os = "unset" /\ e.file = "board"
  <1>1. s.profile \in {"full", "board", "empty", "other"} /\ e.os \in Values /\ e.file \in Values
    BY DEF Configurations, Environments
  <1>2. ASSUME ResolvedProfile(e) = "board"
        PROVE  ~Valid(Loaded(e, s))
    <2>1. e.os = "board" BY <1>2 DEF ResolvedProfile
    <2>2. SettingsProfile(e) = "board" BY <2>1 DEF SettingsProfile
    <2>3. Loaded(e, s).profile = "board" /\ Loaded(e, s).enabled = {"boards"}
      BY <1>2, <2>2 DEF Loaded, Configurations
    <2> QED BY <2>3 DEF Valid
  <1>3. CASE e.os = "board"
    <2>1. ResolvedProfile(e) = "board" BY <1>3 DEF ResolvedProfile
    <2> QED BY <1>2, <1>3, <2>1 DEF Started
  <1>4. CASE e.os # "board"
    <2>1. ResolvedProfile(e) # "board" BY <1>4 DEF ResolvedProfile
    <2>2. ASSUME Started(e, s) = "alone"
          PROVE  e.os = "unset" /\ e.file = "board"
      <3>1. /\ ResolvedProfile(e) # "other"
            /\ Valid(Loaded(e, s))
        BY <2>2 DEF Started
      <3>2. ResolvedProfile(e) = "full" BY <1>1, <2>1, <3>1 DEF ResolvedProfile, Values
      <3>3. Loaded(e, s).profile = "board" BY <2>2, <3>1, <3>2 DEF Started
      <3>4. Loaded(e, s).profile = SettingsProfile(e) BY <3>2 DEF Loaded, Configurations
      <3>5. SettingsProfile(e) = "board" BY <3>3, <3>4
      <3>6. e.os = "unset" BY <1>4, <3>5 DEF SettingsProfile
      <3> QED BY <3>5, <3>6 DEF SettingsProfile
    <2>3. Started(e, s) # "board"
      <3>1. CASE ResolvedProfile(e) = "other" \/ ~Valid(Loaded(e, s))
        BY <2>1, <3>1 DEF Started
      <3>2. CASE ResolvedProfile(e) = "full" /\ Valid(Loaded(e, s))
        <4>1. CASE Loaded(e, s).profile = "board" BY <3>2, <4>1 DEF Started
        <4>2. CASE Loaded(e, s).profile # "board" BY <3>2, <4>2 DEF Started
        <4> QED BY <4>1, <4>2
      <3> QED BY <1>1, <2>1, <3>1, <3>2 DEF ResolvedProfile, Values
    <2> QED BY <1>4, <2>2, <2>3
  <1> QED BY <1>3, <1>4

-----------------------------------------------------------------------------
(* THE CIRCUIT BREAKER, FOR EVERY NUMBER OF OVERLAPPING CALLS AND EVERY THRESHOLD *)

(* The invariant is inductive as it stands: every answer takes the mark away
   with the call that may have set it, and only a success closes the circuit. *)
Inv == TypeOK /\ ClosedBelowThreshold /\ ProbeIsRunning

\* A new circuit satisfies the inductive invariant.
LEMMA InitInv == Init => Inv
<1> SUFFICES ASSUME Init PROVE Inv
  OBVIOUS
<1>1. failures \in 0..Threshold /\ failures < Threshold
  BY ThresholdAssumption DEF Init
<1>2. probing = FALSE /\ opened = "None"
  BY DEF Init
<1>3. call \in [Calls -> {"idle", "plain", "probe", "refused"}]
  BY DEF Init
<1> QED
  BY <1>1, <1>2, <1>3 DEF Inv, TypeOK, ClosedBelowThreshold, ProbeIsRunning

\* Every call, answer and tick preserves it.
LEMMA NextInv == Inv /\ [Next]_vars => Inv'
<1> SUFFICES ASSUME Inv, [Next]_vars PROVE Inv'
  OBVIOUS
<1> USE ThresholdAssumption DEF Inv, TypeOK, ClosedBelowThreshold, ProbeIsRunning
<1>1. CASE Elapses
  BY <1>1 DEF Elapses
<1>2. ASSUME NEW c \in Calls, Enter(c) PROVE Inv'
  <2>1. CASE opened = "None"
    <3>1. \A d \in Calls : call[d] = "probe" => call'[d] = "probe"
      BY <1>2, <2>1 DEF Enter
    <3> QED
      BY <1>2, <2>1, <3>1 DEF Enter
  <2>2. CASE opened # "None"
    BY <1>2, <2>2 DEF Enter
  <2> QED
    BY <2>1, <2>2
<1>3. ASSUME NEW c \in Calls, Refuse(c) \/ Returns(c) PROVE Inv'
  <2>1. \A d \in Calls : call[d] = "probe" => call'[d] = "probe"
    BY <1>3 DEF Refuse, Returns
  <2> QED
    BY <1>3, <2>1 DEF Refuse, Returns
<1>4. ASSUME NEW c \in Calls, Answered(c) PROVE Inv'
  <2>1. CASE Succeeds(c)
    <3>1. failures' \in 0..Threshold /\ failures' < Threshold
      BY <2>1 DEF Succeeds
    <3>2. opened' = "None" /\ probing' = FALSE
      BY <2>1 DEF Succeeds
    <3>3. call' \in [Calls -> {"idle", "plain", "probe", "refused"}]
      BY <2>1 DEF Succeeds
    <3> QED
      BY <3>1, <3>2, <3>3
  <2>2. CASE Rejected(c)
    BY <2>2 DEF Rejected
  <2>3. CASE Fails(c)
    <3>1. /\ failures' \in 0..Threshold
          /\ opened' \in {"None", "recent", "elapsed"}
          /\ opened' = "None" => failures' < Threshold
      BY <2>3 DEF Fails
    <3>2. probing' = FALSE
      BY <2>3 DEF Fails
    <3>3. call' \in [Calls -> {"idle", "plain", "probe", "refused"}]
      BY <2>3 DEF Fails
    <3> QED
      BY <3>1, <3>2, <3>3
  <2> QED
    BY <1>4, <2>1, <2>2, <2>3 DEF Answered
<1>5. CASE UNCHANGED vars
  BY <1>5 DEF vars
<1> QED
  BY <1>1, <1>2, <1>3, <1>4, <1>5 DEF Next

(* The circuit's invariant holds in every state the breaker can be in. *)
LEMMA AlwaysInv == Spec => []Inv
BY InitInv, NextInv, PTL DEF Spec

(* A closed circuit has counted fewer failures than the threshold, however the
   answers of overlapping calls are ordered (record_success, record_failure). *)
THEOREM ClosedIsBelowThreshold == Spec => []ClosedBelowThreshold
<1>1. Inv => ClosedBelowThreshold
  BY DEF Inv
<1> QED
  BY AlwaysInv, <1>1, PTL

(* Whenever the mark of a probe is set, a call is out that will take it away
   (before_call, record_failure). *)
THEOREM ProbesRun == Spec => []ProbeIsRunning
<1>1. Inv => ProbeIsRunning
  BY DEF Inv
<1> QED
  BY AlwaysInv, <1>1, PTL

(* Both: what the calls of a provider rely on while its answers come in any order
   (CircuitBreaker). *)
THEOREM CircuitStaysSound == Spec => []CircuitSound
<1>1. Inv => CircuitSound
  BY DEF Inv, CircuitSound
<1> QED
  BY AlwaysInv, <1>1, PTL
=============================================================================
