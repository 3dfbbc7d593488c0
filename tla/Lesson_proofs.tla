---------------------------- MODULE Lesson_proofs ----------------------------
(***************************************************************************)
(* What a lesson leaves its student, for any jobs, kinds, approvers and    *)
(* builds: a transcript of its recording and a reviewed kit that is whole; *)
(* and for any students, answers, plans and windows: practice that is      *)
(* kept, counted once and never lowers what the teacher is shown.  The     *)
(* arguments are inductive invariants (IInv; PracticeTyped and Current);   *)
(* sums and lists are reasoned about by a least counterexample.            *)
(***************************************************************************)
EXTENDS MaterialRun, PracticeSync, SequenceTheorems, FiniteSetTheorems,
        WellFoundedInduction, TLAPS

-----------------------------------------------------------------------------
(* TYPES *)

(* The types of all the state.  A version number is Max of a set, of which only
   that it is a number of some kind is needed: N is a set that has them all. *)
VersionRow(N) ==
    [storage : StorageStatuses, build : Nat, number : N, purge : BOOLEAN]
Body(N) ==
    [pc : Pcs, build : Nat, number : N, todo : SUBSET Kinds, last : SUBSET Kinds]
Approval == [job : Jobs, status : {"review_required", "approved"}]

TypedWith(N) ==
    /\ 0 \in N
    /\ ver \in [Jobs -> [Kinds -> VersionRow(N)]]
    /\ body \in [Jobs -> Body(N)]

TypedRest ==
    /\ job \in [Jobs -> [status : JobStatuses,
                         queue : {"transcription", "materials"}]]
    /\ asking \subseteq Jobs
    /\ transcript \in [status : {"none", "running", "completed", "failed"},
                       record : Jobs \cup {"none"}, text : Jobs \cup {"none", "edited"}]
    /\ run \in [Jobs -> RunStatuses]
    /\ approving \in [Approvers -> {None} \cup Approval]
    /\ troubles \in 0..MaxTroubles /\ builds \in 0..MaxBuilds

Typed == TypedRest /\ \E N : TypedWith(N)

\* These types are those the run checks.
LEMMA TypedIsOK == Typed => TypeOK
<1> SUFFICES ASSUME TypedRest, NEW N, TypedWith(N) PROVE TypeOK
  BY DEF Typed
<1>1. \A j \in Jobs, k \in Kinds : ver[j][k].storage \in StorageStatuses
  BY DEF TypedWith, VersionRow
<1>2. \A j \in Jobs : body[j].pc \in Pcs
  BY DEF TypedWith, Body
<1> QED
  BY <1>1, <1>2 DEF TypedRest, TypeOK

\* A body that goes on keeps its fields.
LEMMA GoesOn ==
    ASSUME NEW N, TypedWith(N), NEW j \in Jobs, NEW pc \in Pcs, Goes(j, pc)
    PROVE  /\ body' \in [Jobs -> Body(N)]
           /\ body'[j] = [body[j] EXCEPT !.pc = pc]
           /\ body'[j].pc = pc
           /\ \A i \in Jobs \ {j} : body'[i] = body[i]
<1>1. body[j] \in Body(N) /\ body \in [Jobs -> Body(N)]
  BY DEF TypedWith
<1>2. [body[j] EXCEPT !.pc = pc] \in Body(N)
  BY <1>1 DEF Body
<1>3. body' = [body EXCEPT ![j] = [body[j] EXCEPT !.pc = pc]]
  BY <1>1 DEF Goes
<1>4. body'[j] = [body[j] EXCEPT !.pc = pc]
  BY <1>1, <1>3
<1> QED
  BY <1>1, <1>2, <1>3, <1>4 DEF Body

\* The idle body is one.
LEMMA IdleTyped == ASSUME NEW N, 0 \in N PROVE Idle \in Body(N)
BY DEF Idle, Body, Pcs

\* The files of a body whose last one is made available are versions.
LEMMA WithLastTyped ==
    ASSUME NEW N, TypedWith(N), NEW j \in Jobs
    PROVE  /\ WithLast(j) \in [Kinds -> VersionRow(N)]
           /\ \A k \in Kinds \ body[j].last : WithLast(j)[k] = ver[j][k]
           /\ \A k \in Kinds :
                /\ WithLast(j)[k].build = ver[j][k].build
                /\ WithLast(j)[k].number = ver[j][k].number
                /\ k \in body[j].last => WithLast(j)[k].storage = "available"
<1>1. \A k \in Kinds : ver[j][k] \in [storage : StorageStatuses, build : Nat,
                                      number : N, purge : BOOLEAN]
  BY DEF TypedWith, VersionRow
<1>2. \A k \in Kinds : WithLast(j)[k] = IF k \in body[j].last
                                        THEN [ver[j][k] EXCEPT !.storage = "available"]
                                        ELSE ver[j][k]
  BY DEF WithLast
<1>3. \A k \in Kinds : WithLast(j)[k] \in VersionRow(N)
  BY <1>1, <1>2 DEF VersionRow, StorageStatuses
<1> QED
  BY <1>1, <1>2, <1>3 DEF WithLast

\* What is written to the row of one file.
LEMMA RowTyped ==
    ASSUME NEW N, TypedWith(N), NEW j \in Jobs, NEW k \in Kinds,
           NEW s \in StorageStatuses, NEW p \in BOOLEAN
    PROVE  /\ [ver EXCEPT ![j][k].storage = s] \in [Jobs -> [Kinds -> VersionRow(N)]]
           /\ [ver EXCEPT ![j][k].purge = p] \in [Jobs -> [Kinds -> VersionRow(N)]]
           /\ [ver EXCEPT ![j][k].storage = s, ![j][k].purge = p]
                \in [Jobs -> [Kinds -> VersionRow(N)]]
<1>1. ver \in [Jobs -> [Kinds -> VersionRow(N)]]
  BY DEF TypedWith
<1>2. ver[j] \in [Kinds -> VersionRow(N)] /\ ver[j][k] \in VersionRow(N)
  BY <1>1
<1>3. /\ [ver[j][k] EXCEPT !.storage = s] \in VersionRow(N)
      /\ [ver[j][k] EXCEPT !.purge = p] \in VersionRow(N)
      /\ [ver[j][k] EXCEPT !.storage = s, !.purge = p] \in VersionRow(N)
  BY <1>2 DEF VersionRow
<1>4. [ver EXCEPT ![j][k].storage = s, ![j][k].purge = p]
        = [ver EXCEPT ![j] = [ver[j] EXCEPT ![k] =
                                [ver[j][k] EXCEPT !.storage = s, !.purge = p]]]
  BY <1>1, <1>2
<1> QED
  BY <1>1, <1>2, <1>3, <1>4

\* The steps that make a job, claim it, transcribe for it and end it.
LEMMA TranscriptionTypes ==
    ASSUME TypedRest, NEW N, TypedWith(N), NEW j \in Jobs,
           Accept(j) \/ EnqueueFindsNone(j) \/ EnqueueInserts(j) \/ Start(j)
             \/ Transcribe(j) \/ Fail(j) \/ WorkerLost(j)
    PROVE  TypedRest' /\ TypedWith(N)'
<1>0. /\ body \in [Jobs -> Body(N)] /\ Idle \in Body(N) /\ 0 \in N
      /\ ver \in [Jobs -> [Kinds -> VersionRow(N)]]
  BY IdleTyped DEF TypedWith
<1>1. /\ job \in [Jobs -> [status : JobStatuses, queue : {"transcription", "materials"}]]
      /\ job[j] \in [status : JobStatuses, queue : {"transcription", "materials"}]
  BY DEF TypedRest
<1>2. job' \in [Jobs -> [status : JobStatuses, queue : {"transcription", "materials"}]]
  <2>1. ASSUME NEW s \in {"queued", "running", "failed"},
               NEW q \in {"transcription", "materials"},
               \/ job' = [job EXCEPT ![j] = [status |-> s, queue |-> q]]
               \/ job' = [job EXCEPT ![j].status = s]
        PROVE  job' \in [Jobs -> [status : JobStatuses, queue : {"transcription", "materials"}]]
    <3>1. /\ [status |-> s, queue |-> q]
               \in [status : JobStatuses, queue : {"transcription", "materials"}]
          /\ [job[j] EXCEPT !.status = s]
               \in [status : JobStatuses, queue : {"transcription", "materials"}]
      BY <1>1 DEF JobStatuses
    <3> QED
      BY <1>1, <2>1, <3>1
  <2>2. UNCHANGED job \/ \E s \in {"queued", "running", "failed"} :
                           \E q \in {"transcription", "materials"} :
                              \/ job' = [job EXCEPT ![j] = [status |-> s, queue |-> q]]
                              \/ job' = [job EXCEPT ![j].status = s]
    BY DEF Accept, EnqueueFindsNone, EnqueueInserts, Start, Transcribe, Sync,
           SaveTranscript, QueueMaterials, TranscriptionFails, MarkTranscriptFailed,
           Fail, WorkerLost
  <2> QED
    BY <1>1, <2>1, <2>2
<1>3. body' \in [Jobs -> Body(N)]
  <2>1. \/ UNCHANGED body
        \/ body' = [body EXCEPT ![j] = Idle]
        \/ \E pc \in Pcs : Goes(j, pc)
    <3>1. \/ UNCHANGED body
          \/ body' = [body EXCEPT ![j] = Idle]
          \/ \E pc \in {"sync", "collect", "queueing", "transcribing", "marking",
                         "giving_up"} : Goes(j, pc)
      BY DEF Accept, EnqueueFindsNone, EnqueueInserts, Start, Transcribe, Sync,
             SaveTranscript, QueueMaterials, TranscriptionFails, MarkTranscriptFailed,
             Fail, WorkerLost, Goes
    <3> QED
      BY <3>1 DEF Pcs
  <2>2. ASSUME NEW pc \in Pcs, Goes(j, pc) PROVE body' \in [Jobs -> Body(N)]
    BY <2>2, GoesOn
  <2> QED
    BY <1>0, <2>1, <2>2
<1>4. transcript' \in [status : {"none", "running", "completed", "failed"},
                       record : Jobs \cup {"none"}, text : Jobs \cup {"none", "edited"}]
  <2>1. transcript \in [status : {"none", "running", "completed", "failed"},
                        record : Jobs \cup {"none"}, text : Jobs \cup {"none", "edited"}]
    BY DEF TypedRest
  <2>2. \/ UNCHANGED transcript
        \/ transcript' = [transcript EXCEPT !.status = "running", !.record = j]
        \/ transcript' = [transcript EXCEPT !.status = "failed"]
        \/ transcript' = [status |-> "completed", record |-> j, text |-> j]
    BY DEF Accept, EnqueueFindsNone, EnqueueInserts, Start, Transcribe, Sync,
           SaveTranscript, QueueMaterials, TranscriptionFails, MarkTranscriptFailed,
           Fail, WorkerLost
  <2>3. /\ [transcript EXCEPT !.status = "running", !.record = j]
             \in [status : {"none", "running", "completed", "failed"},
                  record : Jobs \cup {"none"}, text : Jobs \cup {"none", "edited"}]
        /\ [transcript EXCEPT !.status = "failed"]
             \in [status : {"none", "running", "completed", "failed"},
                  record : Jobs \cup {"none"}, text : Jobs \cup {"none", "edited"}]
    BY <2>1
  <2>4. [status |-> "completed", record |-> j, text |-> j]
             \in [status : {"none", "running", "completed", "failed"},
                  record : Jobs \cup {"none"}, text : Jobs \cup {"none", "edited"}]
    OBVIOUS
  <2>5. CASE UNCHANGED transcript
    BY <2>1, <2>5
  <2> QED
    BY <2>2, <2>3, <2>4, <2>5
<1>5. /\ asking' \subseteq Jobs /\ troubles' \in 0..MaxTroubles
      /\ UNCHANGED <<run, ver, approving, builds>>
  BY BoundsAssumption DEF TypedRest, Accept, EnqueueFindsNone, EnqueueInserts, Start, Transcribe,
     Sync, SaveTranscript, QueueMaterials, TranscriptionFails, MarkTranscriptFailed, Fail,
     WorkerLost
<1>6. TypedWith(N)'
  BY <1>0, <1>3, <1>5 DEF TypedWith
<1> QED
  BY <1>2, <1>4, <1>5, <1>6 DEF TypedRest

\* The steps of the build; compiling a kit makes a new number.
LEMMA BuildTypes ==
    ASSUME TypedRest, NEW N, TypedWith(N), NEW j \in Jobs, Process(j)
    PROVE  TypedRest' /\ \E M : TypedWith(M)'
<1>0. /\ ver \in [Jobs -> [Kinds -> VersionRow(N)]] /\ body \in [Jobs -> Body(N)] /\ 0 \in N
      /\ body[j] \in Body(N)
  BY DEF TypedWith
<1>1. CASE Collect(j)
  <2>1. (body' = [body EXCEPT ![j] = Idle]) \/ Goes(j, "generate")
    BY <1>1 DEF Collect
  <2>2. body' \in [Jobs -> Body(N)]
    <3>1. CASE body' = [body EXCEPT ![j] = Idle]
      BY <1>0, <3>1, IdleTyped
    <3>2. CASE Goes(j, "generate")
      BY <3>2, GoesOn DEF Pcs
    <3> QED
      BY <2>1, <3>1, <3>2
  <2>3. TypedRest'
    BY <1>1 DEF Collect, TypedRest, JobStatuses, RunStatuses
  <2> QED
    BY <1>0, <1>1, <2>2, <2>3 DEF Collect, TypedWith
<1>2. CASE Generate(j)
  <2>0. PICK M : M = N \cup {Newest + 1}
    OBVIOUS
  <2> DEFINE b == [pc |-> "upload", build |-> builds + 1, number |-> Newest + 1,
                   todo |-> Kinds, last |-> {}]
  <2>1. builds \in Nat /\ builds' \in 0..MaxBuilds /\ builds + 1 \in Nat
    BY <1>2, BoundsAssumption DEF Generate, TypedRest
  <2>2. VersionRow(N) \subseteq VersionRow(M) /\ Body(N) \subseteq Body(M) /\ 0 \in M
    BY <1>0, <2>0 DEF VersionRow, Body
  <2>3. b \in Body(M)
    BY <2>0, <2>1 DEF Body, Pcs
  <2>4. body' = [body EXCEPT ![j] = b] /\ ver' = ver
    BY <1>2 DEF Generate
  <2> HIDE DEF b
  <2>5. body' \in [Jobs -> Body(M)] /\ ver' \in [Jobs -> [Kinds -> VersionRow(M)]]
    BY <1>0, <2>2, <2>3, <2>4
  <2>6. TypedRest'
    BY <1>2, <2>1 DEF Generate, TypedRest
  <2>7. TypedWith(M)'
    BY <2>2, <2>5 DEF TypedWith
  <2> QED
    BY <2>6, <2>7
<1>3. ASSUME NEW k \in Kinds, Upload(j, k) PROVE TypedRest' /\ TypedWith(N)'
  <2> DEFINE row == [storage |-> "uploading", build |-> body[j].build,
                     number |-> body[j].number, purge |-> ver[j][k].purge]
             b == [body[j] EXCEPT !.pc = "put", !.last = {k}, !.todo = @ \ {k}]
  <2>1. ver[j][k] \in VersionRow(N)
    BY <1>0
  <2>2. row \in VersionRow(N)
    BY <1>0, <2>1 DEF VersionRow, Body, StorageStatuses
  <2>3. b \in Body(N)
    BY <1>0 DEF Body, Pcs
  <2>4. ver' = [ver EXCEPT ![j] = [WithLast(j) EXCEPT ![k] = row]]
        /\ body' = [body EXCEPT ![j] = b]
    BY <1>0, <1>3 DEF Upload
  <2> HIDE DEF row, b
  <2>5. [WithLast(j) EXCEPT ![k] = row] \in [Kinds -> VersionRow(N)]
    BY <2>2, WithLastTyped
  <2>6. TypedWith(N)'
    BY <1>0, <2>3, <2>4, <2>5 DEF TypedWith
  <2> QED
    BY <1>3, <2>6 DEF Upload, TypedRest
<1>4. CASE Put(j) \/ BuildFails(j)
  <2>1. Goes(j, "upload") \/ Goes(j, "failing")
    BY <1>4 DEF Put, BuildFails
  <2>2. body' \in [Jobs -> Body(N)]
    BY <2>1, GoesOn DEF Pcs
  <2> QED
    BY <1>0, <1>4, <2>2 DEF Put, BuildFails, TypedWith, TypedRest
<1>5. CASE PutRefused(j)
  <2>1. PICK k \in body[j].last : ver' = [ver EXCEPT ![j][k].storage = "quarantined"]
    BY <1>5 DEF PutRefused
  <2>2. k \in Kinds
    BY <1>0 DEF Body
  <2>3. ver' \in [Jobs -> [Kinds -> VersionRow(N)]]
    BY <2>1, <2>2, RowTyped DEF StorageStatuses
  <2>4. body' \in [Jobs -> Body(N)]
    BY <1>5, GoesOn DEF PutRefused, Pcs
  <2> QED
    BY <1>0, <1>5, <2>3, <2>4 DEF PutRefused, TypedWith, TypedRest
<1>6. CASE Finish(j)
  <2>1. ver' \in [Jobs -> [Kinds -> VersionRow(N)]]
    BY <1>0, <1>6, WithLastTyped DEF Finish
  <2>2. (body' = [body EXCEPT ![j] = Idle]) \/ Goes(j, "failing")
    BY <1>6 DEF Finish
  <2>3. body' \in [Jobs -> Body(N)]
    <3>1. CASE body' = [body EXCEPT ![j] = Idle]
      BY <1>0, <3>1, IdleTyped
    <3>2. CASE Goes(j, "failing")
      BY <3>2, GoesOn DEF Pcs
    <3> QED
      BY <2>2, <3>1, <3>2
  <2>4. troubles' \in 0..MaxTroubles
    BY <1>6, BoundsAssumption DEF Finish, TypedRest
  <2>5. TypedRest'
    BY <1>6, <2>4 DEF Finish, TypedRest, JobStatuses, RunStatuses
  <2> QED
    BY <1>0, <2>1, <2>3, <2>5 DEF TypedWith
<1>7. CASE FailRun(j)
  <2>1. body' \in [Jobs -> Body(N)]
    BY <1>7, GoesOn DEF FailRun, Pcs
  <2>2. TypedRest'
    BY <1>7 DEF FailRun, TypedRest, RunStatuses
  <2> QED
    BY <1>0, <1>7, <2>1, <2>2 DEF FailRun, TypedWith
<1> QED
  BY <1>1, <1>2, <1>3, <1>4, <1>5, <1>6, <1>7 DEF Process

\* The steps of the tutor.
LEMMA TutorTypes ==
    ASSUME TypedRest, NEW N, TypedWith(N),
           \/ \E j \in Jobs : Publish(j) \/ Revoke(j)
           \/ \E j \in Jobs : \E a \in Approvers : ApproveReads(a, j)
           \/ \E a \in Approvers : ApproveWrites(a)
           \/ EditTranscript \/ UNCHANGED vars
    PROVE  TypedRest' /\ TypedWith(N)'
<1> USE DEF TypedRest, TypedWith
<1>1. ASSUME NEW j \in Jobs, Publish(j) \/ Revoke(j) PROVE TypedRest' /\ TypedWith(N)'
  BY <1>1 DEF Publish, Revoke, RunStatuses
<1>2. ASSUME NEW j \in Jobs, NEW a \in Approvers, ApproveReads(a, j)
      PROVE  TypedRest' /\ TypedWith(N)'
  <2>1. [job |-> j, status |-> run[j]] \in Approval
    BY <1>2 DEF ApproveReads, Approval
  <2> QED
    BY <1>2, <2>1 DEF ApproveReads
<1>3. ASSUME NEW a \in Approvers, ApproveWrites(a) PROVE TypedRest' /\ TypedWith(N)'
  <2>1. run' \in [Jobs -> RunStatuses]
    BY <1>3 DEF ApproveWrites, RunStatuses
  <2> QED
    BY <1>3, <2>1 DEF ApproveWrites
<1>4. CASE EditTranscript
  BY <1>4 DEF EditTranscript
<1>5. CASE UNCHANGED vars
  BY <1>5 DEF vars
<1> QED
  BY <1>1, <1>2, <1>3, <1>4, <1>5

\* The steps of the stored files.
LEMMA FileTypes ==
    ASSUME TypedRest, NEW N, TypedWith(N),
           \/ \E j \in Jobs : \E k \in Kinds :
                 SoftDelete(j, k) \/ Expire(j, k) \/ Purge(j, k) \/ Verify(j, k)
           \/ \E o \in objects : ObjectLost(o)
    PROVE  TypedRest' /\ TypedWith(N)'
<1>1. ASSUME NEW j \in Jobs, NEW k \in Kinds,
             SoftDelete(j, k) \/ Expire(j, k) \/ Purge(j, k) \/ Verify(j, k)
      PROVE  TypedRest' /\ TypedWith(N)'
  <2>1. \/ ver' = [ver EXCEPT ![j][k].storage = "deleted", ![j][k].purge = TRUE]
        \/ ver' = [ver EXCEPT ![j][k].purge = FALSE]
        \/ ver' = [ver EXCEPT ![j][k].storage = "quarantined"]
    BY <1>1 DEF SoftDelete, Expire, Purge, Verify
  <2>2. ver' \in [Jobs -> [Kinds -> VersionRow(N)]]
    <3>1. "deleted" \in StorageStatuses /\ "quarantined" \in StorageStatuses
      BY DEF StorageStatuses
    <3>2. /\ [ver EXCEPT ![j][k].storage = "deleted", ![j][k].purge = TRUE]
               \in [Jobs -> [Kinds -> VersionRow(N)]]
          /\ [ver EXCEPT ![j][k].storage = "quarantined"] \in [Jobs -> [Kinds -> VersionRow(N)]]
          /\ [ver EXCEPT ![j][k].purge = FALSE] \in [Jobs -> [Kinds -> VersionRow(N)]]
      BY <3>1, RowTyped
    <3> QED
      BY <2>1, <3>2
  <2>3. troubles' \in 0..MaxTroubles
    <3>1. /\ troubles \in 0..MaxTroubles /\ MaxTroubles \in Nat
          /\ \/ troubles' = troubles
             \/ troubles < MaxTroubles /\ troubles' = troubles + 1
      BY <1>1, BoundsAssumption DEF SoftDelete, Expire, Purge, Verify, TypedRest
    <3> QED
      BY <3>1
  <2>4. UNCHANGED <<job, asking, transcript, run, body, approving, builds>>
    BY <1>1 DEF SoftDelete, Expire, Purge, Verify
  <2> QED
    BY <2>2, <2>3, <2>4 DEF TypedRest, TypedWith
<1>2. ASSUME NEW o \in objects, ObjectLost(o) PROVE TypedRest' /\ TypedWith(N)'
  <2>1. troubles' \in 0..MaxTroubles
    BY <1>2, BoundsAssumption DEF ObjectLost, TypedRest
  <2> QED
    BY <1>2, <2>1 DEF ObjectLost, TypedRest, TypedWith
<1> QED
  BY <1>1, <1>2

\* Every step keeps the types.
LEMMA TypeStep == Typed /\ [Next]_vars => Typed'
<1> SUFFICES ASSUME TypedRest, NEW N, TypedWith(N), [Next]_vars
             PROVE  TypedRest' /\ \E M : TypedWith(M)'
  BY DEF Typed
<1>1. CASE \E j \in Jobs : Process(j)
  BY <1>1, BuildTypes
<1>2. CASE ~ \E j \in Jobs : Process(j)
  <2>1. TypedRest' /\ TypedWith(N)'
    BY <1>2, TranscriptionTypes, TutorTypes, FileTypes DEF Next
  <2> QED
    BY <2>1
<1> QED
  BY <1>1, <1>2

-----------------------------------------------------------------------------
(* HOW A STEP MOVES THE ROWS *)

\* The row of a file keeps its build and its number; at most it is deleted or put
\* in quarantine.
RowStays(j, k) ==
    /\ ver'[j][k].build = ver[j][k].build /\ ver'[j][k].number = ver[j][k].number
    /\ ver'[j][k].storage \in {ver[j][k].storage, "deleted", "quarantined"}

\* The last file of a body became available.
RowAvailable(j, k) ==
    /\ body[j].pc = "upload" /\ k \in body[j].last
    /\ Finish(j) \/ \E l \in Kinds : l # k /\ Upload(j, l)
    /\ ver'[j][k].build = ver[j][k].build /\ ver'[j][k].number = ver[j][k].number
    /\ ver'[j][k].storage = "available"

\* The row was written for the file to come.
RowUploading(j, k) ==
    /\ Upload(j, k)
    /\ ver'[j][k].build = body[j].build /\ ver'[j][k].number = body[j].number
    /\ ver'[j][k].storage = "uploading"

\* One file is put in quarantine, deleted or purged; every other row is left alone.
LEMMA OneRow ==
    ASSUME NEW N, TypedWith(N), NEW i \in Jobs, NEW l \in Kinds,
           NEW j \in Jobs, NEW k \in Kinds,
           \/ ver' = [ver EXCEPT ![i][l].storage = "quarantined"]
           \/ ver' = [ver EXCEPT ![i][l].storage = "deleted", ![i][l].purge = TRUE]
           \/ ver' = [ver EXCEPT ![i][l].purge = FALSE]
    PROVE  RowStays(j, k)
<1>1. /\ ver \in [Jobs -> [Kinds -> VersionRow(N)]]
      /\ ver[i] \in [Kinds -> VersionRow(N)] /\ ver[j] \in [Kinds -> VersionRow(N)]
      /\ ver[i][l] \in [storage : StorageStatuses, build : Nat, number : N, purge : BOOLEAN]
  BY DEF TypedWith, VersionRow
<1>2. ASSUME NEW x, x.build = ver[i][l].build, x.number = ver[i][l].number,
             x.storage \in {ver[i][l].storage, "deleted", "quarantined"},
             ver' = [ver EXCEPT ![i] = [ver[i] EXCEPT ![l] = x]]
      PROVE  RowStays(j, k)
  <2>1. ver'[j][k] = IF j = i /\ k = l THEN x ELSE ver[j][k]
    BY <1>1, <1>2
  <2> QED
    BY <1>2, <2>1 DEF RowStays
<1>3. CASE ver' = [ver EXCEPT ![i][l].storage = "quarantined"]
  <2> DEFINE x == [ver[i][l] EXCEPT !.storage = "quarantined"]
  <2>1. x.build = ver[i][l].build /\ x.number = ver[i][l].number /\ x.storage = "quarantined"
    BY <1>1
  <2>2. ver' = [ver EXCEPT ![i] = [ver[i] EXCEPT ![l] = x]]
    BY <1>1, <1>3
  <2> HIDE DEF x
  <2> QED
    BY <1>2, <2>1, <2>2
<1>4. CASE ver' = [ver EXCEPT ![i][l].storage = "deleted", ![i][l].purge = TRUE]
  <2> DEFINE x == [ver[i][l] EXCEPT !.storage = "deleted", !.purge = TRUE]
  <2>1. x.build = ver[i][l].build /\ x.number = ver[i][l].number /\ x.storage = "deleted"
    BY <1>1
  <2>2. ver' = [ver EXCEPT ![i] = [ver[i] EXCEPT ![l] = x]]
    BY <1>1, <1>4
  <2> HIDE DEF x
  <2> QED
    BY <1>2, <2>1, <2>2
<1>5. CASE ver' = [ver EXCEPT ![i][l].purge = FALSE]
  <2> DEFINE x == [ver[i][l] EXCEPT !.purge = FALSE]
  <2>1. x.build = ver[i][l].build /\ x.number = ver[i][l].number
        /\ x.storage = ver[i][l].storage
    BY <1>1
  <2>2. ver' = [ver EXCEPT ![i] = [ver[i] EXCEPT ![l] = x]]
    BY <1>1, <1>5
  <2> HIDE DEF x
  <2> QED
    BY <1>2, <2>1, <2>2
<1> QED
  BY <1>3, <1>4, <1>5

\* Every step moves every row in one of these ways.
LEMMA RowsMove ==
    ASSUME NEW N, TypedWith(N), [Next]_vars, NEW j \in Jobs, NEW k \in Kinds
    PROVE  RowStays(j, k) \/ RowAvailable(j, k) \/ RowUploading(j, k)
<1>0. /\ ver \in [Jobs -> [Kinds -> VersionRow(N)]]
      /\ \A i \in Jobs : ver[i] \in [Kinds -> VersionRow(N)]
      /\ \A i \in Jobs : body[i].last \subseteq Kinds
  BY DEF TypedWith, Body
<1>1. CASE UNCHANGED ver
  BY <1>1 DEF RowStays
<1>2. ASSUME NEW i \in Jobs, NEW l \in Kinds, Upload(i, l)
      PROVE  RowStays(j, k) \/ RowAvailable(j, k) \/ RowUploading(j, k)
  <2> DEFINE row == [storage |-> "uploading", build |-> body[i].build,
                     number |-> body[i].number, purge |-> ver[i][l].purge]
  <2>1. ver' = [ver EXCEPT ![i] = [WithLast(i) EXCEPT ![l] = row]] /\ body[i].pc = "upload"
    BY <1>2 DEF Upload
  <2>2. /\ WithLast(i) \in [Kinds -> VersionRow(N)]
        /\ \A h \in Kinds \ body[i].last : WithLast(i)[h] = ver[i][h]
        /\ \A h \in Kinds :
             /\ WithLast(i)[h].build = ver[i][h].build
             /\ WithLast(i)[h].number = ver[i][h].number
             /\ h \in body[i].last => WithLast(i)[h].storage = "available"
    BY WithLastTyped
  <2>3. row.storage = "uploading" /\ row.build = body[i].build /\ row.number = body[i].number
    OBVIOUS
  <2> HIDE DEF row
  <2>4. CASE i # j
    <3>1. ver'[j] = ver[j]
      BY <1>0, <2>1, <2>4
    <3> QED
      BY <3>1 DEF RowStays
  <2>5. CASE i = j /\ k = l
    <3>1. ver'[j][k] = row
      BY <1>0, <2>1, <2>2, <2>5
    <3> QED
      BY <1>2, <2>3, <2>5, <3>1 DEF RowUploading
  <2>6. CASE i = j /\ k # l
    <3>1. ver'[j][k] = WithLast(j)[k]
      BY <1>0, <2>1, <2>2, <2>6
    <3>2. CASE k \in body[j].last
      BY <1>2, <2>1, <2>2, <2>6, <3>1, <3>2 DEF RowAvailable
    <3>3. CASE k \notin body[j].last
      BY <2>2, <2>6, <3>1, <3>3 DEF RowStays
    <3> QED
      BY <3>2, <3>3
  <2> QED
    BY <2>4, <2>5, <2>6
<1>3. ASSUME NEW i \in Jobs, Finish(i)
      PROVE  RowStays(j, k) \/ RowAvailable(j, k)
  <2>1. ver' = [ver EXCEPT ![i] = WithLast(i)] /\ body[i].pc = "upload"
    BY <1>3 DEF Finish
  <2>2. CASE i # j
    <3>1. ver'[j] = ver[j]
      BY <1>0, <2>1, <2>2
    <3> QED
      BY <3>1 DEF RowStays
  <2>3. CASE i = j
    <3>1. ver'[j][k] = WithLast(j)[k]
      BY <1>0, <2>1, <2>3
    <3>2. CASE k \in body[j].last
      BY <1>3, <2>1, <2>3, <3>1, <3>2, WithLastTyped DEF RowAvailable
    <3>3. CASE k \notin body[j].last
      BY <2>3, <3>1, <3>3, WithLastTyped DEF RowStays
    <3> QED
      BY <3>2, <3>3
  <2> QED
    BY <2>2, <2>3
<1>4. ASSUME NEW i \in Jobs, PutRefused(i) PROVE RowStays(j, k)
  <2>1. PICK l \in body[i].last : ver' = [ver EXCEPT ![i][l].storage = "quarantined"]
    BY <1>4 DEF PutRefused
  <2>2. l \in Kinds
    BY <1>0
  <2> QED
    BY <2>1, <2>2, OneRow
<1>5. ASSUME NEW i \in Jobs, NEW l \in Kinds,
             SoftDelete(i, l) \/ Expire(i, l) \/ Purge(i, l) \/ Verify(i, l)
      PROVE  RowStays(j, k)
  <2>1. \/ ver' = [ver EXCEPT ![i][l].storage = "quarantined"]
        \/ ver' = [ver EXCEPT ![i][l].storage = "deleted", ![i][l].purge = TRUE]
        \/ ver' = [ver EXCEPT ![i][l].purge = FALSE]
    BY <1>5 DEF SoftDelete, Expire, Purge, Verify
  <2> QED
    BY <2>1, OneRow
<1>6. ASSUME NEW i \in Jobs,
             \/ Accept(i) \/ EnqueueFindsNone(i) \/ EnqueueInserts(i) \/ Start(i)
             \/ Transcribe(i) \/ Fail(i) \/ WorkerLost(i) \/ Publish(i) \/ Revoke(i)
             \/ Collect(i) \/ Generate(i) \/ Put(i) \/ BuildFails(i) \/ FailRun(i)
             \/ \E a \in Approvers : ApproveReads(a, i)
      PROVE  UNCHANGED ver
  BY <1>6 DEF Accept, EnqueueFindsNone, EnqueueInserts, Start, Transcribe, Sync,
     SaveTranscript, QueueMaterials, TranscriptionFails, MarkTranscriptFailed, Fail,
     WorkerLost, Publish, Revoke, Collect, Generate, Put, BuildFails, FailRun, ApproveReads
<1>7. (\E a \in Approvers : ApproveWrites(a)) \/ (\E o \in objects : ObjectLost(o))
        \/ EditTranscript \/ UNCHANGED vars => UNCHANGED ver
  BY DEF ApproveWrites, ObjectLost, EditTranscript, vars
<1> QED
  BY <1>1, <1>2, <1>3, <1>4, <1>5, <1>6, <1>7 DEF Next, Process

\* The stages of a build under way.
Building == {"generate", "upload", "put"}

\* How the body of a job moves: a step that is not one of the build leaves it, or
\* puts it to a stage outside the build; Start alone takes it to the evidence.
LEMMA BodiesMove ==
    ASSUME NEW N, TypedWith(N), [Next]_vars, NEW j \in Jobs
    PROVE  /\ \/ body'[j] = body[j]
              \/ body'[j].pc \notin Building
              \/ /\ ~Done(j) /\ body[j].pc = "collect" /\ Collect(j)
                 /\ body'[j].pc = "generate"
              \/ Generate(j) \/ Put(j) \/ \E k \in Kinds : Upload(j, k)
           /\ body'[j].pc = "collect" => body'[j] = body[j] \/ Start(j)
<1> DEFINE G == /\ \/ body'[j] = body[j]
                   \/ body'[j].pc \notin Building
                   \/ /\ ~Done(j) /\ body[j].pc = "collect" /\ Collect(j)
                      /\ body'[j].pc = "generate"
                   \/ Generate(j) \/ Put(j) \/ \E k \in Kinds : Upload(j, k)
                /\ body'[j].pc = "collect" => body'[j] = body[j] \/ Start(j)
<1>0. body \in [Jobs -> Body(N)]
  BY DEF TypedWith
<1>1. CASE body'[j] = body[j]
  BY <1>1
<1>2. CASE Start(j)
  <2>1. PICK pc \in {"sync", "collect"} : Goes(j, pc)
    BY <1>2 DEF Start, Goes
  <2>2. pc \in Pcs
    BY DEF Pcs
  <2>3. body'[j].pc = pc
    BY <2>1, <2>2, GoesOn
  <2> QED
    BY <1>2, <2>3 DEF Building
<1>3. ASSUME NEW pc \in {"queueing", "transcribing", "marking", "giving_up", "failing"},
             Goes(j, pc)
      PROVE  G
  <2>1. pc \in Pcs
    BY DEF Pcs
  <2>2. body'[j].pc = pc
    BY <1>3, <2>1, GoesOn
  <2> QED
    BY <2>2 DEF Building
<1>4. CASE body' = [body EXCEPT ![j] = Idle]
  <2>1. body'[j].pc = "idle"
    BY <1>0, <1>4 DEF Idle
  <2> QED
    BY <2>1 DEF Building
<1>5. CASE Collect(j)
  <2>1. CASE Goes(j, "generate") /\ ~Done(j)
    <3>1. body'[j].pc = "generate"
      BY <2>1, GoesOn DEF Pcs
    <3> QED
      BY <1>5, <2>1, <3>1 DEF Collect
  <2> QED
    BY <1>4, <1>5, <2>1 DEF Collect
<1>6. CASE Generate(j) \/ Put(j) \/ \E k \in Kinds : Upload(j, k)
  <2>1. body'[j].pc # "collect"
    <3>1. CASE Generate(j)
      BY <1>0, <3>1 DEF Generate
    <3>2. CASE Put(j)
      BY <3>2, GoesOn DEF Put, Pcs
    <3>3. CASE \E k \in Kinds : Upload(j, k)
      <4>1. PICK k \in Kinds : Upload(j, k)
        BY <3>3
      <4>2. body[j] \in [pc : Pcs, build : Nat, number : N, todo : SUBSET Kinds,
                         last : SUBSET Kinds]
        BY <1>0 DEF Body
      <4>3. body'[j] = [body[j] EXCEPT !.pc = "put", !.last = {k}, !.todo = @ \ {k}]
        BY <1>0, <4>1 DEF Upload
      <4> QED
        BY <4>2, <4>3
    <3> QED
      BY <1>6, <3>1, <3>2, <3>3
  <2> QED
    BY <1>6, <2>1
<1>7. CASE Sync(j) \/ SaveTranscript(j) \/ QueueMaterials(j) \/ TranscriptionFails(j)
             \/ MarkTranscriptFailed(j) \/ Fail(j) \/ WorkerLost(j) \/ PutRefused(j)
             \/ BuildFails(j) \/ Finish(j) \/ FailRun(j)
  <2>1. \/ body' = [body EXCEPT ![j] = Idle]
        \/ \E pc \in {"queueing", "transcribing", "marking", "giving_up", "failing"} :
              Goes(j, pc)
    BY <1>7 DEF Sync, SaveTranscript, QueueMaterials, TranscriptionFails,
       MarkTranscriptFailed, Fail, WorkerLost, PutRefused, BuildFails, Finish, FailRun
  <2> QED
    BY <1>3, <1>4, <2>1
<1>8. ASSUME NEW i \in Jobs, i # j,
             Start(i) \/ Transcribe(i) \/ Process(i) \/ Fail(i) \/ WorkerLost(i)
      PROVE  body'[j] = body[j]
  <2>1. \E b : body' = [body EXCEPT ![i] = b]
    <3>1. CASE Start(i) \/ Transcribe(i)
      BY <3>1 DEF Start, Transcribe, Sync, SaveTranscript, QueueMaterials,
                  TranscriptionFails, MarkTranscriptFailed, Goes
    <3>2. CASE Process(i) \/ Fail(i) \/ WorkerLost(i)
      BY <3>2 DEF Process, Collect, Generate, Put, PutRefused, BuildFails, Upload,
                  Finish, FailRun, Fail, WorkerLost, Goes
    <3> QED
      BY <1>8, <3>1, <3>2
  <2> QED
    BY <1>0, <1>8, <2>1
<1>9. ASSUME NEW i \in Jobs, \/ Accept(i) \/ EnqueueFindsNone(i) \/ EnqueueInserts(i)
                             \/ Publish(i) \/ Revoke(i)
                             \/ \E a \in Approvers : ApproveReads(a, i)
      PROVE  body'[j] = body[j]
  BY <1>9 DEF Accept, EnqueueFindsNone, EnqueueInserts, Publish, Revoke, ApproveReads
<1>10. ASSUME NEW i \in Jobs, NEW k \in Kinds,
              SoftDelete(i, k) \/ Expire(i, k) \/ Purge(i, k) \/ Verify(i, k)
       PROVE  body'[j] = body[j]
  BY <1>10 DEF SoftDelete, Expire, Purge, Verify
<1>11. ASSUME \/ \E a \in Approvers : ApproveWrites(a)
              \/ \E o \in objects : ObjectLost(o)
              \/ EditTranscript \/ UNCHANGED vars
       PROVE  body'[j] = body[j]
  BY <1>11 DEF ApproveWrites, ObjectLost, EditTranscript, vars
<1> HIDE DEF G
<1>12. G
  <2>1. CASE body'[j] = body[j]
    BY <1>1, <2>1 DEF G
  <2>2. CASE Start(j) \/ Transcribe(j) \/ Process(j) \/ Fail(j) \/ WorkerLost(j)
    BY <1>2, <1>5, <1>6, <1>7, <2>2 DEF Transcribe, Process, G
  <2> QED
    BY <1>8, <1>9, <1>10, <1>11, <2>1, <2>2 DEF Next
<1> QED
  BY <1>12 DEF G

\* How the status of a run moves.
LEMMA RunsMove ==
    ASSUME TypedRest, [Next]_vars, NEW j \in Jobs
    PROVE  \/ run'[j] = run[j]
           \/ Collect(j) /\ ~Done(j) /\ run[j] = "none" /\ run'[j] = "building"
           \/ Finish(j) /\ run'[j] = "review_required"
           \/ FailRun(j) /\ run'[j] = "failed"
           \/ \E a \in Approvers : /\ ApproveWrites(a) /\ approving[a] # None
                                   /\ approving[a].job = j /\ run'[j] = "approved"
           \/ run[j] = "approved" /\ run'[j] = "published"
           \/ run[j] = "published" /\ run'[j] = "revoked"
<1>0. run \in [Jobs -> RunStatuses]
  BY DEF TypedRest
<1>1. CASE UNCHANGED run
  BY <1>1
<1>2. ASSUME NEW i \in Jobs, Collect(i) \/ Finish(i) \/ FailRun(i) \/ Publish(i) \/ Revoke(i),
             i # j
      PROVE  run'[j] = run[j]
  BY <1>0, <1>2 DEF Collect, Finish, FailRun, Publish, Revoke
<1>3. CASE Collect(j) \/ Finish(j) \/ FailRun(j) \/ Publish(j) \/ Revoke(j)
  BY <1>0, <1>3 DEF Collect, Finish, FailRun, Publish, Revoke
<1>4. ASSUME NEW a \in Approvers, ApproveWrites(a)
      PROVE  \/ run'[j] = run[j]
             \/ approving[a] # None /\ approving[a].job = j /\ run'[j] = "approved"
  BY <1>0, <1>4 DEF ApproveWrites
<1>5. ASSUME NEW i \in Jobs, \/ Accept(i) \/ EnqueueFindsNone(i) \/ EnqueueInserts(i)
                             \/ Start(i) \/ Transcribe(i) \/ Fail(i) \/ WorkerLost(i)
      PROVE  run'[j] = run[j]
  BY <1>5 DEF Accept, EnqueueFindsNone, EnqueueInserts, Start, Transcribe, Sync,
     SaveTranscript, QueueMaterials, TranscriptionFails, MarkTranscriptFailed, Fail,
     WorkerLost
<1>6. ASSUME NEW i \in Jobs, \/ Generate(i) \/ Put(i) \/ PutRefused(i) \/ BuildFails(i)
                             \/ \E k \in Kinds : Upload(i, k)
                             \/ \E a \in Approvers : ApproveReads(a, i)
      PROVE  run'[j] = run[j]
  BY <1>6 DEF Generate, Put, PutRefused, BuildFails, Upload, ApproveReads
<1>7. ASSUME NEW i \in Jobs, NEW k \in Kinds,
             SoftDelete(i, k) \/ Expire(i, k) \/ Purge(i, k) \/ Verify(i, k)
      PROVE  run'[j] = run[j]
  BY <1>7 DEF SoftDelete, Expire, Purge, Verify
<1>8. CASE (\E o \in objects : ObjectLost(o)) \/ EditTranscript \/ UNCHANGED vars
  BY <1>8 DEF ObjectLost, EditTranscript, vars
<1>9. CASE \E i \in Jobs : Process(i)
  <2>1. PICK i \in Jobs : Process(i)
    BY <1>9
  <2> QED
    BY <1>2, <1>3, <1>6, <2>1 DEF Process
<1>10. ASSUME NEW i \in Jobs, Publish(i) \/ Revoke(i)
       PROVE  \/ run'[j] = run[j]
              \/ run[j] = "approved" /\ run'[j] = "published"
              \/ run[j] = "published" /\ run'[j] = "revoked"
  BY <1>0, <1>10 DEF Publish, Revoke
<1>11. CASE \E i \in Jobs :
              \/ Accept(i) \/ EnqueueFindsNone(i) \/ EnqueueInserts(i)
              \/ Start(i) \/ Transcribe(i) \/ Fail(i) \/ WorkerLost(i)
              \/ Publish(i) \/ Revoke(i)
              \/ \E a \in Approvers : ApproveReads(a, i)
              \/ \E k \in Kinds :
                   SoftDelete(i, k) \/ Expire(i, k) \/ Purge(i, k) \/ Verify(i, k)
  <2>1. PICK i \in Jobs :
              \/ Accept(i) \/ EnqueueFindsNone(i) \/ EnqueueInserts(i)
              \/ Start(i) \/ Transcribe(i) \/ Fail(i) \/ WorkerLost(i)
              \/ Publish(i) \/ Revoke(i)
              \/ \E a \in Approvers : ApproveReads(a, i)
              \/ \E k \in Kinds :
                   SoftDelete(i, k) \/ Expire(i, k) \/ Purge(i, k) \/ Verify(i, k)
    BY <1>11
  <2> QED
    BY <1>5, <1>6, <1>7, <1>10, <2>1
<1>12. CASE \E a \in Approvers : ApproveWrites(a)
  BY <1>4, <1>12
<1> QED
  BY <1>8, <1>9, <1>11, <1>12 DEF Next

\* Approvers see more and more, and the builds are counted up.
LEMMA SeenGrows ==
    ASSUME TypedRest, [Next]_vars
    PROVE  seen \subseteq seen' /\ builds \in Nat /\ builds' \in Nat /\ builds <= builds'
<1>1. builds \in Nat /\ (builds' = builds \/ builds' = builds + 1)
  <2>1. builds \in Nat
    BY BoundsAssumption DEF TypedRest
  <2>2. ASSUME NEW i \in Jobs, \/ Accept(i) \/ EnqueueFindsNone(i) \/ EnqueueInserts(i)
                               \/ Start(i) \/ Transcribe(i) \/ Fail(i) \/ WorkerLost(i)
                               \/ Publish(i) \/ Revoke(i)
        PROVE  UNCHANGED builds
    BY <2>2 DEF Accept, EnqueueFindsNone, EnqueueInserts, Start, Transcribe, Sync,
       SaveTranscript, QueueMaterials, TranscriptionFails, MarkTranscriptFailed, Fail,
       WorkerLost, Publish, Revoke
  <2>3. ASSUME NEW i \in Jobs, Process(i) \/ \E a \in Approvers : ApproveReads(a, i)
        PROVE  builds' = builds \/ builds' = builds + 1
    BY <2>3 DEF Process, Collect, Generate, Put, PutRefused, BuildFails, Upload, Finish,
       FailRun, ApproveReads
  <2>4. ASSUME NEW i \in Jobs, NEW k \in Kinds,
               SoftDelete(i, k) \/ Expire(i, k) \/ Purge(i, k) \/ Verify(i, k)
        PROVE  UNCHANGED builds
    BY <2>4 DEF SoftDelete, Expire, Purge, Verify
  <2>5. CASE \/ \E a \in Approvers : ApproveWrites(a)
             \/ \E o \in objects : ObjectLost(o)
             \/ EditTranscript \/ UNCHANGED vars
    BY <2>1, <2>5 DEF ApproveWrites, ObjectLost, EditTranscript, vars
  <2> QED
    BY <2>1, <2>2, <2>3, <2>4, <2>5 DEF Next
<1>2. seen \subseteq seen'
  <2>1. ASSUME NEW i \in Jobs, \/ Accept(i) \/ EnqueueFindsNone(i) \/ EnqueueInserts(i)
                               \/ Start(i) \/ Transcribe(i) \/ Fail(i) \/ WorkerLost(i)
                               \/ Publish(i) \/ Revoke(i)
        PROVE  UNCHANGED seen
    BY <2>1 DEF Accept, EnqueueFindsNone, EnqueueInserts, Start, Transcribe, Sync,
       SaveTranscript, QueueMaterials, TranscriptionFails, MarkTranscriptFailed, Fail,
       WorkerLost, Publish, Revoke
  <2>2. ASSUME NEW i \in Jobs, Process(i) PROVE UNCHANGED seen
    BY <2>2 DEF Process, Collect, Generate, Put, PutRefused, BuildFails, Upload, Finish,
       FailRun
  <2>3. ASSUME NEW i \in Jobs, NEW k \in Kinds,
               SoftDelete(i, k) \/ Expire(i, k) \/ Purge(i, k) \/ Verify(i, k)
        PROVE  UNCHANGED seen
    BY <2>3 DEF SoftDelete, Expire, Purge, Verify
  <2>4. ASSUME NEW i \in Jobs, NEW a \in Approvers, ApproveReads(a, i)
        PROVE  seen \subseteq seen'
    BY <2>4 DEF ApproveReads
  <2>5. CASE \/ \E a \in Approvers : ApproveWrites(a)
             \/ \E o \in objects : ObjectLost(o)
             \/ EditTranscript \/ UNCHANGED vars
    BY <2>5 DEF ApproveWrites, ObjectLost, EditTranscript, vars
  <2> QED
    BY <2>1, <2>2, <2>3, <2>4, <2>5 DEF Next
<1> QED
  BY <1>1, <1>2

-----------------------------------------------------------------------------
(* A REVIEWED KIT IS WHOLE *)

Whole(j, b) ==
    \A k \in Kinds : ver[j][k].build = b /\ ver[j][k].storage \notin {"none", "uploading"}

AllSeen(j) == \A k \in Kinds : ver[j][k].build \in seen

\* A run that has been up for review has a whole kit, whatever was revoked since.
RunInv == \A j \in Jobs : run[j] \in Reviewed => \E b \in 1..builds : Whole(j, b)

\* No kit is built for a run that is reviewed.
BuildInv == \A j \in Jobs : body[j].pc \in Building => run[j] \in {"building", "failed"}

(* What is uploaded already: these files are of this build, and all but the last one
   are committed; the last one is available with the next commit. *)
UploadedInv ==
    \A j \in Jobs : body[j].pc \in {"upload", "put"} =>
        /\ body[j].build \in 1..builds
        /\ body[j].last \cap body[j].todo = {}
        /\ \A k \in Kinds \ body[j].todo :
             /\ ver[j][k].build = body[j].build /\ ver[j][k].number = body[j].number
             /\ k \notin body[j].last => ver[j][k].storage \notin {"none", "uploading"}

(* Why an approval that reads without a lock is harmless: while it is under way no
   kit of its run is built, for no retry starts and a body at the evidence finds the
   run done. *)
ApproveInv ==
    \A a \in Approvers : approving[a] # None =>
        LET j == approving[a].job IN
        /\ \E b \in 1..builds : Whole(j, b)
        /\ AllSeen(j)
        /\ body[j].pc \notin Building
        /\ body[j].pc = "collect" => run[j] \in Reviewed

\* What is approved or published was shown to an approver.
SeenInv == \A j \in Jobs : run[j] \in {"approved", "published"} => AllSeen(j)

Safe == RunInv /\ BuildInv /\ UploadedInv /\ ApproveInv /\ SeenInv

\* A reviewed run with a whole kit is done.
LEMMA WholeIsDone ==
    ASSUME NEW j \in Jobs, run[j] \in Reviewed, NEW b, Whole(j, b) PROVE Done(j)
BY KindsAssumption DEF Done, Whole

\* A step that is not an upload of the job keeps its kit whole and of the same build.
LEMMA WholeStays ==
    ASSUME NEW N, TypedWith(N), [Next]_vars, NEW j \in Jobs, body[j].pc # "upload"
    PROVE  /\ \A k \in Kinds : ver'[j][k].build = ver[j][k].build
           /\ \A b : Whole(j, b) => Whole(j, b)'
<1>1. \A k \in Kinds : RowStays(j, k)
  BY RowsMove DEF RowAvailable, RowUploading, Upload
<1> QED
  BY <1>1 DEF RowStays, Whole

\* Where the body of a run under review may be.
LEMMA ReviewedBody ==
    ASSUME Safe, NEW j \in Jobs, run[j] \in Reviewed
    PROVE  body[j].pc \notin Building /\ body[j].pc # "upload" /\ Done(j)
<1>1. body[j].pc \notin Building
  BY DEF Safe, BuildInv, Reviewed
<1>2. PICK b \in 1..builds : Whole(j, b)
  BY DEF Safe, RunInv
<1> QED
  BY <1>1, <1>2, WholeIsDone DEF Building

\* A run comes up for review with its last commit, and its kit stays whole.
LEMMA RunStep ==
    ASSUME TypedRest, NEW N, TypedWith(N), Safe, [Next]_vars PROVE RunInv'
<1> SUFFICES ASSUME NEW j \in Jobs, run'[j] \in Reviewed
             PROVE  \E b \in 1..builds' : Whole(j, b)'
  BY DEF RunInv
<1>0. 1..builds \subseteq 1..builds'
  BY SeenGrows
<1>1. CASE run[j] \in Reviewed
  <2>1. PICK b \in 1..builds : Whole(j, b)
    BY <1>1 DEF Safe, RunInv
  <2> QED
    BY <1>0, <1>1, <2>1, ReviewedBody, WholeStays
<1>2. CASE Finish(j)
  <2>1. body[j].pc = "upload" /\ body[j].todo = {} /\ ver' = [ver EXCEPT ![j] = WithLast(j)]
    BY <1>2 DEF Finish
  <2>2. /\ body[j].build \in 1..builds
        /\ \A k \in Kinds :
             /\ ver[j][k].build = body[j].build
             /\ k \notin body[j].last => ver[j][k].storage \notin {"none", "uploading"}
    BY <2>1 DEF Safe, UploadedInv
  <2>3. \A k \in Kinds : ver'[j][k] = WithLast(j)[k]
    BY <2>1 DEF TypedWith
  <2>4. /\ \A k \in Kinds \ body[j].last : WithLast(j)[k] = ver[j][k]
        /\ \A k \in Kinds : /\ WithLast(j)[k].build = ver[j][k].build
                            /\ k \in body[j].last => WithLast(j)[k].storage = "available"
    BY WithLastTyped
  <2>5. \A k \in Kinds : /\ ver'[j][k].build = body[j].build
                        /\ ver'[j][k].storage \notin {"none", "uploading"}
    BY <2>2, <2>3, <2>4
  <2>6. \E b \in 1..builds' : \A k \in Kinds :
          ver'[j][k].build = b /\ ver'[j][k].storage \notin {"none", "uploading"}
    BY <1>0, <2>2, <2>5
  <2> QED
    BY <2>6 DEF Whole
<1>3. ASSUME NEW a \in Approvers, ApproveWrites(a), approving[a] # None, approving[a].job = j
      PROVE  \E b \in 1..builds' : Whole(j, b)'
  <2>1. PICK b \in 1..builds : Whole(j, b)
    BY <1>3 DEF Safe, ApproveInv
  <2>2. body[j].pc # "upload"
    BY <1>3 DEF Safe, ApproveInv, Building
  <2> QED
    BY <1>0, <2>1, <2>2, WholeStays
<1> QED
  BY <1>1, <1>2, <1>3, RunsMove DEF Reviewed

\* The status of a run whose kit is built is changed by the build alone.
LEMMA BuildStep ==
    ASSUME TypedRest, NEW N, TypedWith(N), Safe, [Next]_vars PROVE BuildInv'
<1> SUFFICES ASSUME NEW j \in Jobs, body'[j].pc \in Building
             PROVE  run'[j] \in {"building", "failed"}
  BY DEF BuildInv
<1>1. CASE body[j].pc \in Building
  <2>1. run[j] \in {"building", "failed"}
    BY <1>1 DEF Safe, BuildInv
  <2>2. ~Finish(j)
    <3>1. ASSUME Finish(j) PROVE body'[j].pc \in {"idle", "failing"}
      <4>1. CASE body' = [body EXCEPT ![j] = Idle]
        BY <4>1 DEF Idle, TypedWith
      <4>2. CASE Goes(j, "failing")
        BY <4>2, GoesOn DEF Pcs
      <4> QED
        BY <3>1, <4>1, <4>2 DEF Finish
    <3> QED
      BY <3>1 DEF Building
  <2>3. ASSUME NEW a \in Approvers, approving[a] # None, approving[a].job = j PROVE FALSE
    BY <1>1, <2>3 DEF Safe, ApproveInv
  <2> QED
    BY <2>1, <2>2, <2>3, RunsMove
<1>2. CASE body[j].pc \notin Building
  <2>1. body[j].pc = "collect" /\ Collect(j) /\ ~Done(j)
    <3>1. ~Generate(j) /\ ~Put(j) /\ \A k \in Kinds : ~Upload(j, k)
      BY <1>2 DEF Generate, Put, Upload, Building
    <3> QED
      BY <1>2, <3>1, BodiesMove
  <2>2. run[j] \notin Reviewed /\ run[j] \in RunStatuses
    BY <2>1, ReviewedBody DEF TypedRest
  <2>3. run'[j] = IF run[j] = "none" THEN "building" ELSE run[j]
    BY <2>1 DEF Collect, TypedRest
  <2> QED
    BY <2>2, <2>3 DEF Reviewed, RunStatuses
<1> QED
  BY <1>1, <1>2

\* The rows of the files already handed over are those of the build under way.
LEMMA UploadedStep ==
    ASSUME TypedRest, NEW N, TypedWith(N), Safe, [Next]_vars PROVE UploadedInv'
<1> DEFINE Part(j, k, b) ==
             /\ ver'[j][k].build = b.build /\ ver'[j][k].number = b.number
             /\ k \notin b.last => ver'[j][k].storage \notin {"none", "uploading"}
<1> SUFFICES ASSUME NEW j \in Jobs, body'[j].pc \in {"upload", "put"}
             PROVE  /\ body'[j].build \in 1..builds'
                    /\ body'[j].last \cap body'[j].todo = {}
                    /\ \A k \in Kinds \ body'[j].todo : Part(j, k, body'[j])
  BY DEF UploadedInv
<1>0. 1..builds \subseteq 1..builds'
  BY SeenGrows
<1>1. body \in [Jobs -> Body(N)]
      /\ body[j] \in [pc : Pcs, build : Nat, number : N, todo : SUBSET Kinds,
                      last : SUBSET Kinds]
  BY DEF TypedWith, Body
<1>2. ASSUME body[j].pc \in {"upload", "put"}
      PROVE  /\ body[j].build \in 1..builds /\ body[j].last \cap body[j].todo = {}
             /\ \A k \in Kinds \ body[j].todo : Part(j, k, body[j])
  <2>1. /\ body[j].build \in 1..builds
        /\ body[j].last \cap body[j].todo = {}
        /\ \A k \in Kinds \ body[j].todo :
             /\ ver[j][k].build = body[j].build /\ ver[j][k].number = body[j].number
             /\ k \notin body[j].last => ver[j][k].storage \notin {"none", "uploading"}
    BY <1>2 DEF Safe, UploadedInv
  <2>2. ASSUME NEW k \in Kinds \ body[j].todo PROVE Part(j, k, body[j])
    <3>1. RowStays(j, k) \/ RowAvailable(j, k)
      BY <2>2, RowsMove DEF RowUploading, Upload
    <3> QED
      BY <2>1, <2>2, <3>1 DEF RowStays, RowAvailable
  <2> QED
    BY <2>1, <2>2
<1>3. CASE body'[j] = body[j]
  BY <1>0, <1>2, <1>3
<1>4. CASE Generate(j)
  <2>1. body'[j] = [pc |-> "upload", build |-> builds + 1, number |-> Newest + 1,
                    todo |-> Kinds, last |-> {}]
    BY <1>1, <1>4 DEF Generate
  <2>2. builds' = builds + 1 /\ builds \in Nat
    BY <1>4, SeenGrows DEF Generate
  <2>3. builds + 1 \in 1..builds'
    BY <2>2
  <2> QED
    BY <2>1, <2>3
<1>5. CASE Put(j)
  <2>1. body'[j] = [body[j] EXCEPT !.pc = "upload"] /\ body[j].pc = "put"
    BY <1>5, GoesOn DEF Put, Pcs
  <2>2. /\ body'[j].build = body[j].build /\ body'[j].number = body[j].number
        /\ body'[j].todo = body[j].todo /\ body'[j].last = body[j].last
    BY <1>1, <2>1
  <2> QED
    BY <1>0, <1>2, <2>1, <2>2
<1>6. ASSUME NEW k \in Kinds, Upload(j, k)
      PROVE  /\ body'[j].build \in 1..builds'
             /\ body'[j].last \cap body'[j].todo = {}
             /\ \A l \in Kinds \ body'[j].todo : Part(j, l, body'[j])
  <2>1. body'[j] = [body[j] EXCEPT !.pc = "put", !.last = {k}, !.todo = @ \ {k}]
        /\ body[j].pc = "upload"
    BY <1>1, <1>6 DEF Upload
  <2>2. /\ body'[j].build = body[j].build /\ body'[j].number = body[j].number
        /\ body'[j].todo = body[j].todo \ {k} /\ body'[j].last = {k}
    BY <1>1, <2>1
  <2>3. /\ body[j].build \in 1..builds
        /\ \A l \in Kinds \ body[j].todo :
             /\ ver[j][l].build = body[j].build /\ ver[j][l].number = body[j].number
             /\ l \notin body[j].last => ver[j][l].storage \notin {"none", "uploading"}
    BY <2>1 DEF Safe, UploadedInv
  <2>4. WithLast(j) \in [Kinds -> VersionRow(N)]
    BY WithLastTyped
  <2> DEFINE row == [storage |-> "uploading", build |-> body[j].build,
                     number |-> body[j].number, purge |-> ver[j][k].purge]
  <2>5. row.build = body[j].build /\ row.number = body[j].number
    OBVIOUS
  <2>6. ver'[j] = [WithLast(j) EXCEPT ![k] = row]
    BY <1>6 DEF Upload, TypedWith
  <2> HIDE DEF row
  <2>7. Part(j, k, body'[j])
    BY <2>2, <2>4, <2>5, <2>6
  <2>8. ASSUME NEW l \in Kinds \ body[j].todo, l # k PROVE Part(j, l, body'[j])
    <3>1. ver'[j][l] = WithLast(j)[l]
      BY <2>4, <2>6, <2>8
    <3>2. /\ ver'[j][l].build = ver[j][l].build /\ ver'[j][l].number = ver[j][l].number
          /\ ver'[j][l].storage = "available" \/ ver'[j][l].storage = ver[j][l].storage
      BY <3>1, WithLastTyped
    <3>3. ver'[j][l].storage \notin {"none", "uploading"}
      <4>1. CASE l \in body[j].last
        BY <3>1, <4>1, WithLastTyped
      <4>2. CASE l \notin body[j].last
        BY <2>3, <3>2, <4>2
      <4> QED
        BY <4>1, <4>2
    <3> QED
      BY <2>2, <2>3, <3>2, <3>3
  <2> QED
    BY <1>0, <2>2, <2>3, <2>7, <2>8
<1> HIDE DEF Part
<1> QED
  BY <1>3, <1>4, <1>5, <1>6, BodiesMove DEF Building

\* How the approval of one request moves.
LEMMA ApprovalsMove ==
    ASSUME TypedRest, [Next]_vars, NEW a \in Approvers
    PROVE  \/ approving'[a] \in {approving[a], None}
           \/ \E j \in Jobs : /\ ApproveReads(a, j)
                              /\ approving'[a] = [job |-> j, status |-> run[j]]
<1>0. approving \in [Approvers -> {None} \cup Approval]
  BY DEF TypedRest
<1>1. ASSUME NEW j \in Jobs, \/ Accept(j) \/ EnqueueFindsNone(j) \/ EnqueueInserts(j)
                             \/ Start(j) \/ Transcribe(j) \/ Fail(j) \/ WorkerLost(j)
                             \/ Publish(j) \/ Revoke(j)
      PROVE  UNCHANGED approving
  BY <1>1 DEF Accept, EnqueueFindsNone, EnqueueInserts, Start, Transcribe, Sync,
     SaveTranscript, QueueMaterials, TranscriptionFails, MarkTranscriptFailed, Fail,
     WorkerLost, Publish, Revoke
<1>2. ASSUME NEW j \in Jobs, Process(j) PROVE UNCHANGED approving
  BY <1>2 DEF Process, Collect, Generate, Put, PutRefused, BuildFails, Upload, Finish,
     FailRun
<1>3. ASSUME NEW j \in Jobs, NEW k \in Kinds,
             SoftDelete(j, k) \/ Expire(j, k) \/ Purge(j, k) \/ Verify(j, k)
      PROVE  UNCHANGED approving
  BY <1>3 DEF SoftDelete, Expire, Purge, Verify
<1>4. ASSUME NEW c \in Approvers, NEW j \in Jobs, ApproveReads(c, j)
      PROVE  \/ approving'[a] = approving[a]
             \/ ApproveReads(a, j) /\ approving'[a] = [job |-> j, status |-> run[j]]
  <2>1. approving' = [approving EXCEPT ![c] = [job |-> j, status |-> run[j]]]
    BY <1>4 DEF ApproveReads
  <2> QED
    BY <1>0, <1>4, <2>1
<1>5. ASSUME NEW c \in Approvers, ApproveWrites(c)
      PROVE  approving'[a] \in {approving[a], None}
  BY <1>0, <1>5 DEF ApproveWrites
<1>6. CASE (\E o \in objects : ObjectLost(o)) \/ EditTranscript \/ UNCHANGED vars
  BY <1>6 DEF ObjectLost, EditTranscript, vars
<1> QED
  BY <1>1, <1>2, <1>3, <1>4, <1>5, <1>6 DEF Next

\* While an approval is under way nothing is built for its run.
LEMMA ApproveStep ==
    ASSUME TypedRest, NEW N, TypedWith(N), Safe, [Next]_vars PROVE ApproveInv'
<1> SUFFICES ASSUME NEW a \in Approvers, approving'[a] # None, NEW j \in Jobs,
                    j = approving'[a].job
             PROVE  /\ \E b \in 1..builds' : Whole(j, b)'
                    /\ AllSeen(j)'
                    /\ body'[j].pc \notin Building
                    /\ body'[j].pc = "collect" => run'[j] \in Reviewed
  <2>1. TypedRest'
    BY TypeStep DEF Typed
  <2>2. ASSUME NEW a \in Approvers, approving'[a] # None PROVE approving'[a].job \in Jobs
    BY <2>1, <2>2 DEF TypedRest, Approval
  <2> QED
    BY <2>2 DEF ApproveInv
<1>0. 1..builds \subseteq 1..builds' /\ seen \subseteq seen'
  BY SeenGrows
<1>1. CASE ApproveReads(a, j)
  <2>1. /\ run[j] \in Reviewed /\ UNCHANGED <<ver, body, run, builds>>
        /\ \A k \in Kinds : ver[j][k].build \in seen'
    BY <1>1 DEF ApproveReads, Reviewed
  <2>2. body[j].pc \notin Building /\ \E b \in 1..builds : Whole(j, b)
    BY <2>1, ReviewedBody DEF Safe, RunInv
  <2>3. \E b \in 1..builds' : Whole(j, b)'
    BY <2>1, <2>2 DEF Whole
  <2> QED
    BY <2>1, <2>2, <2>3 DEF AllSeen
<1>2. CASE approving'[a] = approving[a]
  <2>1. /\ approving[a] # None /\ approving[a].job = j
        /\ \E b \in 1..builds : Whole(j, b)
        /\ AllSeen(j)
        /\ body[j].pc \notin Building
        /\ body[j].pc = "collect" => run[j] \in Reviewed
    BY <1>2 DEF Safe, ApproveInv
  <2>2. body[j].pc # "upload"
    BY <2>1 DEF Building
  <2>3. \E b \in 1..builds' : Whole(j, b)'
    BY <1>0, <2>1, <2>2, WholeStays
  <2>4. AllSeen(j)'
    BY <1>0, <2>1, <2>2, WholeStays DEF AllSeen
  <2>5. ~Generate(j) /\ ~Put(j) /\ \A k \in Kinds : ~Upload(j, k)
    BY <2>1 DEF Generate, Put, Upload, Building
  <2>6. body[j].pc = "collect" => Done(j)
    BY <2>1, WholeIsDone
  <2>7. body'[j].pc \notin Building
    BY <2>1, <2>5, <2>6, BodiesMove
  <2>8. ASSUME body'[j].pc = "collect" PROVE run'[j] \in Reviewed
    <3>1. ~Start(j)
      BY <2>1 DEF Start
    <3>2. body'[j] = body[j]
      BY <2>8, <3>1, BodiesMove
    <3>3. run[j] \in Reviewed /\ ~FailRun(j)
      BY <2>1, <2>8, <3>2 DEF FailRun
    <3> QED
      BY <3>3, RunsMove DEF Reviewed
  <2> QED
    BY <2>3, <2>4, <2>7, <2>8
<1> QED
  <2>1. ASSUME NEW i \in Jobs, approving'[a] = [job |-> i, status |-> run[i]]
        PROVE  i = j
    BY <2>1
  <2> QED
    BY <1>1, <1>2, <2>1, ApprovalsMove

\* What is approved or published was seen by an approver.
LEMMA SeenStep ==
    ASSUME TypedRest, NEW N, TypedWith(N), Safe, [Next]_vars PROVE SeenInv'
<1> SUFFICES ASSUME NEW j \in Jobs, run'[j] \in {"approved", "published"}
             PROVE  AllSeen(j)'
  BY DEF SeenInv
<1>1. AllSeen(j) /\ body[j].pc # "upload"
  <2>1. CASE run[j] \in {"approved", "published"}
    BY <2>1, ReviewedBody DEF Safe, SeenInv, Reviewed
  <2>2. ASSUME NEW a \in Approvers, approving[a] # None, approving[a].job = j
        PROVE  AllSeen(j) /\ body[j].pc # "upload"
    BY <2>2 DEF Safe, ApproveInv, Building
  <2> QED
    BY <2>1, <2>2, RunsMove
<1> QED
  BY <1>1, WholeStays, SeenGrows DEF AllSeen

\* The kit is safe with every step.
LEMMA SafeStep == Typed /\ Safe /\ [Next]_vars => Safe'
<1> SUFFICES ASSUME TypedRest, NEW N, TypedWith(N), Safe, [Next]_vars PROVE Safe'
  BY DEF Typed
<1> QED
  BY RunStep, BuildStep, UploadedStep, ApproveStep, SeenStep DEF Safe

-----------------------------------------------------------------------------
(* AN AVAILABLE FILE IS STORED *)

Kept(j, k) == Stored(j, k) \/ Key(j, k) \in lost

(* The file being written is one; it becomes available with the commit that follows
   its object, so the last file of a body that goes on is stored already. *)
PutInv ==
    \A j \in Jobs :
        /\ body[j].pc = "put" => \E k \in Kinds : body[j].last = {k}
        /\ body[j].pc = "upload" => \A k \in body[j].last : Kept(j, k)

\* The objects of one file are not those of another.
LEMMA OtherKey ==
    ASSUME NEW i, NEW l, NEW j, NEW k, NEW b, <<i, l>> # <<j, k>>
    PROVE  <<j, k, ver[j][k].number, b>> \notin At(Key(i, l))
<1>1. <<j, k, ver[j][k].number>> # <<i, l, ver[i][l].number>>
  OBVIOUS
<1> QED
  BY <1>1 DEF At, Key

\* Writing the object stores the file.
LEMMA PutStores ==
    ASSUME NEW N, TypedWith(N), UploadedInv, NEW j \in Jobs, NEW k \in Kinds,
           k \in body[j].last, body[j].pc = "put", UNCHANGED ver,
           objects' = (objects \ At(Key(j, k)))
                        \cup {<<j, k, body[j].number, body[j].build>>}
    PROVE  Stored(j, k)'
<1>1. k \notin body[j].todo
  BY DEF UploadedInv
<1>2. ver[j][k].number = body[j].number /\ ver[j][k].build = body[j].build
  BY <1>1 DEF UploadedInv
<1> QED
  BY <1>2 DEF Stored

\* Nothing but the storage itself and the purge of a deleted file takes an object
\* away, and no other file is written over it.
LEMMA ObjectsMove ==
    ASSUME NEW N, TypedWith(N), UploadedInv, [Next]_vars, NEW j \in Jobs, NEW k \in Kinds,
           ~Purge(j, k), Kept(j, k)
    PROVE  \/ <<j, k, ver[j][k].number, ver[j][k].build>> \in objects'
           \/ Key(j, k) \in lost'
<1> DEFINE o == <<j, k, ver[j][k].number, ver[j][k].build>>
           G == o \in objects' \/ Key(j, k) \in lost'
<1> SUFFICES G
  OBVIOUS
<1>0. o \in objects \/ Key(j, k) \in lost
  BY DEF Kept, Stored
<1>1. CASE UNCHANGED <<objects, lost>>
  BY <1>0, <1>1 DEF Key
<1>2. ASSUME NEW i \in Jobs, Put(i) PROVE G
  <2>1. PICK l \in body[i].last :
          objects' = (objects \ At(Key(i, l))) \cup {<<i, l, body[i].number, body[i].build>>}
    BY <1>2 DEF Put
  <2>2. l \in Kinds /\ body[i].pc = "put" /\ UNCHANGED <<ver, lost>>
    BY <1>2, <2>1 DEF Put, TypedWith, Body
  <2>3. CASE i = j /\ l = k
    <3>1. Stored(j, k)'
      BY <2>1, <2>2, <2>3, PutStores
    <3> QED
      BY <2>2, <3>1 DEF Stored
  <2>4. CASE <<i, l>> # <<j, k>>
    <3>1. o \notin At(Key(i, l))
      BY <2>4, OtherKey
    <3> QED
      BY <1>0, <2>1, <2>2, <3>1
  <2> QED
    BY <2>3, <2>4
<1>3. ASSUME NEW i \in Jobs, NEW l \in Kinds, Purge(i, l) PROVE G
  <2>1. objects' = objects \ At(Key(i, l)) /\ UNCHANGED lost
    BY <1>3 DEF Purge
  <2>2. <<i, l>> # <<j, k>>
    BY <1>3
  <2>3. o \notin At(Key(i, l))
    BY <2>2, OtherKey
  <2> QED
    BY <1>0, <2>1, <2>3
<1>4. ASSUME NEW p \in objects, ObjectLost(p) PROVE G
  <2>1. objects' = objects \ {p} /\ lost' = lost \cup {<<p[1], p[2], p[3]>>}
    BY <1>4 DEF ObjectLost
  <2>2. p = o => Key(j, k) = <<p[1], p[2], p[3]>>
    BY DEF Key
  <2> QED
    BY <1>0, <2>1, <2>2
<1>5. ASSUME NEW i \in Jobs, \/ Accept(i) \/ EnqueueFindsNone(i) \/ EnqueueInserts(i)
                             \/ Start(i) \/ Transcribe(i) \/ Fail(i) \/ WorkerLost(i)
                             \/ Publish(i) \/ Revoke(i)
      PROVE  UNCHANGED <<objects, lost>>
  BY <1>5 DEF Accept, EnqueueFindsNone, EnqueueInserts, Start, Transcribe, Sync,
     SaveTranscript, QueueMaterials, TranscriptionFails, MarkTranscriptFailed, Fail,
     WorkerLost, Publish, Revoke
<1>6. ASSUME NEW i \in Jobs, Process(i), ~Put(i) PROVE UNCHANGED <<objects, lost>>
  BY <1>6 DEF Process, Collect, Generate, PutRefused, BuildFails, Upload, Finish, FailRun
<1>7. ASSUME NEW i \in Jobs, NEW l \in Kinds, SoftDelete(i, l) \/ Expire(i, l) \/ Verify(i, l)
      PROVE  UNCHANGED <<objects, lost>>
  BY <1>7 DEF SoftDelete, Expire, Verify
<1>8. ASSUME NEW a \in Approvers,
             ApproveWrites(a) \/ \E i \in Jobs : ApproveReads(a, i)
      PROVE  UNCHANGED <<objects, lost>>
  BY <1>8 DEF ApproveWrites, ApproveReads
<1>9. CASE EditTranscript \/ UNCHANGED vars
  BY <1>1, <1>9 DEF EditTranscript, vars
<1> HIDE DEF G
<1>10. CASE \E i \in Jobs : Process(i)
  <2>1. PICK i \in Jobs : Process(i)
    BY <1>10
  <2> QED
    BY <1>1, <1>2, <1>6, <2>1
<1>11. CASE \E i \in Jobs, l \in Kinds :
               SoftDelete(i, l) \/ Expire(i, l) \/ Purge(i, l) \/ Verify(i, l)
  BY <1>1, <1>3, <1>7, <1>11
<1>12. CASE \E i \in Jobs : \/ Accept(i) \/ EnqueueFindsNone(i) \/ EnqueueInserts(i)
                            \/ Start(i) \/ Transcribe(i) \/ Fail(i) \/ WorkerLost(i)
                            \/ Publish(i) \/ Revoke(i)
  BY <1>1, <1>5, <1>12
<1>13. CASE \E a \in Approvers : ApproveWrites(a) \/ \E i \in Jobs : ApproveReads(a, i)
  BY <1>1, <1>8, <1>13
<1> QED
  BY <1>4, <1>9, <1>10, <1>11, <1>12, <1>13 DEF Next

\* A file that is not written anew stays kept.
LEMMA KeptStays ==
    ASSUME NEW N, TypedWith(N), UploadedInv, [Next]_vars, NEW j \in Jobs, NEW k \in Kinds,
           ~Purge(j, k), ~Upload(j, k), Kept(j, k)
    PROVE  Kept(j, k)'
<1>1. ver'[j][k].build = ver[j][k].build /\ ver'[j][k].number = ver[j][k].number
  BY RowsMove DEF RowStays, RowAvailable, RowUploading
<1> QED
  BY <1>1, ObjectsMove DEF Kept, Stored, Key

\* The last file of a body is one, and it is stored before it is available.
LEMMA PutStep ==
    ASSUME TypedRest, NEW N, TypedWith(N), UploadedInv, PutInv, [Next]_vars PROVE PutInv'
<1> SUFFICES ASSUME NEW j \in Jobs
             PROVE  /\ body'[j].pc = "put" => \E k \in Kinds : body'[j].last = {k}
                    /\ body'[j].pc = "upload" => \A k \in body'[j].last : Kept(j, k)'
  BY DEF PutInv
<1>1. body \in [Jobs -> Body(N)]
      /\ body[j] \in [pc : Pcs, build : Nat, number : N, todo : SUBSET Kinds,
                      last : SUBSET Kinds]
  BY DEF TypedWith, Body
<1>2. CASE body'[j] = body[j]
  <2>1. ASSUME body[j].pc = "upload", NEW k \in body[j].last PROVE Kept(j, k)'
    <3>1. k \in Kinds /\ Kept(j, k)
      BY <1>1, <2>1 DEF PutInv
    <3>2. ~Purge(j, k)
      BY <2>1 DEF Purge
    <3>3. ~Upload(j, k)
      <4>1. ASSUME Upload(j, k) PROVE body'[j].pc = "put"
        BY <1>1, <4>1 DEF Upload
      <4> QED
        BY <1>2, <2>1, <4>1
    <3> QED
      BY <3>1, <3>2, <3>3, KeptStays
  <2> QED
    BY <1>2, <2>1 DEF PutInv
<1>3. CASE Generate(j)
  BY <1>1, <1>3 DEF Generate
<1>4. CASE Put(j)
  <2>1. body[j].pc = "put" /\ body'[j] = [body[j] EXCEPT !.pc = "upload"] /\ UNCHANGED ver
    BY <1>4, GoesOn DEF Put, Pcs
  <2>2. PICK k \in Kinds : body[j].last = {k}
    BY <2>1 DEF PutInv
  <2>3. objects' = (objects \ At(Key(j, k))) \cup {<<j, k, body[j].number, body[j].build>>}
    BY <1>4, <2>2 DEF Put
  <2>4. Stored(j, k)'
    BY <2>1, <2>2, <2>3, PutStores
  <2>5. body'[j].pc = "upload" /\ body'[j].last = {k}
    BY <1>1, <2>1, <2>2
  <2> QED
    BY <2>4, <2>5 DEF Kept
<1>5. ASSUME NEW k \in Kinds, Upload(j, k)
      PROVE  body'[j].pc = "put" /\ body'[j].last = {k}
  <2>1. body'[j] = [body[j] EXCEPT !.pc = "put", !.last = {k}, !.todo = @ \ {k}]
    BY <1>1, <1>5 DEF Upload
  <2> QED
    BY <1>1, <2>1
<1> QED
  BY <1>2, <1>3, <1>4, <1>5, BodiesMove DEF Building

\* A file that is or becomes available is stored.
LEMMA AvailableStep ==
    ASSUME NEW N, TypedWith(N), UploadedInv, PutInv, AvailableIsStored, [Next]_vars
    PROVE  AvailableIsStored'
<1> SUFFICES ASSUME NEW j \in Jobs, NEW k \in Kinds, ver'[j][k].storage = "available"
             PROVE  Kept(j, k)'
  BY DEF AvailableIsStored, Kept
<1>1. CASE RowStays(j, k)
  <2>1. ver[j][k].storage = "available"
    BY <1>1 DEF RowStays
  <2>2. Kept(j, k) /\ ~Purge(j, k)
    BY <2>1 DEF AvailableIsStored, Kept, Purge, Due
  <2> QED
    BY <1>1, <2>2, ObjectsMove DEF Kept, Stored, Key, RowStays
<1>2. CASE RowAvailable(j, k)
  <2>1. Kept(j, k) /\ ~Purge(j, k)
    BY <1>2 DEF RowAvailable, PutInv, Purge
  <2> QED
    BY <1>2, <2>1, ObjectsMove DEF Kept, Stored, Key, RowAvailable
<1> QED
  BY <1>1, <1>2, RowsMove DEF RowUploading

-----------------------------------------------------------------------------
(* THE THEOREMS *)

\* A transcript is taken over, saved and given up as a whole.
LEMMA TranscriptStep ==
    ASSUME TypedRest, TranscriptIsOfItsRecording, [Next]_vars
    PROVE  TranscriptIsOfItsRecording'
<1>0. transcript \in [status : {"none", "running", "completed", "failed"},
                      record : Jobs \cup {"none"}, text : Jobs \cup {"none", "edited"}]
  BY DEF TypedRest
<1>1. CASE UNCHANGED transcript
  BY <1>1 DEF TranscriptIsOfItsRecording
<1>2. ASSUME NEW j \in Jobs, Sync(j) PROVE TranscriptIsOfItsRecording'
  <2>1. CASE transcript' = [transcript EXCEPT !.status = "running", !.record = j]
    BY <1>0, <2>1 DEF TranscriptIsOfItsRecording
  <2> QED
    BY <1>1, <1>2, <2>1 DEF Sync
<1>3. ASSUME NEW j \in Jobs, SaveTranscript(j) PROVE TranscriptIsOfItsRecording'
  BY <1>3 DEF SaveTranscript, TranscriptIsOfItsRecording
<1>4. ASSUME NEW j \in Jobs, MarkTranscriptFailed(j) PROVE TranscriptIsOfItsRecording'
  <2>1. CASE transcript' = [transcript EXCEPT !.status = "failed"]
    BY <1>0, <2>1 DEF TranscriptIsOfItsRecording
  <2> QED
    BY <1>1, <1>4, <2>1 DEF MarkTranscriptFailed
<1>5. CASE EditTranscript
  BY <1>0, <1>5 DEF EditTranscript, TranscriptIsOfItsRecording
<1>6. ASSUME NEW j \in Jobs, \/ Accept(j) \/ EnqueueFindsNone(j) \/ EnqueueInserts(j)
                             \/ Start(j) \/ QueueMaterials(j) \/ TranscriptionFails(j)
                             \/ Fail(j) \/ WorkerLost(j) \/ Publish(j) \/ Revoke(j)
      PROVE  UNCHANGED transcript
  BY <1>6 DEF Accept, EnqueueFindsNone, EnqueueInserts, Start, QueueMaterials,
     TranscriptionFails, Fail, WorkerLost, Publish, Revoke
<1>7. ASSUME NEW j \in Jobs, Process(j) PROVE UNCHANGED transcript
  BY <1>7 DEF Process, Collect, Generate, Put, PutRefused, BuildFails, Upload, Finish,
     FailRun
<1>8. ASSUME NEW j \in Jobs, NEW k \in Kinds,
             SoftDelete(j, k) \/ Expire(j, k) \/ Purge(j, k) \/ Verify(j, k)
      PROVE  UNCHANGED transcript
  BY <1>8 DEF SoftDelete, Expire, Purge, Verify
<1>9. ASSUME NEW a \in Approvers, ApproveWrites(a) \/ \E j \in Jobs : ApproveReads(a, j)
      PROVE  UNCHANGED transcript
  BY <1>9 DEF ApproveWrites, ApproveReads
<1>10. CASE (\E o \in objects : ObjectLost(o)) \/ UNCHANGED vars
  BY <1>1, <1>10 DEF ObjectLost, vars
<1>11. CASE \E j \in Jobs : Transcribe(j)
  BY <1>1, <1>2, <1>3, <1>4, <1>6, <1>11 DEF Transcribe
<1> QED
  BY <1>1, <1>5, <1>6, <1>7, <1>8, <1>9, <1>10, <1>11 DEF Next

\* The inductive invariant.
IInv == Typed /\ Safe /\ PutInv /\ AvailableIsStored /\ TranscriptIsOfItsRecording

\* It holds when nothing is recorded yet.
LEMMA InitSafe == Init => IInv
<1> SUFFICES ASSUME Init PROVE IInv
  OBVIOUS
<1>1. \A j \in Jobs : /\ run[j] = "none" /\ body[j] = Idle
                      /\ \A k \in Kinds : ver[j][k] = NoRow
  BY DEF Init
<1>2. Typed
  <2>1. TypedWith({0})
    <3>1. NoRow \in VersionRow({0})
      BY DEF NoRow, VersionRow, StorageStatuses
    <3>2. Idle \in Body({0})
      BY IdleTyped
    <3> QED
      BY <3>1, <3>2 DEF Init, TypedWith
  <2>2. TypedRest
    <3>1. transcript \in [status : {"none", "running", "completed", "failed"},
                          record : Jobs \cup {"none"}, text : Jobs \cup {"none", "edited"}]
      BY DEF Init
    <3> QED
      BY <3>1, BoundsAssumption DEF Init, TypedRest, JobStatuses, RunStatuses
  <2> QED
    BY <2>1, <2>2 DEF Typed
<1>3. Safe
  BY <1>1 DEF Init, Safe, RunInv, BuildInv, UploadedInv, ApproveInv, SeenInv, Idle, Reviewed,
     Building
<1>4. PutInv
  BY <1>1 DEF PutInv, Idle
<1>5. AvailableIsStored /\ TranscriptIsOfItsRecording
  BY <1>1 DEF Init, AvailableIsStored, NoRow, TranscriptIsOfItsRecording
<1> QED
  BY <1>2, <1>3, <1>4, <1>5 DEF IInv

\* Every step keeps it.
LEMMA StepSafe == IInv /\ [Next]_vars => IInv'
<1> SUFFICES ASSUME IInv, TypedRest, NEW N, TypedWith(N), [Next]_vars PROVE IInv'
  BY DEF IInv, Typed
<1>1. Typed' /\ Safe'
  BY TypeStep, SafeStep DEF IInv
<1>2. UploadedInv
  BY DEF IInv, Safe
<1> QED
  BY <1>1, <1>2, PutStep, AvailableStep, TranscriptStep DEF IInv

\* The invariant is one of every behaviour.
LEMMA AlwaysSafe == Spec => []IInv
BY InitSafe, StepSafe, PTL DEF Spec

\* The text of a completed transcript is of the recording the row names, or the
\* tutor's correction, however the jobs of several recordings take the one row of
\* the lesson from each other (_mark_transcript_running, _save_transcript).
THEOREM TranscriptsAreTheirs == Spec => []TranscriptIsOfItsRecording
<1>1. IInv => TranscriptIsOfItsRecording
  BY DEF IInv
<1> QED
  BY <1>1, AlwaysSafe, PTL

\* A run that is up for review, approved or published has a whole kit of one build,
\* and every file a student can download is of a build that an approver was shown,
\* for any number of jobs, files, approvers, retries, lost workers and deletions
\* (process, approve, _authorized_artifact).
THEOREM ReviewedKitsAreWhole == Spec => []ReviewedIsWhole
<1>1. ASSUME IInv PROVE ReviewedIsWhole
  <2>1. TypeOK
    BY <1>1, TypedIsOK DEF IInv
  <2>2. \A j \in Jobs : run[j] \in Reviewed \ {"revoked"} => WholeKit(j)
    BY <1>1 DEF IInv, Safe, RunInv, Whole, WholeKit
  <2>3. \A j \in Jobs, k \in Kinds : Offered(j, k) => ver[j][k].build \in seen
    BY <1>1 DEF IInv, Safe, SeenInv, AllSeen, Offered
  <2> QED
    BY <2>1, <2>2, <2>3 DEF ReviewedIsWhole
<1> QED
  BY <1>1, AlwaysSafe, PTL

\* An available version has its object in the storage, of its own build, unless the
\* storage lost it: no refused upload, retry over an earlier row or purge of an
\* earlier deletion leaves a row that promises a file which is not there
\* (_upload_artifact, purge_due).
THEOREM AvailableFilesAreStored == Spec => []AvailableIsStored
<1>1. IInv => AvailableIsStored
  BY DEF IInv
<1> QED
  BY <1>1, AlwaysSafe, PTL

-----------------------------------------------------------------------------
(* SUMS *)

LowerThan == {p \in Nat \X Nat : p[1] < p[2]}

\* A set of numbers that is not empty has a least one: induction over numbers
\* is an argument about the least one for which a claim fails.
LEMMA LeastOne ==
    ASSUME NEW N \in SUBSET Nat, N # {}
    PROVE  \E n \in N : \A m \in N : n <= m
<1>1. IsWellFoundedOn(LowerThan, Nat)
  BY NatLessThanWellFounded DEF OpToRel, LowerThan
<1>2. PICK n \in N : \A m \in N : <<m, n>> \notin LowerThan
  BY <1>1, WFMin
<1>3. ASSUME NEW m \in N PROVE n <= m
  <2>1. <<m, n>> \notin LowerThan
    BY <1>2
  <2> QED
    BY <2>1 DEF LowerThan
<1> QED
  BY <1>3

\* The element that a fold takes first.
Taken(S) == CHOOSE x \in S : TRUE
\* What a fold by + makes of the set S, if it makes f of the smaller ones.
Step(v, f, S) == IF S = {} THEN 0 ELSE v[Taken(S)] + f[S \ {Taken(S)}]
Adds(v, f) == f = [S \in SUBSET DOMAIN v |-> Step(v, f, S)]
Total(v) == FoldFunction(+, 0, v)

Numbers(v) == IsFiniteSet(DOMAIN v) /\ \A x \in DOMAIN v : v[x] \in Int

\* One element less.
LEMMA OneLess ==
    ASSUME NEW D, IsFiniteSet(D), NEW S \in SUBSET D
    PROVE  /\ Cardinality(S) \in Nat /\ Cardinality(S) <= Cardinality(D)
           /\ Cardinality(S) = 0 <=> S = {}
           /\ S # {} => Taken(S) \in S
           /\ \A x \in S : /\ S \ {x} \in SUBSET D
                           /\ Cardinality(S \ {x}) = Cardinality(S) - 1
<1>1. IsFiniteSet(S)
  BY FS_Subset
<1> QED
  BY <1>1, FS_Subset, FS_CardinalityType, FS_EmptySet, FS_RemoveElement DEF Taken

\* There is a function that adds up.
LEMMA SomeAdds ==
    ASSUME NEW v, Numbers(v)
    PROVE  \E f \in [SUBSET DOMAIN v -> Int] : Adds(v, f)
<1> DEFINE D == DOMAIN v
           Upto(n, g) == \A S \in SUBSET D : Cardinality(S) <= n => g[S] = Step(v, g, S)
           N == {n \in Nat : ~\E g \in [SUBSET D -> Int] : Upto(n, g)}
<1>1. \A S \in SUBSET D :
        /\ Cardinality(S) \in Nat /\ Cardinality(S) <= Cardinality(D)
        /\ Cardinality(S) = 0 <=> S = {}
        /\ S # {} => /\ Taken(S) \in S /\ S \ {Taken(S)} \in SUBSET D
                     /\ Cardinality(S \ {Taken(S)}) = Cardinality(S) - 1
  BY OneLess DEF Numbers
<1>2. ASSUME NEW n \in N, \A m \in N : n <= m PROVE FALSE
  <2>1. CASE n = 0
    <3>1. [S \in SUBSET D |-> 0] \in [SUBSET D -> Int]
      OBVIOUS
    <3>2. ASSUME NEW S \in SUBSET D, Cardinality(S) <= 0
          PROVE  [R \in SUBSET D |-> 0][S] = Step(v, [R \in SUBSET D |-> 0], S)
      <4>1. S = {}
        <5>1. Cardinality(S) \in Nat /\ (Cardinality(S) = 0 <=> S = {})
          BY <1>1
        <5> QED
          BY <3>2, <5>1
      <4> QED
        BY <4>1 DEF Step
    <3> QED
      BY <2>1, <3>1, <3>2
  <2>2. CASE n # 0
    <3>1. n - 1 \in Nat /\ n - 1 \notin N
      <4>1. n \in Nat /\ \A m \in N : n <= m
        BY <1>2
      <4> HIDE DEF N
      <4> QED
        BY <2>2, <4>1
    <3>2. PICK g \in [SUBSET D -> Int] : Upto(n - 1, g)
      BY <3>1
    <3> DEFINE h == [S \in SUBSET D |-> Step(v, g, S)]
    <3>3. h \in [SUBSET D -> Int]
      <4>1. ASSUME NEW S \in SUBSET D PROVE Step(v, g, S) \in Int
        <5>1. CASE S = {}
          BY <5>1 DEF Step
        <5>2. CASE S # {}
          <6>1. v[Taken(S)] \in Int /\ g[S \ {Taken(S)}] \in Int
            BY <1>1, <5>2 DEF Numbers
          <6> QED
            BY <5>2, <6>1 DEF Step
        <5> QED
          BY <5>1, <5>2
      <4> QED
        BY <4>1
    <3>4. ASSUME NEW S \in SUBSET D, Cardinality(S) <= n PROVE h[S] = Step(v, h, S)
      <4>1. CASE S = {}
        BY <4>1 DEF Step
      <4>2. CASE S # {}
        <5> DEFINE R == S \ {Taken(S)}
        <5>1. R \in SUBSET D /\ Cardinality(R) <= n - 1
          BY <1>1, <3>4, <4>2
        <5>2. h[R] = g[R]
          BY <3>2, <5>1
        <5> QED
          BY <4>2, <5>2 DEF Step
      <4> QED
        BY <4>1, <4>2
    <3> QED
      BY <3>3, <3>4
  <2> QED
    BY <2>1, <2>2
<1>3. N = {}
  <2> SUFFICES ASSUME N # {} PROVE FALSE
    OBVIOUS
  <2>1. N \in SUBSET Nat
    OBVIOUS
  <2>2. \E n \in N : \A m \in N : n <= m
    BY <2>1, LeastOne
  <2> QED
    BY <1>2, <2>2
<1>4. Cardinality(D) \in Nat
  BY <1>1
<1>5. PICK f \in [SUBSET D -> Int] : Upto(Cardinality(D), f)
  BY <1>3, <1>4
<1>6. \A S \in SUBSET D : f[S] = Step(v, f, S)
  BY <1>1, <1>5
<1> QED
  BY <1>5, <1>6 DEF Adds

\* Where two agree on what is added, they agree on the sum.
LEMMA AddsAgree ==
    ASSUME NEW v, NEW w, NEW f, NEW g, Adds(v, f), Adds(w, g),
           NEW S, IsFiniteSet(S), S \subseteq DOMAIN v, S \subseteq DOMAIN w,
           \A x \in S : v[x] = w[x]
    PROVE  f[S] = g[S]
<1> SUFFICES ASSUME f[S] # g[S] PROVE FALSE
  OBVIOUS
<1> DEFINE N == {n \in Nat : \E R \in SUBSET S : Cardinality(R) = n /\ f[R] # g[R]}
<1>1. \A R \in SUBSET S :
        /\ Cardinality(R) \in Nat
        /\ R # {} => /\ Taken(R) \in R /\ R \ {Taken(R)} \in SUBSET S
                     /\ Cardinality(R \ {Taken(R)}) = Cardinality(R) - 1
  BY OneLess
<1>2. N \in SUBSET Nat /\ N # {}
  BY <1>1
<1>3. PICK n \in N : \A m \in N : n <= m
  BY <1>2, LeastOne
<1>4. PICK R \in SUBSET S : Cardinality(R) = n /\ f[R] # g[R]
  BY <1>3
<1>5. R \in SUBSET DOMAIN v /\ R \in SUBSET DOMAIN w
  OBVIOUS
<1>6. f[R] = Step(v, f, R) /\ g[R] = Step(w, g, R)
  BY <1>5 DEF Adds
<1>7. R # {}
  BY <1>4, <1>6 DEF Step
<1> DEFINE Q == R \ {Taken(R)}
<1>8. Q \in SUBSET S /\ Cardinality(Q) \in Nat /\ Cardinality(Q) < n /\ Taken(R) \in S
  <2>1. Cardinality(R) = n /\ n \in Nat /\ R \in SUBSET S
    BY <1>4
  <2>2. Taken(R) \in R /\ Q \in SUBSET S /\ Cardinality(Q) = Cardinality(R) - 1
    BY <1>1, <1>7
  <2>3. Cardinality(Q) \in Nat
    BY <1>1, <2>2
  <2> HIDE DEF Q, N
  <2> QED
    BY <2>1, <2>2, <2>3
<1>9. f[Q] = g[Q]
  <2> SUFFICES ASSUME f[Q] # g[Q] PROVE FALSE
    OBVIOUS
  <2>1. Cardinality(Q) \in N
    BY <1>8
  <2> QED
    BY <1>3, <1>8, <2>1
<1> QED
  BY <1>4, <1>6, <1>7, <1>8, <1>9 DEF Step

\* The fold of a function is such a sum, and a number.
LEMMA TotalAdds ==
    ASSUME NEW v, Numbers(v)
    PROVE  \E f \in [SUBSET DOMAIN v -> Int] : Adds(v, f) /\ Total(v) = f[DOMAIN v]
<1>1. PICK f \in [SUBSET DOMAIN v -> Int] : Adds(v, f)
  BY SomeAdds
<1>2. PICK g : Adds(v, g) /\ Total(v) = g[DOMAIN v]
  BY <1>1 DEF Total, FoldFunction, FoldFunctionOnSet, MapThenFoldSet, Adds, Step, Taken
<1>3. IsFiniteSet(DOMAIN v) /\ DOMAIN v \subseteq DOMAIN v
  BY DEF Numbers
<1>4. \A x \in DOMAIN v : v[x] = v[x]
  OBVIOUS
<1>5. g[DOMAIN v] = f[DOMAIN v]
  BY <1>1, <1>2, <1>3, <1>4, AddsAgree
<1> QED
  BY <1>1, <1>2, <1>5

Sums(v, f) == f \in [SUBSET DOMAIN v -> Int] /\ Adds(v, f)

\* Any element may be added last.
LEMMA TakeAny ==
    ASSUME NEW v, Numbers(v), NEW f, Sums(v, f),
           NEW S, S \subseteq DOMAIN v, NEW x, x \in S
    PROVE  f[S] = v[x] + f[S \ {x}]
<1> DEFINE D == DOMAIN v
           Fails(R) == \E y \in R : f[R] # v[y] + f[R \ {y}]
           N == {n \in Nat : \E R \in SUBSET D : Cardinality(R) = n /\ Fails(R)}
<1> SUFFICES ASSUME Fails(S) PROVE FALSE
  OBVIOUS
<1>0. f \in [SUBSET D -> Int] /\ Adds(v, f)
  BY DEF Sums
<1>1. \A R \in SUBSET D :
        /\ Cardinality(R) \in Nat
        /\ R # {} => Taken(R) \in R
        /\ \A y \in R : R \ {y} \in SUBSET D /\ Cardinality(R \ {y}) = Cardinality(R) - 1
  BY OneLess DEF Numbers
<1>2. N \in SUBSET Nat /\ N # {}
  BY <1>1
<1>3. PICK n \in N : \A m \in N : n <= m
  BY <1>2, LeastOne
<1>4. PICK R \in SUBSET D : Cardinality(R) = n /\ Fails(R)
  BY <1>3
<1>5. PICK y \in R : f[R] # v[y] + f[R \ {y}]
  BY <1>4
<1> DEFINE z == Taken(R)
<1>6. z \in R /\ f[R] = v[z] + f[R \ {z}]
  BY <1>0, <1>1, <1>5 DEF Adds, Step
<1>7. z # y
  BY <1>5, <1>6
<1>8. ASSUME NEW Q \in SUBSET D, Cardinality(Q) = n - 1, NEW u \in Q
      PROVE  f[Q] = v[u] + f[Q \ {u}]
  <2> SUFFICES ASSUME Fails(Q) PROVE FALSE
    BY <1>8
  <2>1. Cardinality(Q) \in N
    BY <1>1
  <2> QED
    BY <1>3, <1>8, <2>1
<1>9. /\ f[R \ {z}] = v[y] + f[(R \ {z}) \ {y}]
      /\ f[R \ {y}] = v[z] + f[(R \ {y}) \ {z}]
  BY <1>1, <1>4, <1>6, <1>7, <1>8
<1>10. (R \ {z}) \ {y} = (R \ {y}) \ {z}
  OBVIOUS
<1>11. /\ v[y] \in Int /\ v[z] \in Int /\ f[(R \ {y}) \ {z}] \in Int
  BY <1>0, <1>6 DEF Numbers
<1>12. f[R] = v[z] + (v[y] + f[(R \ {y}) \ {z}]) /\ f[R \ {y}] = v[z] + f[(R \ {y}) \ {z}]
  BY <1>6, <1>9, <1>10
<1> HIDE DEF z
<1> QED
  BY <1>5, <1>11, <1>12

\* The numbers without that of x.
Without(v, x) == [y \in DOMAIN v \ {x} |-> v[y]]

\* A sum of numbers is a number.
LEMMA TotalType == ASSUME NEW v, Numbers(v) PROVE Total(v) \in Int
<1>1. PICK f \in [SUBSET DOMAIN v -> Int] : Adds(v, f) /\ Total(v) = f[DOMAIN v]
  BY TotalAdds
<1> QED
  BY <1>1

\* The sum of nothing is 0.
LEMMA TotalEmpty == ASSUME NEW v, DOMAIN v = {} PROVE Total(v) = 0
<1>1. Numbers(v)
  BY FS_EmptySet DEF Numbers
<1>2. PICK f \in [SUBSET DOMAIN v -> Int] : Adds(v, f) /\ Total(v) = f[DOMAIN v]
  BY <1>1, TotalAdds
<1> QED
  BY <1>2 DEF Adds, Step

\* Any number may be taken out of a sum.
LEMMA TotalSplits ==
    ASSUME NEW v, Numbers(v), NEW x \in DOMAIN v
    PROVE  Numbers(Without(v, x)) /\ Total(v) = v[x] + Total(Without(v, x))
<1> DEFINE w == Without(v, x)
<1>1. Numbers(w)
  BY FS_RemoveElement DEF Numbers, Without
<1>2. PICK f \in [SUBSET DOMAIN v -> Int] : Adds(v, f) /\ Total(v) = f[DOMAIN v]
  BY TotalAdds
<1>3. PICK g \in [SUBSET DOMAIN w -> Int] : Adds(w, g) /\ Total(w) = g[DOMAIN w]
  BY <1>1, TotalAdds
<1>4. DOMAIN w = DOMAIN v \ {x} /\ \A y \in DOMAIN w : v[y] = w[y]
  BY DEF Without
<1>5. f[DOMAIN w] = g[DOMAIN w]
  <2>1. IsFiniteSet(DOMAIN w) /\ DOMAIN w \subseteq DOMAIN v /\ DOMAIN w \subseteq DOMAIN w
    BY <1>1, <1>4 DEF Numbers
  <2> HIDE DEF w
  <2> QED
    BY <1>2, <1>3, <1>4, <2>1, AddsAgree
<1>6. f[DOMAIN v] = v[x] + f[DOMAIN v \ {x}]
  <2>1. Sums(v, f)
    BY <1>2 DEF Sums
  <2> HIDE DEF w
  <2> QED
    BY <2>1, TakeAny
<1> QED
  BY <1>1, <1>2, <1>3, <1>4, <1>5, <1>6

\* A sum of natural numbers is one, and none of them exceeds it.
LEMMA TotalNatural ==
    ASSUME NEW v, Numbers(v), \A x \in DOMAIN v : v[x] >= 0
    PROVE  Total(v) >= 0 /\ \A x \in DOMAIN v : v[x] <= Total(v)
<1> DEFINE Wrong(n) == \E w : /\ Numbers(w) /\ (\A x \in DOMAIN w : w[x] >= 0)
                              /\ Cardinality(DOMAIN w) = n /\ ~(Total(w) >= 0)
           N == {n \in Nat : Wrong(n)}
<1>1. ASSUME NEW n \in N, \A m \in N : n <= m PROVE FALSE
  <2>1. n \in Nat /\ Wrong(n)
    OBVIOUS
  <2>2. PICK w : /\ Numbers(w) /\ (\A x \in DOMAIN w : w[x] >= 0)
                 /\ Cardinality(DOMAIN w) = n /\ ~(Total(w) >= 0)
    BY <2>1
  <2>3. DOMAIN w # {}
    BY <2>2, TotalEmpty
  <2>4. PICK x \in DOMAIN w : TRUE
    BY <2>3
  <2>5. /\ Numbers(Without(w, x)) /\ Total(w) = w[x] + Total(Without(w, x))
    BY <2>2, TotalSplits
  <2>6. DOMAIN Without(w, x) = DOMAIN w \ {x} /\ \A y \in DOMAIN Without(w, x) : Without(w, x)[y] >= 0
    BY <2>2 DEF Without
  <2>7. Cardinality(DOMAIN w \ {x}) = n - 1 /\ n - 1 \in Nat
    <3>1. IsFiniteSet(DOMAIN w) /\ Cardinality(DOMAIN w) = n
      BY <2>2 DEF Numbers
    <3>2. Cardinality(DOMAIN w \ {x}) = n - 1 /\ IsFiniteSet(DOMAIN w \ {x})
      BY <3>1, FS_RemoveElement
    <3>3. Cardinality(DOMAIN w \ {x}) \in Nat
      BY <3>2, FS_CardinalityType
    <3> QED
      BY <3>2, <3>3
  <2>8. ~(Total(Without(w, x)) >= 0)
    <3>1. w[x] \in Int /\ w[x] >= 0 /\ Total(Without(w, x)) \in Int
      BY <2>2, <2>5, TotalType DEF Numbers
    <3> HIDE DEF N, Wrong
    <3> QED
      BY <2>2, <2>5, <3>1
  <2>9. n - 1 \in N
    BY <2>5, <2>6, <2>7, <2>8
  <2> HIDE DEF N, Wrong
  <2> QED
    BY <1>1, <2>1, <2>9
<1>2. N = {}
  <2> SUFFICES ASSUME N # {} PROVE FALSE
    OBVIOUS
  <2>1. N \in SUBSET Nat
    OBVIOUS
  <2>2. \E n \in N : \A m \in N : n <= m
    BY <2>1, LeastOne
  <2> QED
    BY <1>1, <2>2
<1>3. ASSUME NEW w, Numbers(w), \A x \in DOMAIN w : w[x] >= 0 PROVE Total(w) >= 0
  <2>1. Cardinality(DOMAIN w) \in Nat
    BY <1>3, FS_CardinalityType DEF Numbers
  <2> QED
    BY <1>2, <1>3, <2>1
<1>4. ASSUME NEW x \in DOMAIN v PROVE v[x] <= Total(v)
  <2>1. Numbers(Without(v, x)) /\ Total(v) = v[x] + Total(Without(v, x))
    BY TotalSplits
  <2>2. \A y \in DOMAIN Without(v, x) : Without(v, x)[y] >= 0
    BY DEF Without
  <2>3. Total(Without(v, x)) >= 0 /\ Total(Without(v, x)) \in Int
    BY <1>3, <2>1, <2>2, TotalType
  <2>4. v[x] \in Int
    BY DEF Numbers
  <2> HIDE DEF N, Wrong
  <2> QED
    BY <2>1, <2>3, <2>4
<1> QED
  BY <1>3, <1>4

-----------------------------------------------------------------------------
(* WEIGHTED AVERAGES *)

Shares == 0..100
Products(vs) == [i \in DOMAIN vs |-> i * vs[i]]

\* The weighted values are numbers, and so is their sum.
LEMMA ProductsAreNumbers ==
    ASSUME NEW vs \in Seq(Shares)
    PROVE  Numbers(Products(vs)) /\ Weighted(vs) = Total(Products(vs)) /\ Weighted(vs) \in Int
<1>1. DOMAIN vs = 1..Len(vs) /\ Len(vs) \in Nat
  OBVIOUS
<1>2. IsFiniteSet(DOMAIN vs)
  BY <1>1, FS_Interval
<1>3. \A i \in DOMAIN vs : Products(vs)[i] \in Int
  <2> SUFFICES ASSUME NEW i \in DOMAIN vs PROVE i * vs[i] \in Int
    BY DEF Products
  <2>1. i \in Int /\ vs[i] \in Shares
    BY <1>1
  <2>2. \A a \in Shares : a \in Int
    BY DEF Shares
  <2> QED
    BY <2>1, <2>2
<1>4. Numbers(Products(vs))
  BY <1>2, <1>3 DEF Numbers, Products
<1>5. Weighted(vs) = Total(Products(vs))
  BY DEF Weighted, Total, Products
<1> QED
  BY <1>4, <1>5, TotalType

\* Nothing weighs nothing.
LEMMA WeightedEmpty == Weighted(<<>>) = 0
<1>1. Weighted(<<>>) = Total(Products(<<>>))
  BY DEF Weighted, Total, Products
<1>2. DOMAIN Products(<<>>) = {}
  BY DEF Products
<1> QED
  BY <1>1, <1>2, TotalEmpty

\* A value more, at the end, adds its product.
LEMMA WeightedGrows ==
    ASSUME NEW vs \in Seq(Shares), NEW a \in Shares
    PROVE  Weighted(Append(vs, a)) = Weighted(vs) + (Len(vs) + 1) * a
<1> DEFINE w == Products(Append(vs, a))
           n == Len(vs) + 1
<1>1. Append(vs, a) \in Seq(Shares) /\ Len(Append(vs, a)) = n /\ n \in Nat
  OBVIOUS
<1>2. DOMAIN w = 1..n /\ n \in DOMAIN w
  BY <1>1 DEF Products
<1>3. w[n] = n * a
  BY <1>1, <1>2 DEF Products
<1>4. Without(w, n) = Products(vs)
  <2>1. DOMAIN Without(w, n) = DOMAIN vs /\ DOMAIN Products(vs) = DOMAIN vs
    <3>1. DOMAIN vs = 1..Len(vs) /\ Len(vs) \in Nat
      OBVIOUS
    <3>2. (1..n) \ {n} = 1..Len(vs)
      BY <3>1
    <3>3. DOMAIN Without(w, n) = DOMAIN w \ {n} /\ DOMAIN Products(vs) = DOMAIN vs
      BY DEF Without, Products
    <3> HIDE DEF w, n
    <3> QED
      BY <1>2, <3>1, <3>2, <3>3
  <2>2. ASSUME NEW i \in DOMAIN vs PROVE Without(w, n)[i] = Products(vs)[i]
    BY <1>2, <2>1 DEF Without, Products
  <2> QED
    BY <2>1, <2>2 DEF Without, Products
<1>5. Numbers(w) /\ Weighted(Append(vs, a)) = Total(w)
  BY <1>1, ProductsAreNumbers
<1>6. Total(w) = w[n] + Total(Without(w, n))
  <2> HIDE DEF w, n
  <2> QED
    BY <1>2, <1>5, TotalSplits
<1>7. Total(Products(vs)) = Weighted(vs) /\ Weighted(vs) \in Int /\ n * a \in Int
  <2>1. n \in Int /\ a \in Int
    BY <1>1 DEF Shares
  <2>2. n * a \in Int
    BY <2>1
  <2> HIDE DEF n
  <2> QED
    BY <2>2, ProductsAreNumbers
<1> HIDE DEF w
<1> QED
  BY <1>3, <1>4, <1>5, <1>6, <1>7

\* 1 + ... + (n + 1), as the code's closed form has it.
WeightsGrow(n) == (n * (n + 1)) \div 2 + n + 1 = ((n + 1) * (n + 2)) \div 2

\* The weights of one value more.
LEMMA WeightsGrowing == \A n \in Nat : WeightsGrow(n)
<1> SUFFICES ASSUME NEW n \in Nat PROVE WeightsGrow(n)
  OBVIOUS
<1> DEFINE x == n * (n + 1)
<1>1. x \in Nat
  OBVIOUS
<1>2. (n + 1) * (n + 2) = x + 2 * (n + 1)
  OBVIOUS
<1>3. (x + 2 * (n + 1)) \div 2 = x \div 2 + n + 1
  <2> HIDE DEF x
  <2> QED
    BY <1>1
<1> QED
  BY <1>2, <1>3 DEF WeightsGrow

\* A share of 100 * k.
LEMMA ScaledShare ==
    ASSUME NEW k \in Nat, NEW a \in 0..100
    PROVE  k * a \in Int /\ 0 <= k * a /\ k * a <= 100 * k
<1>1. k * (100 - a) >= 0
  OBVIOUS
<1>2. k * (100 - a) = 100 * k - k * a
  OBVIOUS
<1>3. k * a \in Int /\ k * a >= 0
  OBVIOUS
<1> DEFINE x == k * a
<1> HIDE DEF x
<1> QED
  BY <1>1, <1>2, <1>3 DEF x

\* The empty sequence, and the others by their last value.
LEMMA LastValue ==
    ASSUME NEW vs \in Seq(Shares), vs # <<>>
    PROVE  \E us \in Seq(Shares), a \in Shares :
              vs = Append(us, a) /\ Len(vs) = Len(us) + 1
<1> DEFINE us == SubSeq(vs, 1, Len(vs) - 1)
           a == vs[Len(vs)]
<1>1. Len(vs) \in Nat /\ Len(vs) # 0
  OBVIOUS
<1>2. us \in Seq(Shares) /\ Len(us) = Len(vs) - 1 /\ a \in Shares
  <2>1. a \in Shares
    BY <1>1
  <2>2. \A i \in 1..(Len(vs) - 1) : vs[i] \in Shares
    BY <1>1
  <2>3. us = [i \in 1..(Len(vs) - 1) |-> vs[i]]
    BY <1>1
  <2>4. Len(vs) - 1 \in Nat
    BY <1>1
  <2> HIDE DEF us
  <2> QED
    BY <2>1, <2>2, <2>3, <2>4
<1>3. vs = Append(us, a)
  BY <1>1, <1>2
<1>4. Len(vs) = Len(us) + 1
  BY <1>1, <1>2
<1> QED
  BY <1>2, <1>3, <1>4

\* The average of shares is a share.
Bounded(vs) == 0 <= Weighted(vs) /\ Weighted(vs) <= 100 * Weights(vs)

\* For a sequence of every length.
LEMMA WeightedBounded ==
    ASSUME NEW vs \in Seq(Shares)
    PROVE  Bounded(vs)
<1> DEFINE N == {n \in Nat : \E us \in Seq(Shares) : Len(us) = n /\ ~Bounded(us)}
<1> SUFFICES ASSUME ~Bounded(vs) PROVE FALSE
  OBVIOUS
<1>1. N \in SUBSET Nat /\ N # {}
  <2>1. Len(vs) \in Nat
    OBVIOUS
  <2> QED
    BY <2>1
<1>2. PICK n \in N : \A m \in N : n <= m
  BY <1>1, LeastOne
<1>3. PICK ws \in Seq(Shares) : Len(ws) = n /\ ~Bounded(ws)
  BY <1>2
<1>4. Bounded(<<>>)
  BY WeightedEmpty DEF Bounded, Weights
<1>5. PICK us \in Seq(Shares), a \in Shares : ws = Append(us, a) /\ Len(ws) = Len(us) + 1
  BY <1>3, <1>4, LastValue
<1>6. Bounded(us)
  <2> SUFFICES ASSUME ~Bounded(us) PROVE FALSE
    OBVIOUS
  <2>1. Len(us) \in N
    OBVIOUS
  <2>2. Len(us) \in Nat /\ n = Len(us) + 1
    BY <1>3, <1>5
  <2> HIDE DEF N
  <2> QED
    BY <1>2, <2>1, <2>2
<1>7. Weighted(ws) = Weighted(us) + (Len(us) + 1) * a /\ Weighted(us) \in Int
  BY <1>5, WeightedGrows, ProductsAreNumbers
<1>8. Weights(ws) = Weights(us) + Len(us) + 1 /\ Weights(us) \in Int
  <2>1. Len(us) \in Nat /\ WeightsGrow(Len(us))
    BY WeightsGrowing
  <2> HIDE DEF N
  <2> QED
    BY <1>5, <2>1 DEF WeightsGrow, Weights
<1>9. (Len(us) + 1) * a \in Int /\ 0 <= (Len(us) + 1) * a /\ (Len(us) + 1) * a <= 100 * (Len(us) + 1)
  <2>1. Len(us) + 1 \in Nat
    OBVIOUS
  <2> QED
    BY <2>1, ScaledShare DEF Shares
<1>10. Len(us) \in Nat
  OBVIOUS
<1> DEFINE x == (Len(us) + 1) * a
<1> HIDE DEF N, x
<1>11. Bounded(ws)
  BY <1>6, <1>7, <1>8, <1>9, <1>10 DEF Bounded, x
<1> QED
  BY <1>3, <1>11

\* The sequence with a full share for its first value; that is no worse.
Pushed(vs) == Append(Tail(vs), 100)
Better(vs) == Weighted(vs) <= Weighted(Pushed(vs))

\* A full share pushes the first value out: all that stay weigh less by one, which
\* the new one makes up for.
LEMMA WeightedPushed ==
    ASSUME NEW vs \in Seq(Shares), vs # <<>>
    PROVE  Better(vs)
<1> DEFINE N == {n \in Nat : \E us \in Seq(Shares) : us # <<>> /\ Len(us) = n /\ ~Better(us)}
<1> SUFFICES ASSUME ~Better(vs) PROVE FALSE
  OBVIOUS
<1>1. N \in SUBSET Nat /\ N # {}
  <2>1. Len(vs) \in Nat
    OBVIOUS
  <2> QED
    BY <2>1
<1>2. PICK n \in N : \A m \in N : n <= m
  BY <1>1, LeastOne
<1>3. PICK ws \in Seq(Shares) : ws # <<>> /\ Len(ws) = n /\ ~Better(ws)
  BY <1>2
<1>5. PICK us \in Seq(Shares), a \in Shares : ws = Append(us, a) /\ Len(ws) = Len(us) + 1
  BY <1>3, LastValue
<1>6. Weighted(ws) = Weighted(us) + (Len(us) + 1) * a /\ Weighted(us) \in Int
  BY <1>5, WeightedGrows, ProductsAreNumbers
<1>7. 100 \in Shares /\ Len(us) \in Nat /\ a \in 0..100
  BY DEF Shares
<1>8. CASE us = <<>>
  <2>1. Weighted(ws) = a
    BY <1>6, <1>7, <1>8, WeightedEmpty
  <2>2. Pushed(ws) = Append(<<>>, 100)
    BY <1>5, <1>8 DEF Pushed
  <2>3. Weighted(Pushed(ws)) = 100
    <3>1. <<>> \in Seq(Shares) /\ Len(<<>>) = 0
      OBVIOUS
    <3>2. Weighted(Append(<<>>, 100)) = Weighted(<<>>) + (Len(<<>>) + 1) * 100
      BY <1>7, <3>1, WeightedGrows
    <3> QED
      BY <2>2, <3>1, <3>2, WeightedEmpty
  <2> QED
    BY <1>3, <1>7, <2>1, <2>3 DEF Better
<1>9. CASE us # <<>>
  <2> DEFINE ts == Tail(us)
             k == Len(us)
  <2>1. ts \in Seq(Shares) /\ Len(ts) = k - 1 /\ k \in Nat
    BY <1>9
  <2>2. Pushed(ws) = Append(Append(ts, a), 100)
    <3>1. Tail(Append(us, a)) = Append(Tail(us), a)
      BY <1>9
    <3> QED
      BY <1>5, <3>1 DEF Pushed
  <2>3. /\ Weighted(Append(ts, a)) = Weighted(ts) + (Len(ts) + 1) * a
        /\ Weighted(Append(ts, 100)) = Weighted(ts) + (Len(ts) + 1) * 100
        /\ Weighted(ts) \in Int
    <3> HIDE DEF ts
    <3> QED
      BY <1>7, <2>1, WeightedGrows, ProductsAreNumbers
  <2>4. Weighted(Pushed(ws)) = Weighted(Append(ts, a)) + (k + 1) * 100
    <3>1. Append(ts, a) \in Seq(Shares) /\ Len(Append(ts, a)) = k
      BY <2>1
    <3> HIDE DEF ts, k
    <3> QED
      BY <1>7, <2>2, <3>1, WeightedGrows
  <2>5. Better(us)
    <3> SUFFICES ASSUME ~Better(us) PROVE FALSE
      OBVIOUS
    <3>1. Len(us) \in N
      BY <1>9
    <3>2. Len(us) \in Nat /\ n = Len(us) + 1
      BY <1>3, <1>5
    <3> HIDE DEF N
    <3> QED
      BY <1>2, <3>1, <3>2
  <2>6. Weighted(us) <= Weighted(ts) + k * 100
    <3> HIDE DEF ts, k
    <3>1. Len(ts) + 1 = k
      BY <2>1
    <3>2. Weighted(us) <= Weighted(Append(ts, 100))
      BY <2>5 DEF Better, Pushed, ts
    <3> QED
      BY <2>3, <3>1, <3>2
  <2>7. Weighted(Pushed(ws)) = Weighted(ts) + k * a + 100 * k + 100
    <3> HIDE DEF ts, k
    <3>1. Len(ts) + 1 = k
      BY <2>1
    <3>2. k * a \in Int
      BY <1>7, <2>1
    <3> QED
      BY <2>1, <2>3, <2>4, <3>1, <3>2
  <2>8. Weighted(ws) = Weighted(us) + k * a + a /\ k * a \in Int
    <3>1. (k + 1) * a = k * a + a /\ k * a \in Int
      BY <1>7, <2>1
    <3> HIDE DEF ts, k
    <3> QED
      BY <1>6, <1>7, <3>1 DEF k
  <2> DEFINE x == k * a
  <2> HIDE DEF ts, k, x, N
  <2>9. Weighted(ws) <= Weighted(Pushed(ws))
    BY <1>6, <1>7, <2>1, <2>3, <2>6, <2>7, <2>8 DEF x
  <2> QED
    BY <1>3, <2>9 DEF Better
<1> QED
  BY <1>8, <1>9

-----------------------------------------------------------------------------
(* THE INDEX *)

\* The two averages of the answers r, what the schedule s adds, and the quotient of all.
Successes(r) == [i \in DOMAIN r |-> Percent(r[i].correct)]
Alone(r) == [i \in DOMAIN r |-> Independence(r[i])]
Base(s) == 20 * Spacing[s.interval] + 10 * LapseAdjustment(s)
Raw(r, s) == 45 * Weighted(Successes(r)) + 25 * Weighted(Alone(r)) + Weights(r) * Base(s)
Rounded(raw, weights) == (2 * raw + 100 * weights) \div (200 * weights)

\* The index in these terms.
LEMMA IndexOfRecent ==
    ASSUME NEW es, NEW s
    PROVE  RetentionIndex(es, s) = IF Len(Recent(es)) < MinEvents THEN NoIndex
                                   ELSE Rounded(Raw(Recent(es), s), Weights(Recent(es)))
BY DEF RetentionIndex, Rounded, Raw, Base, Successes, Alone

\* What Clamp returns.
LEMMA Clamped == ASSUME NEW x \in Int PROVE Clamp(x) \in Shares /\ Clamp(x) \in Int
BY DEF Clamp, Least, Shares

\* The part of the index that the schedule decides is a number.
LEMMA BaseIsNumber == ASSUME NEW s \in Schedules PROVE Base(s) \in Int
<1>1. Spacing[s.interval] \in Int
  <2>1. s.interval \in DOMAIN Spacing
    BY DEF Schedules
  <2>2. Spacing[s.interval] \in 0..100
    BY <2>1, SpacingAssumption
  <2> QED
    BY <2>2
<1>2. LapseAdjustment(s) \in Int
  <2>1. s.lapses \in Int /\ s.due \in Int
    BY DEF Schedules
  <2>2. OverdueDays(s) \in Int
    BY <2>1, TodayAssumption DEF OverdueDays
  <2>3. Least(45, Clamp(9 * s.lapses)) \in Int /\ Least(28, 4 * OverdueDays(s)) \in Int
    BY <2>1, <2>2, Clamped DEF Least
  <2>4. (IF s.repeated THEN 22 ELSE 0) \in Int
    OBVIOUS
  <2> QED
    BY <2>3, <2>4, Clamped DEF LapseAdjustment
<1> QED
  BY <1>1, <1>2 DEF Base

\* An answer counts as two shares.
LEMMA AnswerShares ==
    ASSUME NEW e \in Events
    PROVE  Percent(e.correct) \in Shares /\ Independence(e) \in Shares
<1>1. e.hints \in Nat /\ e.retries \in Nat
  BY EventsAssumption
<1>2. (IF e.again THEN 15 ELSE 0) \in Int
  OBVIOUS
<1>3. 100 - 18 * e.hints - 12 * e.retries - (IF e.again THEN 15 ELSE 0) \in Int
  BY <1>1, <1>2
<1> QED
  BY <1>3, Clamped DEF Percent, Independence, Shares

\* And so do many, one by one.
LEMMA SharesOfAnswers ==
    ASSUME NEW r \in Seq(Events)
    PROVE  /\ Successes(r) \in Seq(Shares) /\ Len(Successes(r)) = Len(r)
           /\ Alone(r) \in Seq(Shares) /\ Len(Alone(r)) = Len(r)
<1>1. DOMAIN r = 1..Len(r) /\ Len(r) \in Nat /\ \A i \in 1..Len(r) : r[i] \in Events
  OBVIOUS
<1>2. \A i \in 1..Len(r) : Percent(r[i].correct) \in Shares /\ Independence(r[i]) \in Shares
  BY <1>1, AnswerShares
<1> QED
  BY <1>1, <1>2 DEF Successes, Alone

\* Correct, without help.
Perfect(e) == e.correct /\ e.hints + e.retries = 0 /\ ~e.again

\* A perfect answer counts fully.
LEMMA PerfectShares ==
    ASSUME NEW e \in Events, Perfect(e)
    PROVE  Percent(e.correct) = 100 /\ Independence(e) = 100
<1>1. e.hints = 0 /\ e.retries = 0
  BY EventsAssumption DEF Perfect
<1> QED
  BY <1>1 DEF Perfect, Percent, Independence, Clamp, Least

\* It is appended as two full shares.
LEMMA SharesAppended ==
    ASSUME NEW r \in Seq(Events), NEW e \in Events, Perfect(e)
    PROVE  /\ Successes(Append(r, e)) = Append(Successes(r), 100)
           /\ Alone(Append(r, e)) = Append(Alone(r), 100)
<1>1. Percent(e.correct) = 100 /\ Independence(e) = 100
  BY PerfectShares
<1>2. /\ Append(r, e) \in Seq(Events) /\ Len(Append(r, e)) = Len(r) + 1 /\ Len(r) \in Nat
      /\ DOMAIN Append(r, e) = 1..(Len(r) + 1)
      /\ \A i \in 1..Len(r) : Append(r, e)[i] = r[i]
      /\ Append(r, e)[Len(r) + 1] = e
  OBVIOUS
<1>3. /\ Successes(r) \in Seq(Shares) /\ Len(Successes(r)) = Len(r)
      /\ Alone(r) \in Seq(Shares) /\ Len(Alone(r)) = Len(r)
      /\ Successes(Append(r, e)) \in Seq(Shares) /\ Len(Successes(Append(r, e))) = Len(r) + 1
      /\ Alone(Append(r, e)) \in Seq(Shares) /\ Len(Alone(Append(r, e))) = Len(r) + 1
  BY <1>2, SharesOfAnswers
<1>4. 100 \in Shares
  BY DEF Shares
<1>5. \A i \in 1..(Len(r) + 1) :
        /\ Successes(Append(r, e))[i] = IF i = Len(r) + 1 THEN 100 ELSE Successes(r)[i]
        /\ Alone(Append(r, e))[i] = IF i = Len(r) + 1 THEN 100 ELSE Alone(r)[i]
  BY <1>1, <1>2 DEF Successes, Alone
<1> QED
  BY <1>2, <1>3, <1>4, <1>5

\* Without the first answer, the shares are without their first.
LEMMA SharesOfTail ==
    ASSUME NEW r \in Seq(Events), r # <<>>
    PROVE  /\ Successes(Tail(r)) = Tail(Successes(r))
           /\ Alone(Tail(r)) = Tail(Alone(r))
<1>1. /\ Tail(r) \in Seq(Events) /\ Len(Tail(r)) = Len(r) - 1 /\ Len(r) \in Nat /\ Len(r) # 0
      /\ \A i \in 1..(Len(r) - 1) : Tail(r)[i] = r[i + 1]
      /\ DOMAIN r = 1..Len(r) /\ DOMAIN Tail(r) = 1..(Len(r) - 1)
  OBVIOUS
<1>2. /\ Successes(r) \in Seq(Shares) /\ Len(Successes(r)) = Len(r)
      /\ Alone(r) \in Seq(Shares) /\ Len(Alone(r)) = Len(r)
      /\ Successes(Tail(r)) \in Seq(Shares) /\ Len(Successes(Tail(r))) = Len(r) - 1
      /\ Alone(Tail(r)) \in Seq(Shares) /\ Len(Alone(Tail(r))) = Len(r) - 1
  BY <1>1, SharesOfAnswers
<1>3. \A i \in 1..(Len(r) - 1) : i \in 1..Len(r) /\ i + 1 \in 1..Len(r)
  BY <1>1
<1>4. \A i \in 1..(Len(r) - 1) :
        /\ Successes(Tail(r))[i] = Successes(r)[i + 1]
        /\ Alone(Tail(r))[i] = Alone(r)[i + 1]
  BY <1>1, <1>3 DEF Successes, Alone
<1>5. ASSUME NEW v \in Seq(Shares), NEW w \in Seq(Shares), Len(v) = Len(r), Len(w) = Len(r) - 1,
             \A i \in 1..(Len(r) - 1) : w[i] = v[i + 1]
      PROVE  w = Tail(v)
  BY <1>1, <1>5
<1> QED
  BY <1>2, <1>4, <1>5

\* An index is what the weights' average rounds to: not above it by more than a half,
\* and as high as that allows.
LEMMA RoundedDown ==
    ASSUME NEW raw \in Int, NEW weights \in Nat, weights # 0, NEW m \in Int
    PROVE  /\ Rounded(raw, weights) \in Int
           /\ m <= Rounded(raw, weights) <=> 200 * (weights * m) <= 2 * raw + 100 * weights
<1> DEFINE a == 2 * raw + 100 * weights
           b == 200 * weights
           q == a \div b
<1>1. a \in Int /\ b \in Int /\ b > 0
  OBVIOUS
<1>2. q \in Int /\ b * q <= a /\ a < b * q + b
  <2> HIDE DEF a, b
  <2> QED
    BY <1>1
<1>3. m <= q <=> b * m <= a
  <2> HIDE DEF a, b, q
  <2>1. CASE m <= q
    <3>1. b * m <= b * q
      BY <1>1, <1>2, <2>1
    <3>2. b * m \in Int /\ b * q \in Int
      BY <1>1, <1>2
    <3> QED
      BY <1>1, <1>2, <2>1, <3>1, <3>2
  <2>2. CASE m > q
    <3>1. b * m >= b * (q + 1)
      BY <1>1, <1>2, <2>2
    <3>2. b * (q + 1) = b * q + b
      BY <1>1, <1>2
    <3>3. b * m \in Int /\ b * q \in Int
      BY <1>1, <1>2
    <3> QED
      BY <1>1, <1>2, <2>2, <3>1, <3>2, <3>3
  <2> QED
    BY <1>2, <2>1, <2>2
<1>4. b * m = 200 * (weights * m)
  OBVIOUS
<1>5. Rounded(raw, weights) = q
  BY DEF Rounded
<1> HIDE DEF q, b, a
<1> QED
  BY <1>2, <1>3, <1>4, <1>5 DEF a

\* A window that grows by a perfect answer: its weight n pulls the average up.
LEMMA RoundedGrows ==
    ASSUME NEW raw \in Int, NEW weights \in Nat, weights # 0, NEW n \in Nat, NEW best \in Int,
           raw <= weights * best
    PROVE  Rounded(raw, weights) <= Rounded(raw + n * best, weights + n)
<1> DEFINE m == Rounded(raw, weights)
<1>1. m \in Int /\ 200 * (weights * m) <= 2 * raw + 100 * weights
  BY RoundedDown
<1> HIDE DEF m
<1>2. 200 * m <= 2 * best + 100
  <2> SUFFICES ASSUME 200 * m >= 2 * best + 101 PROVE FALSE
    BY <1>1
  <2>1. weights * (200 * m) >= weights * (2 * best + 101)
    BY <1>1
  <2>2. weights * (200 * m) = 200 * (weights * m)
    BY <1>1
  <2>3. weights * (2 * best + 101) = 2 * (weights * best) + 101 * weights
    OBVIOUS
  <2>4. weights * best \in Int /\ weights * m \in Int
    BY <1>1
  <2> DEFINE x == weights * best
             y == weights * m
  <2>5. 200 * y >= 2 * x + 101 * weights /\ 200 * y <= 2 * raw + 100 * weights /\ raw <= x
    BY <1>1, <2>1, <2>2, <2>3
  <2> HIDE DEF x, y
  <2> QED
    BY <2>4, <2>5 DEF x, y
<1>3. n * (200 * m) <= n * (2 * best + 100)
  BY <1>1, <1>2
<1>4. /\ n * (200 * m) = 200 * (n * m)
      /\ n * (2 * best + 100) = 2 * (n * best) + 100 * n
      /\ (weights + n) * m = weights * m + n * m
  BY <1>1
<1>5. weights * m \in Int /\ n * m \in Int /\ n * best \in Int
  BY <1>1
<1> DEFINE x == n * best
           y == weights * m
           z == n * m
<1>6. 200 * (y + z) <= 2 * (raw + x) + 100 * (weights + n)
  <2>1. 200 * y <= 2 * raw + 100 * weights /\ 200 * z <= 2 * x + 100 * n
    BY <1>1, <1>3, <1>4
  <2> HIDE DEF x, y, z
  <2> QED
    BY <1>5, <2>1 DEF x, y, z
<1>7. 200 * ((weights + n) * m) <= 2 * (raw + n * best) + 100 * (weights + n)
  BY <1>4, <1>6
<1>8. raw + n * best \in Int /\ weights + n \in Nat /\ weights + n # 0
  BY <1>5
<1>9. m <= Rounded(raw + n * best, weights + n)
  BY <1>1, <1>7, <1>8, RoundedDown
<1> QED
  BY <1>9 DEF m

\* A full window keeps its weights.
LEMMA RoundedRises ==
    ASSUME NEW raw \in Int, NEW higher \in Int, raw <= higher,
           NEW weights \in Nat, weights # 0
    PROVE  Rounded(raw, weights) <= Rounded(higher, weights)
<1> DEFINE m == Rounded(raw, weights)
<1>1. m \in Int /\ 200 * (weights * m) <= 2 * raw + 100 * weights
  BY RoundedDown
<1>2. weights * m \in Int
  BY <1>1
<1>3. 200 * (weights * m) <= 2 * higher + 100 * weights
  <2> DEFINE y == weights * m
  <2> HIDE DEF y, m
  <2> QED
    BY <1>1, <1>2 DEF y
<1> HIDE DEF m
<1>4. m <= Rounded(higher, weights)
  BY <1>1, <1>3, RoundedDown
<1> QED
  BY <1>4 DEF m

\* The sum is at most what perfect answers would make it.
LEMMA RawBounded ==
    ASSUME NEW r \in Seq(Events), NEW s \in Schedules
    PROVE  /\ Raw(r, s) \in Int /\ Weights(r) \in Nat
           /\ r # <<>> => Weights(r) # 0
           /\ Raw(r, s) <= Weights(r) * (7000 + Base(s))
<1> DEFINE a == Weighted(Successes(r))
           b == Weighted(Alone(r))
           w == Weights(r)
           k == Base(s)
<1>1. Len(r) \in Nat /\ (r # <<>> => Len(r) >= 1)
  OBVIOUS
<1>2. w \in Nat /\ (r # <<>> => w # 0)
  <2>1. Len(r) * (Len(r) + 1) \in Nat
    BY <1>1
  <2>2. Len(r) >= 1 => Len(r) * (Len(r) + 1) >= 2
    <3>1. Len(r) >= 1 => Len(r) * (Len(r) + 1) >= 1 * 2
      BY <1>1
    <3> QED
      BY <3>1
  <2> QED
    BY <1>1, <2>1, <2>2 DEF Weights
<1>3. a \in Int /\ a <= 100 * w /\ b \in Int /\ b <= 100 * w
  <2>1. Weights(Successes(r)) = w /\ Weights(Alone(r)) = w
    BY SharesOfAnswers DEF Weights
  <2>2. /\ Successes(r) \in Seq(Shares) /\ Alone(r) \in Seq(Shares)
    BY SharesOfAnswers
  <2>3. a \in Int /\ b \in Int /\ Bounded(Successes(r)) /\ Bounded(Alone(r))
    BY <2>2, WeightedBounded, ProductsAreNumbers
  <2> QED
    BY <2>1, <2>3 DEF Bounded
<1>4. k \in Int
  BY BaseIsNumber
<1>5. w * k \in Int /\ w * (7000 + k) = 7000 * w + w * k
  BY <1>2, <1>4
<1>6. Raw(r, s) = 45 * a + 25 * b + w * k
  BY DEF Raw
<1> DEFINE x == w * k
<1>7. Raw(r, s) = 45 * a + 25 * b + x /\ x \in Int /\ w * (7000 + k) = 7000 * w + x
  BY <1>5, <1>6
<1> HIDE DEF a, b, w, k, x
<1>8. w \in Nat /\ (r # <<>> => w # 0) /\ Raw(r, s) \in Int /\ Raw(r, s) <= w * (7000 + k)
  BY <1>2, <1>3, <1>7
<1> QED
  BY <1>8 DEF w, k

\* A window that is not full takes the answer in and gains.
LEMMA WindowGrows ==
    ASSUME NEW r \in Seq(Events), r # <<>>, NEW e \in Events, Perfect(e), NEW s \in Schedules
    PROVE  Rounded(Raw(r, s), Weights(r))
             <= Rounded(Raw(Append(r, e), s), Weights(Append(r, e)))
<1> DEFINE n == Len(r) + 1
           a == Weighted(Successes(r))
           b == Weighted(Alone(r))
           w == Weights(r)
           k == Base(s)
<1>1. Len(r) \in Nat /\ n \in Nat /\ 100 \in Shares
  BY DEF Shares
<1>2. /\ Weighted(Successes(Append(r, e))) = a + n * 100
      /\ Weighted(Alone(Append(r, e))) = b + n * 100
      /\ a \in Int /\ b \in Int
  <2>1. /\ Successes(r) \in Seq(Shares) /\ Len(Successes(r)) = Len(r)
        /\ Alone(r) \in Seq(Shares) /\ Len(Alone(r)) = Len(r)
    BY SharesOfAnswers
  <2>2. /\ Weighted(Append(Successes(r), 100)) = a + (Len(Successes(r)) + 1) * 100
        /\ Weighted(Append(Alone(r), 100)) = b + (Len(Alone(r)) + 1) * 100
        /\ a \in Int /\ b \in Int
    BY <1>1, <2>1, WeightedGrows, ProductsAreNumbers
  <2> QED
    BY <2>1, <2>2, SharesAppended
<1>3. Weights(Append(r, e)) = w + n
  <2>1. Len(Append(r, e)) = n
    OBVIOUS
  <2>2. WeightsGrow(Len(r))
    BY <1>1, WeightsGrowing
  <2>3. w \in Nat
    BY RawBounded
  <2> QED
    BY <1>1, <2>1, <2>2, <2>3 DEF Weights, WeightsGrow
<1>4. k \in Int /\ w \in Nat /\ w # 0 /\ Raw(r, s) \in Int /\ Raw(r, s) <= w * (7000 + k)
  BY RawBounded, BaseIsNumber
<1>5. Raw(Append(r, e), s) = Raw(r, s) + n * (7000 + k)
  <2>1. Raw(Append(r, e), s) = 45 * (a + n * 100) + 25 * (b + n * 100) + (w + n) * k
    BY <1>2, <1>3 DEF Raw
  <2>2. Raw(r, s) = 45 * a + 25 * b + w * k
    BY DEF Raw
  <2>3. /\ (w + n) * k = w * k + n * k /\ n * (7000 + k) = 7000 * n + n * k
        /\ w * k \in Int /\ n * k \in Int
    <3> HIDE DEF a, b, w, k, n
    <3> QED
      BY <1>1, <1>4
  <2> DEFINE x == w * k
             y == n * k
  <2>4. /\ Raw(Append(r, e), s) = 45 * (a + n * 100) + 25 * (b + n * 100) + (x + y)
        /\ Raw(r, s) = 45 * a + 25 * b + x
        /\ n * (7000 + k) = 7000 * n + y
        /\ x \in Int /\ y \in Int
    BY <2>1, <2>2, <2>3
  <2> HIDE DEF a, b, w, k, n, x, y
  <2> QED
    BY <1>1, <1>2, <2>4
<1>6. 7000 + k \in Int
  BY <1>4
<1> DEFINE best == 7000 + k
<1>7. Rounded(Raw(r, s), w) <= Rounded(Raw(r, s) + n * best, w + n)
  <2>1. best \in Int /\ Raw(r, s) <= w * best
    BY <1>4, <1>6
  <2> DEFINE raw == Raw(r, s)
  <2>2. raw \in Int /\ w \in Nat /\ w # 0 /\ n \in Nat /\ best \in Int /\ raw <= w * best
    BY <1>1, <1>4, <2>1
  <2> HIDE DEF a, b, w, k, n, best, raw
  <2>3. Rounded(raw, w) <= Rounded(raw + n * best, w + n)
    BY <2>2, RoundedGrows
  <2> QED
    BY <2>3 DEF raw
<1> QED
  BY <1>3, <1>5, <1>7

\* A full window loses its first answer for it and gains no less.
LEMMA WindowSlides ==
    ASSUME NEW r \in Seq(Events), r # <<>>, NEW e \in Events, Perfect(e), NEW s \in Schedules
    PROVE  Rounded(Raw(r, s), Weights(r))
             <= Rounded(Raw(Append(Tail(r), e), s), Weights(Append(Tail(r), e)))
<1> DEFINE t == Append(Tail(r), e)
<1>1. Tail(r) \in Seq(Events) /\ t \in Seq(Events) /\ Len(t) = Len(r) /\ t # <<>>
  OBVIOUS
<1>2. Weights(t) = Weights(r)
  BY <1>1 DEF Weights
<1>3. /\ Successes(t) = Pushed(Successes(r))
      /\ Alone(t) = Pushed(Alone(r))
  BY <1>1, SharesAppended, SharesOfTail DEF Pushed
<1>4. /\ Successes(r) \in Seq(Shares) /\ Successes(r) # <<>>
      /\ Alone(r) \in Seq(Shares) /\ Alone(r) # <<>>
  <2>1. /\ Successes(r) \in Seq(Shares) /\ Len(Successes(r)) = Len(r)
        /\ Alone(r) \in Seq(Shares) /\ Len(Alone(r)) = Len(r)
    BY SharesOfAnswers
  <2>2. Len(r) # 0 /\ Len(<<>>) = 0
    OBVIOUS
  <2> QED
    BY <2>1, <2>2
<1>5. Better(Successes(r)) /\ Better(Alone(r))
  BY <1>4, WeightedPushed
<1>6. /\ Weighted(Successes(t)) \in Int /\ Weighted(Alone(t)) \in Int
      /\ Weighted(Successes(r)) \in Int /\ Weighted(Alone(r)) \in Int
  BY <1>1, SharesOfAnswers, ProductsAreNumbers
<1>7. Base(s) \in Int /\ Weights(r) \in Nat /\ Weights(r) # 0
  <2> HIDE DEF t
  <2> QED
    BY RawBounded, BaseIsNumber
<1>8. Raw(r, s) \in Int /\ Raw(t, s) \in Int
  <2> HIDE DEF t
  <2> QED
    BY <1>1, RawBounded
<1>9. Raw(r, s) <= Raw(t, s)
  <2> DEFINE x == Weights(r) * Base(s)
  <2>1. x \in Int
    BY <1>7
  <2>2. /\ Raw(t, s) = 45 * Weighted(Successes(t)) + 25 * Weighted(Alone(t)) + x
        /\ Raw(r, s) = 45 * Weighted(Successes(r)) + 25 * Weighted(Alone(r)) + x
    BY <1>2 DEF Raw
  <2>3. /\ Weighted(Successes(r)) <= Weighted(Successes(t))
        /\ Weighted(Alone(r)) <= Weighted(Alone(t))
    BY <1>3, <1>5 DEF Better
  <2> HIDE DEF x, t
  <2> QED
    BY <1>6, <2>1, <2>2, <2>3
<1> HIDE DEF t
<1>10. Rounded(Raw(r, s), Weights(r)) <= Rounded(Raw(t, s), Weights(r))
  BY <1>7, <1>8, <1>9, RoundedRises
<1> QED
  BY <1>2, <1>10 DEF t

\* The latest answers, with one more.
LEMMA RecentAnswers ==
    ASSUME NEW es \in Seq(Events), NEW e \in Events
    PROVE  /\ Recent(es) \in Seq(Events) /\ Len(Recent(es)) = Least(Len(es), MaxWindow)
           /\ Recent(Append(es, e)) =
                IF Len(es) < MaxWindow THEN Append(Recent(es), e) ELSE Append(Tail(Recent(es)), e)
<1> DEFINE n == Len(es)
           r == Recent(es)
           t == Append(es, e)
           rt == Recent(t)
<1>1. n \in Nat /\ t \in Seq(Events) /\ Len(t) = n + 1 /\ MaxWindow \in Nat /\ MaxWindow >= 3
  BY WindowAssumption DEF MinEvents
<1>2. /\ \A i \in 1..n : es[i] \in Events /\ t[i] = es[i]
      /\ t[n + 1] = e
  BY <1>1
<1>3. ASSUME NEW m \in 1..(n + 1)
      PROVE  /\ SubSeq(es, m, n) \in Seq(Events) /\ Len(SubSeq(es, m, n)) = n - m + 1
             /\ \A i \in 1..(n - m + 1) : SubSeq(es, m, n)[i] = es[m + i - 1]
             /\ SubSeq(t, m, n + 1) \in Seq(Events) /\ Len(SubSeq(t, m, n + 1)) = n + 1 - m + 1
             /\ \A i \in 1..(n + 1 - m + 1) : SubSeq(t, m, n + 1)[i] = t[m + i - 1]
  <2>1. \A i \in m..n : es[i] \in Events
    BY <1>1, <1>2
  <2>2. \A i \in m..(n + 1) : t[i] \in Events
    BY <1>1
  <2>3. m \in Int /\ n \in Int /\ n + 1 \in Int
    BY <1>1
  <2> HIDE DEF n, t
  <2>4. /\ SubSeq(es, m, n) \in Seq(Events)
        /\ Len(SubSeq(es, m, n)) = IF m <= n THEN n - m + 1 ELSE 0
        /\ \A i \in 1..(n - m + 1) : SubSeq(es, m, n)[i] = es[m + i - 1]
    BY <2>1, <2>3, SubSeqProperties
  <2>5. /\ SubSeq(t, m, n + 1) \in Seq(Events)
        /\ Len(SubSeq(t, m, n + 1)) = IF m <= n + 1 THEN n + 1 - m + 1 ELSE 0
        /\ \A i \in 1..(n + 1 - m + 1) : SubSeq(t, m, n + 1)[i] = t[m + i - 1]
    BY <2>2, <2>3, SubSeqProperties
  <2> QED
    BY <2>3, <2>4, <2>5
<1>4. r = SubSeq(es, n - Least(n, MaxWindow) + 1, n)
  BY DEF Recent
<1>5. rt = SubSeq(t, (n + 1) - Least(n + 1, MaxWindow) + 1, n + 1)
  <2> DEFINE last(k) == SubSeq(t, k - Least(k, MaxWindow) + 1, k)
  <2>1. rt = last(Len(t))
    BY DEF Recent
  <2>2. Len(t) = n + 1
    BY <1>1
  <2>3. last(Len(t)) = last(n + 1)
    <3> HIDE DEF last, t, n
    <3> QED
      BY <2>2
  <2> HIDE DEF rt, t, n
  <2> QED
    BY <2>1, <2>3
<1>6. n - Least(n, MaxWindow) + 1 \in 1..(n + 1) /\ Least(n, MaxWindow) \in Nat
  <2> HIDE DEF n
  <2> QED
    BY <1>1 DEF Least
<1>7. r \in Seq(Events) /\ Len(r) = Least(n, MaxWindow)
  <2> DEFINE m == n - Least(n, MaxWindow) + 1
  <2>1. m \in 1..(n + 1)
    BY <1>6
  <2>2. SubSeq(es, m, n) \in Seq(Events) /\ Len(SubSeq(es, m, n)) = n - m + 1
    <3> HIDE DEF m, n, t
    <3> QED
      BY <1>3, <2>1
  <2>3. n - m + 1 = Least(n, MaxWindow)
    BY <1>1, <1>6
  <2> QED
    BY <1>4, <2>2, <2>3
<1>8. CASE n < MaxWindow
  <2>1. Least(n, MaxWindow) = n /\ Least(n + 1, MaxWindow) = n + 1
    <3> HIDE DEF n
    <3> QED
      BY <1>1, <1>8 DEF Least
  <2>2. r = SubSeq(es, 1, n) /\ rt = SubSeq(t, 1, n + 1)
    <3>1. n - n + 1 = 1 /\ n + 1 - (n + 1) + 1 = 1
      BY <1>1
    <3> QED
      BY <1>4, <1>5, <2>1, <3>1
  <2>3. r = es /\ rt = t
    <3> HIDE DEF n, r, rt, t
    <3> QED
      BY <1>1, <2>2, SubSeqFull DEF n
  <2> QED
    BY <1>7, <1>8, <2>3
<1>9. CASE ~(n < MaxWindow)
  <2> DEFINE p == n - MaxWindow + 1
  <2>1. Least(n, MaxWindow) = MaxWindow /\ Least(n + 1, MaxWindow) = MaxWindow
    <3> HIDE DEF n
    <3> QED
      BY <1>1, <1>9 DEF Least
  <2>2. p \in 1..(n + 1) /\ p + 1 \in 1..(n + 1)
    <3> HIDE DEF n
    <3> QED
      BY <1>1, <1>9
  <2>3. r = SubSeq(es, p, n) /\ rt = SubSeq(t, p + 1, n + 1)
    <3>1. (n + 1) - MaxWindow + 1 = p + 1
      BY <1>1
    <3>2. rt = SubSeq(t, (n + 1) - MaxWindow + 1, n + 1)
      <4> HIDE DEF rt, t, n
      <4> QED
        BY <1>5, <2>1
    <3> DEFINE last(k) == SubSeq(t, k, n + 1)
    <3>3. last((n + 1) - MaxWindow + 1) = last(p + 1)
      <4> HIDE DEF last, n, p, t
      <4> QED
        BY <3>1
    <3>4. rt = SubSeq(t, p + 1, n + 1)
      <4> HIDE DEF n, p, t, rt
      <4> QED
        BY <3>2, <3>3
    <3>5. r = SubSeq(es, p, n)
      <4> HIDE DEF r, n
      <4> QED
        BY <1>4, <2>1
    <3> QED
      BY <3>4, <3>5
  <2>4. /\ Len(r) = MaxWindow /\ \A i \in 1..MaxWindow : r[i] = es[p + i - 1]
        /\ rt \in Seq(Events) /\ Len(rt) = MaxWindow
        /\ \A i \in 1..MaxWindow : rt[i] = t[p + i]
    <3>1. n - p + 1 = MaxWindow /\ n + 1 - (p + 1) + 1 = MaxWindow
      BY <1>1
    <3>2. \A i \in 1..MaxWindow : p + 1 + i - 1 = p + i
      BY <1>1
    <3> DEFINE q == p + 1
    <3>3. /\ Len(SubSeq(es, p, n)) = n - p + 1
          /\ \A i \in 1..(n - p + 1) : SubSeq(es, p, n)[i] = es[p + i - 1]
      <4> HIDE DEF n, t, p
      <4> QED
        BY <1>3, <2>2
    <3>4. /\ SubSeq(t, q, n + 1) \in Seq(Events)
          /\ Len(SubSeq(t, q, n + 1)) = n + 1 - q + 1
          /\ \A i \in 1..(n + 1 - q + 1) : SubSeq(t, q, n + 1)[i] = t[q + i - 1]
      <4>1. q \in 1..(n + 1)
        BY <2>2
      <4> HIDE DEF n, t, q, p
      <4> QED
        BY <1>3, <4>1
    <3>5. rt = SubSeq(t, q, n + 1) /\ n + 1 - q + 1 = MaxWindow /\ \A i \in 1..MaxWindow : q + i - 1 = p + i
      BY <2>3, <3>1, <3>2
    <3> HIDE DEF n, r, rt, t, p, q
    <3> QED
      BY <2>3, <3>1, <3>3, <3>4, <3>5
  <2>5. Append(Tail(r), e) \in Seq(Events) /\ Len(Append(Tail(r), e)) = MaxWindow
        /\ \A i \in 1..MaxWindow :
              Append(Tail(r), e)[i] = IF i = MaxWindow THEN e ELSE r[i + 1]
    <3> HIDE DEF n, r
    <3>1. r # <<>> /\ Tail(r) \in Seq(Events) /\ Len(Tail(r)) = MaxWindow - 1
          /\ \A i \in 1..(MaxWindow - 1) : Tail(r)[i] = r[i + 1]
      BY <1>1, <1>7, <2>4
    <3> HIDE DEF r
    <3> QED
      BY <1>1, <3>1
  <2>6. \A i \in 1..MaxWindow : rt[i] = Append(Tail(r), e)[i]
    <3> SUFFICES ASSUME NEW i \in 1..MaxWindow PROVE rt[i] = Append(Tail(r), e)[i]
      OBVIOUS
    <3>1. CASE i = MaxWindow
      <4>1. p + i = n + 1
        BY <1>1, <3>1
      <4> HIDE DEF n, r, rt, t, p
      <4> QED
        BY <1>2, <2>4, <2>5, <3>1, <4>1
    <3>2. CASE i # MaxWindow
      <4>1. i + 1 \in 1..MaxWindow /\ p + (i + 1) - 1 = p + i /\ p + i \in 1..n
        BY <1>1, <2>2, <3>2
      <4> HIDE DEF n, r, rt, t, p
      <4> QED
        BY <1>2, <2>4, <2>5, <3>2, <4>1
    <3> QED
      BY <3>1, <3>2
  <2>7. rt = Append(Tail(r), e)
    <3> HIDE DEF n, r, rt, t, p
    <3> QED
      BY <2>4, <2>5, <2>6, SeqEqual
  <2> QED
    BY <1>7, <1>9, <2>7
<1> QED
  BY <1>8, <1>9

\* A perfect answer later than all the others never lowers the index.
LEMMA IndexHelped ==
    ASSUME NEW es \in Seq(Events), NEW e \in Events, Perfect(e), NEW s \in Schedules,
           RetentionIndex(es, s) # NoIndex
    PROVE  RetentionIndex(Append(es, e), s) >= RetentionIndex(es, s)
<1> DEFINE r == Recent(es)
           t == Recent(Append(es, e))
<1>1. r \in Seq(Events) /\ Len(r) >= MinEvents /\ RetentionIndex(es, s) = Rounded(Raw(r, s), Weights(r))
  <2>1. r \in Seq(Events) /\ Len(r) \in Nat
    BY RecentAnswers
  <2>2. ~(Len(r) < MinEvents)
    BY IndexOfRecent
  <2> QED
    BY <2>1, <2>2, IndexOfRecent DEF MinEvents
<1>2. r # <<>> /\ Len(r) \in Nat /\ MinEvents = 3
  BY <1>1 DEF MinEvents
<1>3. t = Append(r, e) \/ t = Append(Tail(r), e)
  BY RecentAnswers
<1>4. t \in Seq(Events) /\ Len(t) >= Len(r) /\ Len(t) \in Nat
  <2> HIDE DEF r, t
  <2> QED
    BY <1>1, <1>2, <1>3
<1>5. RetentionIndex(Append(es, e), s) = Rounded(Raw(t, s), Weights(t))
  <2>1. ~(Len(t) < MinEvents)
    BY <1>1, <1>2, <1>4
  <2> QED
    BY <2>1, IndexOfRecent
<1>6. Rounded(Raw(r, s), Weights(r)) <= Rounded(Raw(t, s), Weights(t))
  <2> HIDE DEF r, t
  <2> QED
    BY <1>1, <1>2, <1>3, WindowGrows, WindowSlides
<1> QED
  BY <1>1, <1>5, <1>6

-----------------------------------------------------------------------------
(* ORDER *)

\* R orders S strictly and totally.
Orders(R, S) ==
    /\ \A x \in S : <<x, x>> \notin R
    /\ \A x, y \in S : x # y => <<x, y>> \in R \/ <<y, x>> \in R
    /\ \A x, y, z \in S : <<x, y>> \in R /\ <<y, z>> \in R => <<x, z>> \in R

\* How many are before x.
Below(R, S, x) == {y \in S : <<y, x>> \in R}
Rank(R, S, x) == Cardinality(Below(R, S, x))

\* The elements of a finite set have the ranks from 0, each of them one.
LEMMA Ranks ==
    ASSUME NEW S, IsFiniteSet(S), NEW R, Orders(R, S)
    PROVE  /\ \A x \in S : Rank(R, S, x) \in 0..(Cardinality(S) - 1)
           /\ \A x, y \in S : <<x, y>> \in R => Rank(R, S, x) < Rank(R, S, y)
           /\ \A x, y \in S : Rank(R, S, x) = Rank(R, S, y) => x = y
           /\ \A k \in 0..(Cardinality(S) - 1) : \E x \in S : Rank(R, S, x) = k
<1>1. Cardinality(S) \in Nat
  BY FS_CardinalityType
<1>2. ASSUME NEW x \in S
      PROVE  /\ Below(R, S, x) \in SUBSET S /\ IsFiniteSet(Below(R, S, x))
             /\ Rank(R, S, x) \in Nat /\ Rank(R, S, x) < Cardinality(S)
  <2>1. Below(R, S, x) \in SUBSET S /\ Below(R, S, x) # S
    BY DEF Below, Orders
  <2>2. IsFiniteSet(Below(R, S, x)) /\ Rank(R, S, x) \in Nat
    BY <2>1, FS_Subset, FS_CardinalityType DEF Rank
  <2>3. Rank(R, S, x) <= Cardinality(S) /\ Rank(R, S, x) # Cardinality(S)
    BY <2>1, FS_Subset DEF Rank
  <2> QED
    BY <1>1, <2>1, <2>2, <2>3
<1>3. ASSUME NEW x \in S, NEW y \in S, <<x, y>> \in R
      PROVE  Rank(R, S, x) < Rank(R, S, y)
  <2>1. Below(R, S, x) \in SUBSET Below(R, S, y)
    BY <1>3 DEF Below, Orders
  <2>2. x \in Below(R, S, y) /\ x \notin Below(R, S, x)
    BY <1>3 DEF Below, Orders
  <2>3. IsFiniteSet(Below(R, S, y)) /\ Rank(R, S, x) \in Nat /\ Rank(R, S, y) \in Nat
    BY <1>2
  <2>4. /\ Cardinality(Below(R, S, x)) <= Cardinality(Below(R, S, y))
        /\ Cardinality(Below(R, S, x)) # Cardinality(Below(R, S, y))
    BY <2>1, <2>2, <2>3, FS_Subset
  <2> QED
    BY <2>3, <2>4 DEF Rank
<1>4. ASSUME NEW x \in S, NEW y \in S, Rank(R, S, x) = Rank(R, S, y)
      PROVE  x = y
  <2> SUFFICES ASSUME x # y PROVE FALSE
    OBVIOUS
  <2>1. <<x, y>> \in R \/ <<y, x>> \in R
    BY DEF Orders
  <2>2. Rank(R, S, x) \in Nat
    BY <1>2
  <2>3. Rank(R, S, x) < Rank(R, S, y) \/ Rank(R, S, y) < Rank(R, S, x)
    BY <1>3, <2>1
  <2> QED
    BY <1>4, <2>2, <2>3
<1> DEFINE T == 0..(Cardinality(S) - 1)
           f == [x \in S |-> Rank(R, S, x)]
<1>5. IsFiniteSet(T) /\ Cardinality(T) = Cardinality(S)
  <2>1. 0 \in Int /\ Cardinality(S) - 1 \in Int
    BY <1>1
  <2>2. IsFiniteSet(T) /\ Cardinality(T) =
          IF 0 > Cardinality(S) - 1 THEN 0 ELSE (Cardinality(S) - 1) - 0 + 1
    BY <2>1, FS_Interval
  <2> QED
    BY <1>1, <2>2
<1>6. \A x \in S : Rank(R, S, x) \in T
  BY <1>1, <1>2
<1>7. f \in [S -> T] /\ \A x, y \in S : f[x] = f[y] => x = y
  <2> HIDE DEF T
  <2> QED
    BY <1>4, <1>6
<1>8. f \in Injection(S, T)
  <2> HIDE DEF T, f
  <2> QED
    BY <1>7 DEF Injection, IsInjective
<1>9. f \in Surjection(S, T)
  <2> HIDE DEF T, f
  <2> QED
    BY <1>5, <1>8, FS_Injection
<1>10. \A k \in T : \E x \in S : f[x] = k
  <2> HIDE DEF T, f
  <2> QED
    BY <1>9 DEF Surjection
<1> QED
  BY <1>3, <1>4, <1>6, <1>10

\* Each place of a list has its element.
LEMMA HasRank ==
    ASSUME NEW S, IsFiniteSet(S), NEW R, Orders(R, S), NEW i \in 1..Cardinality(S)
    PROVE  \E x \in S : Rank(R, S, x) = i - 1
<1>1. Cardinality(S) \in Nat
  BY FS_CardinalityType
<1>2. i - 1 \in 0..(Cardinality(S) - 1)
  BY <1>1
<1> QED
  BY <1>2, Ranks

\* The sequence q lists S in the order R.
Lists(q, S, R) ==
    /\ q \in [1..Cardinality(S) -> S]
    /\ \A i \in 1..Cardinality(S) : Rank(R, S, q[i]) = i - 1

\* A list has each element once.
LEMMA Listed ==
    ASSUME NEW S, IsFiniteSet(S), NEW R, Orders(R, S), NEW q, Lists(q, S, R)
    PROVE  /\ q \in Seq(S) /\ Len(q) = Cardinality(S) /\ Len(q) \in Nat
           /\ ToSet(q) = S /\ Cardinality(ToSet(q)) = Len(q)
           /\ \A i, j \in 1..Len(q) : q[i] = q[j] => i = j
<1>1. Cardinality(S) \in Nat
  BY FS_CardinalityType
<1>2. q \in Seq(S) /\ Len(q) = Cardinality(S)
  BY <1>1 DEF Lists
<1>3. ASSUME NEW x \in S PROVE \E i \in 1..Len(q) : q[i] = x
  <2> DEFINE k == Rank(R, S, x)
  <2>1. k \in 0..(Cardinality(S) - 1)
    BY Ranks
  <2>2. k + 1 \in 1..Cardinality(S) /\ (k + 1) - 1 = k
    BY <1>1, <2>1
  <2>3. q[k + 1] \in S /\ Rank(R, S, q[k + 1]) = k
    <3> HIDE DEF k
    <3> QED
      BY <2>2 DEF Lists
  <2>4. q[k + 1] = x
    BY <2>3, Ranks
  <2> QED
    BY <1>2, <2>2, <2>4
<1>4. \A i \in 1..Len(q) : q[i] \in S
  BY <1>2 DEF Lists
<1>5. DOMAIN q = 1..Len(q)
  BY <1>2 DEF Lists
<1>6. ToSet(q) = S
  BY <1>3, <1>4, <1>5 DEF ToSet
<1>7. ASSUME NEW i \in 1..Len(q), NEW j \in 1..Len(q), q[i] = q[j] PROVE i = j
  <2>1. Rank(R, S, q[i]) = i - 1 /\ Rank(R, S, q[j]) = j - 1
    BY <1>2 DEF Lists
  <2> QED
    BY <1>1, <1>2, <1>7, <2>1
<1> QED
  BY <1>1, <1>2, <1>6, <1>7

\* An element after all the others goes to the end.
LEMMA ListedAppend ==
    ASSUME NEW S, IsFiniteSet(S), NEW R, NEW x, x \notin S, Orders(R, S \cup {x}),
           \A y \in S : <<y, x>> \in R,
           NEW q, Lists(q, S, R), NEW p, Lists(p, S \cup {x}, R)
    PROVE  p = Append(q, x)
<1> DEFINE T == S \cup {x}
           n == Cardinality(S)
<1>1. IsFiniteSet(T) /\ Cardinality(T) = n + 1 /\ n \in Nat
  BY FS_AddElement, FS_CardinalityType
<1>2. Orders(R, S)
  BY DEF Orders
<1>3. q \in Seq(S) /\ Len(q) = n
  BY <1>2, Listed
<1>4. p \in Seq(T) /\ Len(p) = n + 1
  <2> HIDE DEF T, n
  <2>1. Lists(p, T, R) /\ Orders(R, T)
    BY DEF T
  <2> QED
    BY <1>1, <2>1, Listed
<1>5. \A y \in S : Below(R, T, y) = Below(R, S, y)
  BY DEF Below, Orders
<1>6. Below(R, T, x) = S
  BY DEF Below, Orders
<1>7. p \in [1..(n + 1) -> T] /\ \A i \in 1..(n + 1) : Rank(R, T, p[i]) = i - 1
  BY <1>1 DEF Lists
<1>8. q \in [1..n -> S] /\ \A i \in 1..n : Rank(R, S, q[i]) = i - 1
  BY DEF Lists
<1>9. \A y, z \in T : Rank(R, T, y) = Rank(R, T, z) => y = z
  <2>1. Orders(R, T)
    OBVIOUS
  <2> HIDE DEF T
  <2> QED
    BY <1>1, <2>1, Ranks
<1>10. ASSUME NEW i \in 1..n PROVE p[i] = q[i]
  <2>1. i \in 1..(n + 1)
    BY <1>1
  <2>2. q[i] \in S /\ Rank(R, S, q[i]) = i - 1
    BY <1>8
  <2>3. Rank(R, T, q[i]) = i - 1
    BY <1>5, <2>2 DEF Rank
  <2>4. Rank(R, T, p[i]) = i - 1 /\ p[i] \in T /\ q[i] \in T
    BY <1>7, <2>1, <2>2
  <2> HIDE DEF T, n
  <2> QED
    BY <1>9, <2>3, <2>4
<1>11. p[n + 1] = x
  <2>1. n + 1 \in 1..(n + 1) /\ (n + 1) - 1 = n
    BY <1>1
  <2>2. Rank(R, T, x) = n
    BY <1>6 DEF Rank
  <2>3. Rank(R, T, p[n + 1]) = n /\ p[n + 1] \in T /\ x \in T
    BY <1>7, <2>1
  <2> HIDE DEF T, n
  <2> QED
    BY <1>9, <2>2, <2>3
<1>12. /\ Append(q, x) \in Seq(T) /\ Len(Append(q, x)) = n + 1
       /\ \A i \in 1..n : Append(q, x)[i] = q[i]
       /\ Append(q, x)[n + 1] = x
  <2>1. q \in Seq(T) /\ x \in T
    BY <1>3
  <2> HIDE DEF T, n
  <2> QED
    BY <1>1, <1>3, <2>1
<1>13. \A i \in 1..(n + 1) : p[i] = Append(q, x)[i]
  <2>1. \A i \in 1..(n + 1) : i \in 1..n \/ i = n + 1
    BY <1>1
  <2> HIDE DEF T, n
  <2> QED
    BY <1>10, <1>11, <1>12, <2>1
<1> HIDE DEF T, n
<1> QED
  BY <1>4, <1>12, <1>13, SeqEqual

\* The order of answers, as pairs.
Days == {p \in Events \X Events : Earlier(p[1], p[2])}

\* Answers are ordered: those of one day by their identifiers, which differ.
LEMMA DaysOrder ==
    ASSUME NEW es, es \subseteq Events
    PROVE  Orders(Days, es)
<1>1. \A e \in Events : e.day \in Int /\ e.id \in Nat
  BY EventsAssumption
<1>2. \A e, f \in Events : e.id = f.id => e = f
  BY EventsAssumption
<1>3. \A e, f \in Events : <<e, f>> \in Days <=> Earlier(e, f)
  BY DEF Days
<1>4. \A e \in es : e \in Events
  OBVIOUS
<1> QED
  BY <1>1, <1>2, <1>3, <1>4 DEF Orders, Earlier

\* ByDay lists answers in that order.
LEMMA DaysListed ==
    ASSUME NEW es, es \subseteq Events, IsFiniteSet(es)
    PROVE  Lists(ByDay(es), es, Days) /\ Orders(Days, es)
<1>1. Orders(Days, es)
  BY DaysOrder
<1>2. \A x \in es : {y \in es : Earlier(y, x)} = Below(Days, es, x)
  BY DEF Below, Days
<1> DEFINE n == Cardinality(es)
<1>3. ASSUME NEW i \in 1..n
      PROVE  ByDay(es)[i] \in es /\ Rank(Days, es, ByDay(es)[i]) = i - 1
  <2>2. \E x \in es : Rank(Days, es, x) = i - 1
    BY <1>1, HasRank
  <2>3. \E x \in es : Cardinality({y \in es : Earlier(y, x)}) = i - 1
    BY <1>2, <2>2 DEF Rank
  <2>4. ByDay(es)[i] = CHOOSE x \in es : Cardinality({y \in es : Earlier(y, x)}) = i - 1
    BY DEF ByDay, Ordered
  <2>5. ByDay(es)[i] \in es /\ Cardinality({y \in es : Earlier(y, ByDay(es)[i])}) = i - 1
    BY <2>3, <2>4
  <2> QED
    BY <1>2, <2>5 DEF Rank
<1> DEFINE pick(i) == CHOOSE x \in es : Cardinality({y \in es : Earlier(y, x)}) = i - 1
<1>4. ByDay(es) = [i \in 1..n |-> pick(i)]
  BY DEF ByDay, Ordered
<1>5. ByDay(es) \in [1..n -> es]
  <2> HIDE DEF pick, n
  <2> QED
    BY <1>3, <1>4
<1> QED
  BY <1>1, <1>3, <1>5 DEF Lists

\* So it has each of them once.
LEMMA ByDaySorts ==
    ASSUME NEW es, es \subseteq Events, IsFiniteSet(es)
    PROVE  /\ ByDay(es) \in Seq(Events) /\ Len(ByDay(es)) = Cardinality(es)
           /\ ToSet(ByDay(es)) = es /\ Len(ByDay(es)) \in Nat
           /\ \A i, j \in 1..Len(ByDay(es)) : ByDay(es)[i] = ByDay(es)[j] => i = j
<1>1. Lists(ByDay(es), es, Days) /\ Orders(Days, es)
  BY DaysListed
<1>2. /\ ByDay(es) \in Seq(es) /\ Len(ByDay(es)) = Cardinality(es)
      /\ ToSet(ByDay(es)) = es /\ Len(ByDay(es)) \in Nat
      /\ \A i, j \in 1..Len(ByDay(es)) : ByDay(es)[i] = ByDay(es)[j] => i = j
  BY <1>1, Listed
<1>3. ByDay(es) \in Seq(Events)
  BY <1>2, SeqMonotonic
<1> QED
  BY <1>2, <1>3

\* An answer later than all the others comes last.
LEMMA ByDayAppends ==
    ASSUME NEW es, es \subseteq Events, IsFiniteSet(es), NEW e \in Events,
           \A f \in es : f.day < e.day
    PROVE  ByDay(es \cup {e}) = Append(ByDay(es), e)
<1> DEFINE fs == es \cup {e}
<1>1. e \notin es
  <2>1. e.day \in Int
    BY EventsAssumption
  <2> QED
    BY <2>1
<1>2. fs \subseteq Events /\ IsFiniteSet(fs)
  BY FS_AddElement
<1>3. Lists(ByDay(es), es, Days)
  BY DaysListed
<1>4. Lists(ByDay(fs), fs, Days) /\ Orders(Days, fs)
  <2> HIDE DEF fs
  <2> QED
    BY <1>2, DaysListed
<1>5. \A f \in es : <<f, e>> \in Days
  BY DEF Days, Earlier
<1> QED
  BY <1>1, <1>3, <1>4, <1>5, ListedAppend

-----------------------------------------------------------------------------
(* WHAT IS KEPT OF THE EVENTS *)

\* A list without repetition.
Distinct(q) == \A i, j \in 1..Len(q) : q[i] = q[j] => i = j

\* A list without repetition has as many elements as places.
LEMMA DistinctCounted ==
    ASSUME NEW S, NEW q \in Seq(S), Distinct(q)
    PROVE  Cardinality(ToSet(q)) = Len(q)
<1> DEFINE D == 1..Len(q)
           T == ToSet(q)
<1>1. Len(q) \in Nat /\ DOMAIN q = D /\ q \in [D -> S]
  OBVIOUS
<1>2. IsFiniteSet(D) /\ Cardinality(D) = Len(q)
  <2>1. 1 \in Int /\ Len(q) \in Int
    BY <1>1
  <2>2. IsFiniteSet(D) /\ Cardinality(D) = IF 1 > Len(q) THEN 0 ELSE Len(q) - 1 + 1
    BY <2>1, FS_Interval
  <2> QED
    BY <1>1, <2>2
<1>3. T = {q[i] : i \in D}
  BY <1>1 DEF ToSet
<1>4. q \in [D -> T] /\ (\A x \in T : \E i \in D : q[i] = x)
      /\ \A i, j \in D : q[i] = q[j] => i = j
  <2> HIDE DEF T, D
  <2> QED
    BY <1>1, <1>3 DEF Distinct, D
<1>5. q \in Surjection(D, T) /\ q \in Injection(D, T)
  <2> HIDE DEF T, D
  <2> QED
    BY <1>4 DEF Surjection, Injection, IsInjective
<1> HIDE DEF T, D
<1> QED
  BY <1>2, <1>5, FS_Surjection DEF T

\* The elements of a sequence and its places.
LEMMA SetOf ==
    ASSUME NEW S, NEW q \in Seq(S)
    PROVE  /\ ToSet(q) \subseteq S /\ \A i \in 1..Len(q) : q[i] \in ToSet(q)
           /\ \A e \in ToSet(q) : \E i \in 1..Len(q) : q[i] = e
BY DEF ToSet

\* Lists that share nothing make one list.
LEMMA Joined ==
    ASSUME NEW S, NEW p \in Seq(S), NEW q \in Seq(S), Distinct(p), Distinct(q),
           ToSet(p) \cap ToSet(q) = {}
    PROVE  /\ p \o q \in Seq(S) /\ Len(p \o q) = Len(p) + Len(q) /\ Distinct(p \o q)
           /\ ToSet(p) \cup ToSet(q) = ToSet(p \o q)
<1> DEFINE all == p \o q
           n == Len(p) + Len(q)
<1>1. Len(p) \in Nat /\ Len(q) \in Nat
  OBVIOUS
<1>2. /\ all \in Seq(S) /\ Len(all) = n /\ n \in Nat
      /\ \A i \in 1..n : all[i] = IF i <= Len(p) THEN p[i] ELSE q[i - Len(p)]
  BY <1>1, ConcatProperties
<1> HIDE DEF all
<1>3. \A i \in 1..Len(p) : i \in 1..n /\ all[i] = p[i]
  BY <1>1, <1>2
<1>4. ASSUME NEW i \in 1..Len(q) PROVE Len(p) + i \in 1..n /\ all[Len(p) + i] = q[i]
  <2>1. Len(p) + i \in 1..n /\ ~(Len(p) + i <= Len(p)) /\ (Len(p) + i) - Len(p) = i
    BY <1>1
  <2> HIDE DEF n
  <2> QED
    BY <1>2, <2>1
<1>5. ASSUME NEW i \in 1..n, i \notin 1..Len(p)
      PROVE  i - Len(p) \in 1..Len(q) /\ all[i] = q[i - Len(p)]
  <2>1. ~(i <= Len(p)) /\ i - Len(p) \in 1..Len(q)
    BY <1>1, <1>5
  <2> HIDE DEF n
  <2> QED
    BY <1>2, <2>1
<1> HIDE DEF n
<1>6. ASSUME NEW i \in 1..n, NEW j \in 1..n, all[i] = all[j] PROVE i = j
  <2>1. i \in Int /\ j \in Int
    BY <1>2
  <2>2. CASE i \in 1..Len(p) /\ j \in 1..Len(p)
    BY <1>3, <1>6, <2>2 DEF Distinct
  <2>3. CASE i \notin 1..Len(p) /\ j \notin 1..Len(p)
    <3>1. i - Len(p) = j - Len(p)
      BY <1>5, <1>6, <2>3 DEF Distinct
    <3> QED
      BY <1>1, <2>1, <3>1
  <2>4. CASE i \in 1..Len(p) /\ j \notin 1..Len(p)
    <3>1. all[i] \in ToSet(p) /\ all[j] \in ToSet(q)
      BY <1>3, <1>5, <2>4, SetOf
    <3> QED
      BY <1>6, <3>1
  <2>5. CASE i \notin 1..Len(p) /\ j \in 1..Len(p)
    <3>1. all[j] \in ToSet(p) /\ all[i] \in ToSet(q)
      BY <1>3, <1>5, <2>5, SetOf
    <3> QED
      BY <1>6, <3>1
  <2> QED
    BY <2>2, <2>3, <2>4, <2>5
<1>7. ASSUME NEW e \in ToSet(p) PROVE e \in ToSet(all)
  <2>1. PICK i \in 1..Len(p) : p[i] = e
    BY SetOf
  <2> QED
    BY <1>2, <1>3, <2>1, SetOf
<1>8. ASSUME NEW e \in ToSet(q) PROVE e \in ToSet(all)
  <2>1. PICK i \in 1..Len(q) : q[i] = e
    BY SetOf
  <2> QED
    BY <1>2, <1>4, <2>1, SetOf
<1>9. ASSUME NEW e \in ToSet(all) PROVE e \in ToSet(p) \cup ToSet(q)
  <2>1. PICK i \in 1..n : all[i] = e
    BY <1>2, SetOf
  <2>2. CASE i \in 1..Len(p)
    BY <1>3, <2>1, <2>2, SetOf
  <2>3. CASE i \notin 1..Len(p)
    BY <1>5, <2>1, <2>3, SetOf
  <2> QED
    BY <2>2, <2>3
<1>10. all \in Seq(S) /\ Len(all) = Len(p) + Len(q) /\ Distinct(all)
  BY <1>2, <1>6 DEF Distinct, n
<1> QED
  BY <1>7, <1>8, <1>9, <1>10 DEF all

\* What _merge_events keeps: no answer twice, MaxKept at most, and all of them unless
\* they are that many.
LEMMA MergedEvents ==
    ASSUME NEW es \in Seq(Events), Distinct(es), Len(es) <= MaxKept,
           NEW new, new \subseteq Events, IsFiniteSet(new)
    PROVE  /\ MergeEvents(es, new) \in Seq(Events) /\ Distinct(MergeEvents(es, new))
           /\ Len(MergeEvents(es, new)) <= MaxKept
           /\ \/ Len(MergeEvents(es, new)) = MaxKept
              \/ /\ Len(es) # MaxKept
                 /\ ToSet(es) \cup new \subseteq ToSet(MergeEvents(es, new))
<1> DEFINE late == new \ ToSet(es)
           q == ByDay(late)
           all == es \o q
           n == Len(all)
           kept == MergeEvents(es, new)
<1>1. late \subseteq Events /\ IsFiniteSet(late) /\ late \cap ToSet(es) = {}
  <2>1. late \in SUBSET new
    OBVIOUS
  <2> QED
    BY <2>1, FS_Subset
<1>2. q \in Seq(Events) /\ ToSet(q) = late /\ Distinct(q) /\ Len(q) \in Nat
  <2> HIDE DEF late
  <2> QED
    BY <1>1, ByDaySorts DEF Distinct
<1>3. Len(es) \in Nat /\ MaxKept \in Nat /\ MaxKept # 0
  BY KeptAssumption
<1>4. all \in Seq(Events) /\ n = Len(es) + Len(q) /\ n \in Nat
  <2> HIDE DEF q, late
  <2>1. all \in Seq(Events) /\ n = Len(es) + Len(q)
    BY <1>1, <1>2, Joined
  <2> HIDE DEF n
  <2> QED
    BY <1>2, <1>3, <2>1
<1>5. Distinct(all) /\ ToSet(all) = ToSet(es) \cup late
  <2> HIDE DEF q, late
  <2> QED
    BY <1>1, <1>2, Joined
<1>6. ToSet(es) \cup new \subseteq ToSet(all)
  BY <1>5
<1> DEFINE first == n - Least(n, MaxKept) + 1
           length == Least(n, MaxKept)
<1>7. kept = SubSeq(all, first, n)
  BY DEF MergeEvents
<1>8. first \in 1..(n + 1) /\ length \in Nat /\ length <= MaxKept /\ n - first + 1 = length
      /\ \A i \in 1..length : first + i - 1 \in 1..n
  <2>1. n \in Nat
    BY <1>4
  <2> HIDE DEF n
  <2> QED
    BY <1>3, <2>1 DEF Least
<1>9. kept \in Seq(Events) /\ Len(kept) = length /\ \A i \in 1..length : kept[i] = all[first + i - 1]
  <2>1. \A i \in first..n : all[i] \in Events
    <3>1. \A i \in first..n : i \in 1..n
      BY <1>4, <1>8
    <3> HIDE DEF q, first
    <3> QED
      BY <1>4, <3>1
  <2>2. first \in Int /\ n \in Int
    BY <1>4, <1>8
  <2> HIDE DEF q, all, n, first, length, kept
  <2>3. /\ SubSeq(all, first, n) \in Seq(Events)
        /\ Len(SubSeq(all, first, n)) = IF first <= n THEN n - first + 1 ELSE 0
        /\ \A i \in 1..n - first + 1 : SubSeq(all, first, n)[i] = all[first + i - 1]
    BY <2>1, <2>2, SubSeqProperties
  <2> QED
    BY <1>4, <1>7, <1>8, <2>2, <2>3
<1>10. Distinct(kept)
  <2> SUFFICES ASSUME NEW i \in 1..length, NEW j \in 1..length, kept[i] = kept[j] PROVE i = j
    BY <1>9 DEF Distinct
  <2> HIDE DEF q, all, n, first, length, kept
  <2>1. first + i - 1 = first + j - 1
    BY <1>5, <1>8, <1>9 DEF Distinct, n
  <2> QED
    BY <1>8, <2>1
<1>11. CASE n <= MaxKept
  <2>1. length = n /\ first = 1
    <3>1. n \in Nat
      BY <1>4
    <3> HIDE DEF n
    <3> QED
      BY <1>3, <1>11, <3>1 DEF Least
  <2>2. kept = all
    <3> HIDE DEF q, all, n, first, length, kept
    <3> QED
      BY <1>4, <1>7, <2>1, SubSeqFull DEF n
  <2>3. Len(es) # MaxKept \/ n = MaxKept
    <3> HIDE DEF q, n
    <3> QED
      BY <1>2, <1>3, <1>4, <1>11
  <2> HIDE DEF q, all, n, first, length, kept
  <2>4. kept \in Seq(Events) /\ Distinct(kept) /\ Len(kept) <= MaxKept
        /\ (Len(kept) = MaxKept \/ (Len(es) # MaxKept /\ ToSet(es) \cup new \subseteq ToSet(kept)))
    BY <1>6, <1>8, <1>9, <1>10, <2>1, <2>2, <2>3
  <2> QED
    BY <2>4 DEF kept
<1>12. CASE ~(n <= MaxKept)
  <2>1. length = MaxKept
    <3>1. n \in Nat
      BY <1>4
    <3> HIDE DEF n
    <3> QED
      BY <1>3, <1>12, <3>1 DEF Least
  <2> HIDE DEF q, all, n, first, length, kept
  <2>2. kept \in Seq(Events) /\ Distinct(kept) /\ Len(kept) <= MaxKept /\ Len(kept) = MaxKept
    BY <1>3, <1>8, <1>9, <1>10, <2>1
  <2> QED
    BY <2>2 DEF kept
<1> QED
  BY <1>11, <1>12

-----------------------------------------------------------------------------
(* PROFILES AND REQUESTS *)

\* Requests of the account come one after the other. (Two that overlap read one
\* revision, and the later commit replaces what the earlier one wrote.)
OneRequest == \A q, r \in Requests : q = r

\* Schedules a profile may have, profiles, and those that no merge makes unsound.
PlansMade == Plans \cup {Unplanned}
Profiles == [rev : Nat, events : Seq(Events), plan : PlansMade]
Sound(p) ==
    p \in Profiles /\ Distinct(p.events) /\ Len(p.events) <= MaxKept

\* What a request holds: a profile that was a student's, and the answers it brings.
Holds(r) ==
    /\ r.kind \in {"update", "ingest"} /\ r.student \in Students
    /\ r.brings \subseteq Events /\ IsFiniteSet(r.brings)
    /\ r.plan \in PlansMade /\ Sound(r.read)

\* The types, finer than PracticeTypeOK.
PracticeTyped ==
    /\ DOMAIN profile = Students /\ profile = [s \in Students |-> profile[s]]
    /\ \A s \in Students : Sound(profile[s])
    /\ rows \in [Students -> SUBSET Events]
    /\ \A s \in Students : IsFiniteSet(rows[s])
    /\ mastery \in [Students -> Notes \cup {Nothing}]
    /\ bound \subseteq Students
    /\ DOMAIN request = Requests /\ request = [q \in Requests |-> request[q]]
    /\ \A q \in Requests : request[q] = NoRequest \/ Holds(request[q])

\* Where requests are not concurrent, what one has read is still there.
Current ==
    /\ \A q \in Requests : request[q] # NoRequest =>
          request[q].read = profile[request[q].student]
          /\ (request[q].kind = "ingest" =>
                request[q].plan = profile[request[q].student].plan)
    /\ \A s \in Students : profile[s].rev <= MaxRevision
    /\ EventsInState

\* The read of a request is one of the model's steps.
Reads(q) ==
    /\ request[q] = NoRequest
    /\ \E s \in Students, brings \in SUBSET Events, plan \in PlansMade,
          kind \in {"update", "ingest"} :
          /\ IsFiniteSet(brings)
          /\ kind = "ingest" => plan = profile[s].plan
          /\ Takes(q, kind, s, brings, plan)
    /\ UNCHANGED <<profile, rows, mastery, bound>>

\* No schedule is one, too.
LEMMA UnplannedIsMade == Unplanned \in PlansMade /\ PlansMade \subseteq [Competencies -> Schedules]
<1>1. NoSchedule \in Schedules
  BY SpacingAssumption DEF NoSchedule, Schedules, NoDate
<1> QED
  BY <1>1, PlansAssumption DEF Unplanned, PlansMade

\* update_state reads.
LEMMA UpdateReads ==
    ASSUME NEW q \in Requests, NEW s \in Students, NEW base, NEW brings \in Batches,
           NEW plan \in Plans, ReadForUpdate(q, s, base, brings, plan)
    PROVE  Reads(q)
<1>1. brings \subseteq Events /\ IsFiniteSet(brings) /\ plan \in PlansMade
  BY BatchesAssumption DEF PlansMade
<1> QED
  BY <1>1 DEF Reads, ReadForUpdate

\* ingest_events reads.
LEMMA IngestReads ==
    ASSUME PracticeTyped, NEW q \in Requests, NEW s \in Students, NEW batch \in Batches,
           ReadForIngest(q, s, batch)
    PROVE  Reads(q)
<1> DEFINE mine == batch \ rows[s]
<1>1. mine \in SUBSET batch /\ batch \subseteq Events /\ IsFiniteSet(batch)
  BY BatchesAssumption
<1>2. mine \subseteq Events /\ IsFiniteSet(mine)
  BY <1>1, FS_Subset
<1>3. profile[s].plan \in PlansMade
  BY DEF PracticeTyped, Sound, Profiles
<1>4. /\ Takes(q, "ingest", s, mine, profile[s].plan)
      /\ request[q] = NoRequest /\ UNCHANGED <<profile, rows, mastery, bound>>
  BY DEF ReadForIngest
<1> HIDE DEF mine
<1> QED
  BY <1>2, <1>3, <1>4 DEF Reads

\* A commit writes one profile, and the rows of a batch.
Commits(q) ==
    LET s == request[q].student IN
    /\ request[q] # NoRequest /\ Revisions < MaxRevision
    /\ profile' = [profile EXCEPT ![s] = Written(q)]
    /\ \/ request[q].kind = "update" /\ rows' = rows
       \/ /\ request[q].kind = "ingest"
          /\ \A t \in Students : request[q].brings \cap rows[t] = {}
          /\ rows' = [rows EXCEPT ![s] = @ \cup request[q].brings]
    /\ Ends(q) /\ UNCHANGED <<mastery, bound>>

\* Both commit.
LEMMA CommitSteps ==
    ASSUME NEW q \in Requests, CommitUpdate(q) \/ CommitIngest(q)
    PROVE  Commits(q)
<1>1. request[q].kind \in {"update", "ingest"}
  BY DEF CommitUpdate, CommitIngest
<1>2. request[q] # NoRequest
  BY <1>1 DEF NoRequest
<1> QED
  BY <1>2 DEF Commits, CommitUpdate, CommitIngest, Ends

\* There are no other steps.
LEMMA Steps ==
    ASSUME PracticeTyped, PracticeNext
    PROVE  \/ \E q \in Requests : Reads(q) \/ Commits(q) \/ RollBack(q)
           \/ \E s \in Students, levels \in Notes : SaveMetadata(s, levels)
           \/ \E students \in SUBSET Students : Bind(students)
BY UpdateReads, IngestReads, CommitSteps DEF PracticeNext

\* The profile that a request writes is sound if the one it has read is.
LEMMA WrittenSound ==
    ASSUME PracticeTyped, NEW q \in Requests, request[q] # NoRequest
    PROVE  /\ Sound(Written(q)) /\ request[q].student \in Students
           /\ request[q].brings \subseteq Events /\ IsFiniteSet(request[q].brings)
<1>1. Holds(request[q])
  BY DEF PracticeTyped
<1> DEFINE es == request[q].read.events
           new == request[q].brings
<1>2. /\ es \in Seq(Events) /\ Distinct(es) /\ Len(es) <= MaxKept
      /\ new \subseteq Events /\ IsFiniteSet(new)
  BY <1>1 DEF Holds, Sound, Profiles
<1>3. /\ MergeEvents(es, new) \in Seq(Events) /\ Distinct(MergeEvents(es, new))
      /\ Len(MergeEvents(es, new)) <= MaxKept
  <2> HIDE DEF es, new
  <2> QED
    BY <1>2, MergedEvents
<1>4. request[q].read.rev + 1 \in Nat /\ request[q].plan \in PlansMade
  BY <1>1 DEF Holds, Sound, Profiles
<1>5. Sound(Written(q))
  BY <1>3, <1>4 DEF Sound, Profiles, Written
<1> QED
  BY <1>1, <1>5 DEF Holds

\* The types hold in the beginning.
LEMMA TypedStarts == PracticeInit => PracticeTyped
<1> SUFFICES ASSUME PracticeInit PROVE PracticeTyped
  OBVIOUS
<1>1. Sound(Absent)
  <2>1. <<>> \in Seq(Events) /\ Len(<<>>) = 0 /\ Distinct(<<>>)
    BY DEF Distinct
  <2> QED
    BY <2>1, UnplannedIsMade, KeptAssumption DEF Sound, Profiles, Absent
<1> QED
  BY <1>1, FS_EmptySet DEF PracticeInit, PracticeTyped

\* And every step keeps them.
LEMMA TypedStays ==
    ASSUME PracticeTyped, [PracticeNext]_practiceVars
    PROVE  PracticeTyped'
<1>1. CASE UNCHANGED practiceVars
  BY <1>1 DEF PracticeTyped, practiceVars, Sound, Holds
<1>2. ASSUME NEW q \in Requests, Reads(q) PROVE PracticeTyped'
  <2>1. PICK s \in Students, brings \in SUBSET Events, plan \in PlansMade,
          kind \in {"update", "ingest"} :
          /\ IsFiniteSet(brings)
          /\ Takes(q, kind, s, brings, plan)
    BY <1>2 DEF Reads
  <2> DEFINE r == [kind |-> kind, student |-> s, brings |-> brings, plan |-> plan,
                   read |-> profile[s]]
  <2>2. Holds(r)
    BY <2>1 DEF Holds, PracticeTyped
  <2>3. request' = [request EXCEPT ![q] = r]
    BY <2>1 DEF Takes
  <2>4. /\ DOMAIN request' = Requests /\ request' = [p \in Requests |-> request'[p]]
        /\ \A p \in Requests : request'[p] = NoRequest \/ Holds(request'[p])
    <3> HIDE DEF r
    <3> QED
      BY <2>2, <2>3 DEF PracticeTyped
  <2>5. UNCHANGED <<profile, rows, mastery, bound>>
    BY <1>2 DEF Reads
  <2> QED
    BY <2>4, <2>5 DEF PracticeTyped, Holds, Sound
<1>3. ASSUME NEW q \in Requests, Commits(q) PROVE PracticeTyped'
  <2> DEFINE s == request[q].student
  <2>1. /\ Sound(Written(q)) /\ s \in Students
        /\ request[q].brings \subseteq Events /\ IsFiniteSet(request[q].brings)
    BY <1>3, WrittenSound DEF Commits
  <2>2. /\ DOMAIN profile' = Students /\ profile' = [t \in Students |-> profile'[t]]
        /\ \A t \in Students : Sound(profile'[t])
    BY <1>3, <2>1 DEF Commits, PracticeTyped
  <2>3. /\ rows' \in [Students -> SUBSET Events]
        /\ \A t \in Students : IsFiniteSet(rows'[t])
    <3>1. IsFiniteSet(rows[s] \cup request[q].brings)
      BY <2>1, FS_Union DEF PracticeTyped
    <3>2. rows \in [Students -> SUBSET Events] /\ \A t \in Students : IsFiniteSet(rows[t])
      BY DEF PracticeTyped
    <3>3. rows' = rows \/ rows' = [rows EXCEPT ![s] = @ \cup request[q].brings]
      BY <1>3 DEF Commits
    <3> HIDE DEF s
    <3> QED
      BY <2>1, <3>1, <3>2, <3>3
  <2>4. /\ DOMAIN request' = Requests /\ request' = [p \in Requests |-> request'[p]]
        /\ \A p \in Requests : request'[p] = NoRequest \/ Holds(request'[p])
    BY <1>3 DEF Commits, Ends, PracticeTyped
  <2> QED
    BY <1>3, <2>2, <2>3, <2>4 DEF Commits, PracticeTyped, Holds, Sound
<1>4. ASSUME NEW q \in Requests, RollBack(q) PROVE PracticeTyped'
  <2>1. /\ DOMAIN request' = Requests /\ request' = [p \in Requests |-> request'[p]]
        /\ \A p \in Requests : request'[p] = NoRequest \/ Holds(request'[p])
    BY <1>4 DEF RollBack, Ends, PracticeTyped
  <2> QED
    BY <1>4, <2>1 DEF RollBack, PracticeTyped, Holds, Sound
<1>5. ASSUME NEW s \in Students, NEW levels \in Notes, SaveMetadata(s, levels) PROVE PracticeTyped'
  BY <1>5 DEF SaveMetadata, PracticeTyped, Holds, Sound
<1>6. ASSUME NEW students \in SUBSET Students, Bind(students) PROVE PracticeTyped'
  BY <1>6 DEF Bind, PracticeTyped, Holds, Sound
<1> QED
  BY <1>1, <1>2, <1>3, <1>4, <1>5, <1>6, Steps

\* No revision exceeds the number of all revisions.
LEMMA RevisionsBound ==
    ASSUME PracticeTyped, NEW s \in Students
    PROVE  profile[s].rev <= Revisions /\ profile[s].rev \in Nat /\ Revisions \in Int
<1> DEFINE v == [t \in Students |-> profile[t].rev]
<1>1. \A t \in Students : profile[t].rev \in Nat
  BY DEF PracticeTyped, Sound, Profiles
<1>2. Numbers(v) /\ \A t \in DOMAIN v : v[t] >= 0
  BY <1>1, FinitenessAssumption DEF Numbers
<1>3. Revisions = Total(v)
  BY DEF Revisions, Total
<1>4. DOMAIN v = Students /\ v[s] = profile[s].rev
  OBVIOUS
<1>5. v[s] <= Total(v) /\ Total(v) \in Int
  <2> HIDE DEF v
  <2> QED
    BY <1>2, <1>4, TotalNatural, TotalType
<1> QED
  BY <1>1, <1>3, <1>4, <1>5

\* What is committed by the only request.
LEMMA CommitWrites ==
    ASSUME PracticeTyped, Current, NEW q \in Requests, Commits(q)
    PROVE  LET s == request[q].student
               new == request[q].brings
           IN  /\ s \in Students /\ new \subseteq Events /\ IsFiniteSet(new)
               /\ profile' = [profile EXCEPT ![s] = Written(q)]
               /\ profile'[s] = Written(q)
               /\ Written(q).rev = profile[s].rev + 1 /\ Written(q).rev <= MaxRevision
               /\ Written(q).events = MergeEvents(profile[s].events, new)
               /\ request[q].kind = "ingest" => Written(q).plan = profile[s].plan
<1> DEFINE s == request[q].student
<1>1. s \in Students /\ request[q].brings \subseteq Events /\ IsFiniteSet(request[q].brings)
  BY WrittenSound DEF Commits
<1>2. /\ request[q].read = profile[s]
      /\ request[q].kind = "ingest" => request[q].plan = profile[s].plan
  BY DEF Commits, Current
<1>3. profile' = [profile EXCEPT ![s] = Written(q)] /\ profile'[s] = Written(q)
  BY <1>1 DEF Commits, PracticeTyped
<1>4. /\ Written(q).rev = profile[s].rev + 1
      /\ Written(q).events = MergeEvents(profile[s].events, request[q].brings)
      /\ Written(q).plan = request[q].plan
  BY <1>2 DEF Written
<1>5. Written(q).rev <= MaxRevision
  <2>1. profile[s].rev <= Revisions /\ profile[s].rev \in Nat /\ Revisions \in Int
    BY <1>1, RevisionsBound
  <2>2. Revisions < MaxRevision /\ MaxRevision \in Nat
    BY RevisionAssumption DEF Commits
  <2> QED
    BY <1>4, <2>1, <2>2
<1> QED
  BY <1>1, <1>2, <1>3, <1>4, <1>5

\* Nothing has been read in the beginning.
LEMMA CurrentStarts == PracticeInit => Current
BY RevisionAssumption DEF PracticeInit, Current, EventsInState, Absent

\* The only request finds what it has read; nobody else writes profiles.
LEMMA CurrentStays ==
    ASSUME OneRequest, PracticeTyped, Current, [PracticeNext]_practiceVars
    PROVE  Current'
<1>1. CASE UNCHANGED practiceVars
  BY <1>1 DEF Current, practiceVars, EventsInState
<1>2. ASSUME NEW q \in Requests, Reads(q) PROVE Current'
  <2>1. PICK s \in Students, brings \in SUBSET Events, plan \in PlansMade,
          kind \in {"update", "ingest"} :
          /\ kind = "ingest" => plan = profile[s].plan
          /\ Takes(q, kind, s, brings, plan)
    BY <1>2 DEF Reads
  <2> DEFINE r == [kind |-> kind, student |-> s, brings |-> brings, plan |-> plan,
                   read |-> profile[s]]
  <2>2. request'[q] = r
    BY <2>1 DEF Takes, PracticeTyped
  <2>3. UNCHANGED <<profile, rows>>
    BY <1>2 DEF Reads
  <2>4. \A p \in Requests : p = q
    BY DEF OneRequest
  <2>5. r.read = profile[s] /\ r.student = s /\ (r.kind = "ingest" => r.plan = profile[s].plan)
    BY <2>1
  <2> HIDE DEF r
  <2> QED
    BY <2>2, <2>3, <2>4, <2>5 DEF Current, EventsInState
<1>3. ASSUME NEW q \in Requests, Commits(q) PROVE Current'
  <2> DEFINE s == request[q].student
             new == request[q].brings
             w == Written(q)
  <2>1. /\ s \in Students /\ new \subseteq Events /\ IsFiniteSet(new)
        /\ profile' = [profile EXCEPT ![s] = w] /\ profile'[s] = w
        /\ w.rev <= MaxRevision /\ w.events = MergeEvents(profile[s].events, new)
    BY <1>3, CommitWrites
  <2>2. \A p \in Requests : request'[p] = NoRequest
    BY <1>3 DEF OneRequest, Commits, Ends, PracticeTyped
  <2>3. \A t \in Students \ {s} : profile'[t] = profile[t]
    BY <2>1 DEF PracticeTyped
  <2>4. \A t \in Students \ {s} : rows'[t] = rows[t]
    BY <1>3, <2>1 DEF Commits, PracticeTyped
  <2>5. rows'[s] \subseteq rows[s] \cup new
    BY <1>3, <2>1 DEF Commits, PracticeTyped
  <2>6. /\ profile[s].events \in Seq(Events) /\ Distinct(profile[s].events)
        /\ Len(profile[s].events) <= MaxKept
    BY <2>1 DEF PracticeTyped, Sound, Profiles
  <2>7. \/ Len(w.events) = MaxKept
        \/ Len(profile[s].events) # MaxKept /\ ToSet(profile[s].events) \cup new \subseteq ToSet(w.events)
    BY <2>1, <2>6, MergedEvents
  <2> HIDE DEF s, new, w
  <2>8. EventsInState'
    <3> SUFFICES ASSUME NEW t \in Students
                 PROVE  rows'[t] \subseteq ToSet(profile'[t].events) \/ Len(profile'[t].events) = MaxKept
      BY DEF EventsInState
    <3>1. CASE t = s
      BY <2>1, <2>5, <2>7, <3>1 DEF Current, EventsInState
    <3>2. CASE t # s
      BY <2>3, <2>4, <3>2 DEF Current, EventsInState
    <3> QED
      BY <3>1, <3>2
  <2>9. \A t \in Students : profile'[t].rev <= MaxRevision
    BY <2>1, <2>3 DEF Current
  <2> QED
    BY <2>2, <2>8, <2>9 DEF Current
<1>4. ASSUME NEW q \in Requests, RollBack(q) PROVE Current'
  BY <1>4 DEF RollBack, Ends, PracticeTyped, Current, EventsInState
<1>5. ASSUME NEW s \in Students, NEW levels \in Notes, SaveMetadata(s, levels) PROVE Current'
  BY <1>5 DEF SaveMetadata, Current, EventsInState
<1>6. ASSUME NEW students \in SUBSET Students, Bind(students) PROVE Current'
  BY <1>6 DEF Bind, Current, EventsInState
<1> QED
  BY <1>1, <1>2, <1>3, <1>4, <1>5, <1>6, Steps

\* No event is inserted twice, whatever the requests do at the same time.
LEMMA CountedStays ==
    ASSUME PracticeTyped, CountedOnce, [PracticeNext]_practiceVars
    PROVE  CountedOnce'
<1>1. CASE rows' = rows
  BY <1>1 DEF CountedOnce
<1>2. ASSUME NEW q \in Requests, Commits(q), rows' # rows PROVE CountedOnce'
  <2> DEFINE s == request[q].student
             new == request[q].brings
  <2>1. s \in Students /\ rows \in [Students -> SUBSET Events]
    BY <1>2, WrittenSound DEF Commits, PracticeTyped
  <2>2. /\ \A t \in Students : new \cap rows[t] = {}
        /\ rows' = [rows EXCEPT ![s] = @ \cup new]
    BY <1>2 DEF Commits
  <2> HIDE DEF s, new
  <2> QED
    BY <2>1, <2>2 DEF CountedOnce
<1>3. \/ rows' = rows
      \/ \E q \in Requests : Commits(q)
  <2>1. CASE UNCHANGED practiceVars
    BY <2>1 DEF practiceVars
  <2>2. CASE PracticeNext
    BY <2>2, Steps DEF Reads, RollBack, SaveMetadata, Bind
  <2> QED
    BY <2>1, <2>2
<1> QED
  BY <1>1, <1>2, <1>3

-----------------------------------------------------------------------------
(* REVISIONS AND ANSWERS *)

\* RevisionFollows, of a step.
Follows ==
    \A s \in Students : profile'[s] # profile[s] => profile'[s].rev = profile[s].rev + 1

\* The revision written is the next one.
LEMMA FollowsStep ==
    ASSUME PracticeTyped, Current, [PracticeNext]_practiceVars
    PROVE  Follows
<1>1. CASE profile' = profile
  BY <1>1 DEF Follows
<1>2. ASSUME NEW q \in Requests, Commits(q) PROVE Follows
  <2> DEFINE s == request[q].student
  <2>1. /\ s \in Students /\ profile' = [profile EXCEPT ![s] = Written(q)]
        /\ Written(q).rev = profile[s].rev + 1
    BY <1>2, CommitWrites
  <2> HIDE DEF s
  <2> QED
    BY <2>1 DEF Follows, PracticeTyped
<1>3. \/ profile' = profile
      \/ \E q \in Requests : Commits(q)
  <2>1. CASE UNCHANGED practiceVars
    BY <2>1 DEF practiceVars
  <2>2. CASE PracticeNext
    BY <2>2, Steps DEF Reads, RollBack, SaveMetadata, Bind
  <2> QED
    BY <2>1, <2>2
<1> QED
  BY <1>1, <1>2, <1>3

\* PracticeHelps, of a step and an answer, and of a step.
Helped(s, e) ==
    (/\ rows'[s] = rows[s] \cup {e}
     /\ e.correct /\ e.hints + e.retries = 0 /\ ~e.again
     /\ \A f \in rows[s] : f.competency = e.competency => f.day < e.day
     /\ Index(s, e.competency) # NoIndex)
    => Index(s, e.competency)' >= Index(s, e.competency)

Helps == \A s \in Students : \A e \in rows'[s] \ rows[s] : Helped(s, e)

\* The attempts at a skill are its answers, in their order.
LEMMA AnswersListed ==
    ASSUME PracticeTyped, NEW s \in Students, NEW c
    PROVE  /\ {e \in rows[s] : e.competency = c} \subseteq Events
           /\ IsFiniteSet({e \in rows[s] : e.competency = c})
           /\ Attempts(s, c) = ByDay({e \in rows[s] : e.competency = c})
           /\ Attempts(s, c) \in Seq(Events)
<1> DEFINE es == {e \in rows[s] : e.competency = c}
<1>1. es \in SUBSET rows[s] /\ rows[s] \subseteq Events /\ IsFiniteSet(rows[s])
  BY DEF PracticeTyped
<1>2. es \subseteq Events /\ IsFiniteSet(es)
  <2> HIDE DEF es
  <2> QED
    BY <1>1, FS_Subset
<1>3. ByDay(es) \in Seq(Events)
  <2> HIDE DEF es
  <2> QED
    BY <1>2, ByDaySorts
<1> QED
  BY <1>2, <1>3 DEF Attempts

\* A step that inserts one perfect answer, later than the others in its skill, does not
\* lower the index of the skill.
LEMMA HelpsStep ==
    ASSUME PracticeTyped, PracticeTyped', Current, [PracticeNext]_practiceVars
    PROVE  Helps
<1>1. CASE rows' = rows
  BY <1>1 DEF Helps
<1>2. ASSUME NEW q \in Requests, Commits(q), rows' # rows PROVE Helps
  <2> DEFINE st == request[q].student
  <2>1. /\ st \in Students /\ profile' = [profile EXCEPT ![st] = Written(q)]
        /\ profile'[st] = Written(q)
        /\ request[q].kind = "ingest" => Written(q).plan = profile[st].plan
    BY <1>2, CommitWrites
  <2>2. request[q].kind = "ingest"
    BY <1>2 DEF Commits
  <2>3. \A t \in Students : profile'[t].plan = profile[t].plan
    BY <2>1, <2>2 DEF PracticeTyped
  <2> SUFFICES ASSUME NEW s \in Students, NEW e \in rows'[s] \ rows[s],
                      rows'[s] = rows[s] \cup {e}, Perfect(e),
                      \A f \in rows[s] : f.competency = e.competency => f.day < e.day,
                      Index(s, e.competency) # NoIndex
               PROVE  Index(s, e.competency)' >= Index(s, e.competency)
    BY DEF Helps, Helped, Perfect
  <2> DEFINE c == e.competency
             es == {f \in rows[s] : f.competency = c}
             p == profile[s].plan[c]
  <2>4. e \in Events /\ c \in Competencies
    <3>1. e \in Events
      BY DEF PracticeTyped
    <3> QED
      BY <3>1, EventsAssumption
  <2>5. p \in Schedules
    <3>1. profile[s].plan \in PlansMade
      BY DEF PracticeTyped, Sound, Profiles
    <3> HIDE DEF c
    <3> QED
      BY <2>4, <3>1, UnplannedIsMade
  <2>6. es \subseteq Events /\ IsFiniteSet(es) /\ Attempts(s, c) = ByDay(es) /\ ByDay(es) \in Seq(Events)
    <3> HIDE DEF c
    <3> QED
      BY AnswersListed
  <2>7. {f \in rows'[s] : f.competency = c} = es \cup {e}
    OBVIOUS
  <2>8. \A f \in es : f.day < e.day
    OBVIOUS
  <2>9. Attempts(s, c)' = Append(ByDay(es), e)
    <3>1. Attempts(s, c)' = ByDay({f \in rows'[s] : f.competency = c})
      BY DEF Attempts
    <3>2. ByDay(es \cup {e}) = Append(ByDay(es), e)
      <4> HIDE DEF es, c
      <4> QED
        BY <2>4, <2>6, <2>8, ByDayAppends
    <3> HIDE DEF es, c
    <3> QED
      BY <2>7, <3>1, <3>2
  <2>10. Index(s, c) = RetentionIndex(ByDay(es), p)
    <3> HIDE DEF es
    <3> QED
      BY <2>6 DEF Index
  <2>11. Index(s, c)' = RetentionIndex(Append(ByDay(es), e), p)
    <3>1. Index(s, c)' = RetentionIndex(Attempts(s, c)', profile'[s].plan[c])
      BY DEF Index
    <3> HIDE DEF es, c
    <3> QED
      BY <2>3, <2>9, <3>1 DEF p
  <2> DEFINE as == ByDay(es)
  <2>12. as \in Seq(Events) /\ RetentionIndex(as, p) # NoIndex
    BY <2>6, <2>10
  <2> HIDE DEF es, c, p, as
  <2>13. RetentionIndex(Append(as, e), p) >= RetentionIndex(as, p)
    BY <2>4, <2>5, <2>12, IndexHelped
  <2> QED
    BY <2>10, <2>11, <2>13 DEF as, c
<1>3. \/ rows' = rows
      \/ \E q \in Requests : Commits(q)
  <2>1. CASE UNCHANGED practiceVars
    BY <2>1 DEF practiceVars
  <2>2. CASE PracticeNext
    BY <2>2, Steps DEF Reads, RollBack, SaveMetadata, Bind
  <2> QED
    BY <2>1, <2>2
<1> QED
  BY <1>1, <1>2, <1>3

-----------------------------------------------------------------------------
(* THE BRIEF *)

\* The index is a number.
LEMMA IndexIsNumber ==
    ASSUME NEW es \in Seq(Events), NEW p \in Schedules
    PROVE  RetentionIndex(es, p) \in Int
<1> DEFINE r == Recent(es)
<1>1. CASE Len(r) < MinEvents
  BY <1>1, IndexOfRecent DEF NoIndex
<1>2. CASE ~(Len(r) < MinEvents)
  <2>1. r \in Seq(Events)
    <3>1. CASE Events = {}
      <4>1. es = <<>>
        BY <3>1
      <4>2. Len(es) = 0 /\ Least(0, MaxWindow) = 0
        BY <4>1, WindowAssumption DEF Least
      <4>3. r = SubSeq(<<>>, 1, 0)
        BY <4>1, <4>2 DEF Recent
      <4> HIDE DEF r
      <4> QED
        BY <4>3
    <3>2. ASSUME NEW e \in Events PROVE r \in Seq(Events)
      BY RecentAnswers
    <3> QED
      BY <3>1, <3>2
  <2>2. r # <<>> /\ Len(r) \in Nat
    <3>1. Len(r) \in Nat /\ Len(<<>>) = 0
      BY <2>1
    <3> HIDE DEF r
    <3> QED
      BY <1>2, <3>1 DEF MinEvents
  <2>3. Raw(r, p) \in Int /\ Weights(r) \in Nat /\ Weights(r) # 0
    <3> HIDE DEF r
    <3> QED
      BY <2>1, <2>2, RawBounded
  <2>4. Rounded(Raw(r, p), Weights(r)) \in Int
    <3> HIDE DEF r
    <3> QED
      BY <2>3, RoundedDown
  <2>5. RetentionIndex(es, p) = Rounded(Raw(r, p), Weights(r))
    BY <1>2, IndexOfRecent
  <2> QED
    BY <2>4, <2>5
<1> QED
  BY <1>1, <1>2

\* What a brief relies on in the report of one skill.
Skill(x) ==
    /\ x.id \in Nat /\ x.index \in Int /\ x.overdue \in Nat /\ x.category \in Categories
    /\ x.overdue > 0 <=> x.due = "overdue"
    /\ (x.lapsed \/ x.lapses >= 2) <=> "repeated-lapse" \in x.actions

\* The report of a skill is what a brief relies on.
LEMMA SkillOf ==
    ASSUME NEW c \in Competencies, NEW es \in Seq(Events), NEW p \in Schedules, NEW levels
    PROVE  /\ Skill(CompetencyReport(c, es, p, levels))
           /\ CompetencyReport(c, es, p, levels).id = c
<1> DEFINE x == CompetencyReport(c, es, p, levels)
<1>1. /\ x.id = c /\ x.category = Category(es, p) /\ x.index = RetentionIndex(es, p)
      /\ x.overdue = OverdueDays(p) /\ x.due = DueStatus(p) /\ x.lapsed = p.repeated
      /\ x.lapses = p.lapses /\ x.actions = Actions(es, p, levels)
  BY DEF CompetencyReport
<1> HIDE DEF x
<1>2. p.due \in Int /\ p.repeated \in BOOLEAN /\ p.lapses \in Int
  BY DEF Schedules
<1>3. OverdueDays(p) \in Nat /\ (OverdueDays(p) > 0 <=> p.due # NoDate /\ p.due < Today)
  BY <1>2, TodayAssumption DEF OverdueDays
<1>4. DueStatus(p) = "overdue" <=> p.due # NoDate /\ p.due < Today
  <2>1. CASE p.due = NoDate
    BY <2>1 DEF DueStatus
  <2>2. CASE p.due # NoDate /\ p.due < Today
    <3>1. p.due # Today
      BY <1>2, <2>2, TodayAssumption
    <3> QED
      BY <2>2, <3>1 DEF DueStatus
  <2>3. CASE p.due # NoDate /\ ~(p.due < Today)
    BY <2>3 DEF DueStatus
  <2> QED
    BY <2>1, <2>2, <2>3
<1>5. "repeated-lapse" \in Actions(es, p, levels) <=> p.repeated \/ p.lapses >= 2
  BY DEF Actions
<1>6. Category(es, p) \in Categories
  BY DEF Category, Categories
<1>7. c \in Nat /\ RetentionIndex(es, p) \in Int
  BY FinitenessAssumption, IndexIsNumber
<1>8. Skill(x) /\ x.id = c
  BY <1>1, <1>3, <1>4, <1>5, <1>6, <1>7 DEF Skill
<1> QED
  BY <1>8 DEF x

\* A report: of finitely many skills, known by their identifiers.
Skills(report) ==
    /\ IsFiniteSet(report)
    /\ \A x \in report : Skill(x)
    /\ \A x, y \in report : x.id = y.id => x = y

\* And the report of a student is made of these.
LEMMA ReportOfSkills ==
    ASSUME PracticeTyped, NEW s \in Students
    PROVE  Skills(Report(s))
<1> DEFINE shown == {d \in Competencies : \/ mastery[s][d] # {} \/ Attempts(s, d) # <<>>
                                          \/ profile[s].plan[d] # NoSchedule}
           f == [c \in shown |-> CompetencyReport(c, Attempts(s, c), profile[s].plan[c], mastery[s][c])]
           report == Report(s)
<1>1. report = {f[c] : c \in shown}
  BY DEF Report
<1>2. ASSUME NEW c \in Competencies
      PROVE  Attempts(s, c) \in Seq(Events) /\ profile[s].plan[c] \in Schedules
  <2>1. profile[s].plan \in PlansMade
    BY DEF PracticeTyped, Sound, Profiles
  <2> QED
    BY <2>1, AnswersListed, UnplannedIsMade
<1>3. ASSUME NEW c \in shown PROVE Skill(f[c]) /\ f[c].id = c
  <2>1. c \in Competencies
    OBVIOUS
  <2>2. f[c] = CompetencyReport(c, Attempts(s, c), profile[s].plan[c], mastery[s][c])
    OBVIOUS
  <2> QED
    BY <1>2, <2>1, <2>2, SkillOf
<1>4. IsFiniteSet(shown)
  <2>1. shown \in SUBSET Competencies
    OBVIOUS
  <2> HIDE DEF shown
  <2> QED
    BY <2>1, FS_Subset, FinitenessAssumption
<1>5. f \in [shown -> report]
  <2>1. DOMAIN f = shown /\ f = [c \in shown |-> f[c]]
    OBVIOUS
  <2> HIDE DEF f, shown, report
  <2> QED
    BY <1>1, <2>1
<1> HIDE DEF f, shown, report
<1>6. f \in Surjection(shown, report)
  BY <1>1, <1>5 DEF Surjection
<1>7. IsFiniteSet(report)
  BY <1>4, <1>6, FS_Surjection
<1>8. Skills(report)
  BY <1>1, <1>3, <1>7 DEF Skills
<1> QED
  BY <1>8 DEF report

Urgencies(S) == {p \in S \X S : MoreUrgent(p[1], p[2])}

\* Skills are ordered by urgency: equals differ in their identifier.
LEMMA UrgenciesOrder ==
    ASSUME NEW report, Skills(report), NEW S, S \subseteq report
    PROVE  Orders(Urgencies(S), S)
<1>1. \A x, y \in S : <<x, y>> \in Urgencies(S) <=> MoreUrgent(x, y)
  BY DEF Urgencies
<1>2. \A x \in S : x.id \in Nat /\ x.index \in Int /\ x.overdue \in Nat /\ Priority[x.category] \in Nat
  <2>1. \A k \in Categories : Priority[k] \in Nat
    BY DEF Priority, Categories
  <2> QED
    BY <2>1 DEF Skills, Skill
<1>3. \A x, y \in S : x.id = y.id => x = y
  BY DEF Skills
<1> QED
  BY <1>1, <1>2, <1>3 DEF Orders, MoreUrgent

\* Attention lists those that call for an action.
LEMMA AttentionListed ==
    ASSUME NEW report, Skills(report)
    PROVE  /\ Attention(report) \in Seq(report) /\ Distinct(Attention(report))
           /\ ToSet(Attention(report)) = {x \in report : x.actions # {}}
<1> DEFINE S == {x \in report : x.actions # {}}
           R == Urgencies(S)
           q == Attention(report)
           n == Cardinality(S)
           pick(i) == CHOOSE x \in S : Cardinality({y \in S : MoreUrgent(y, x)}) = i - 1
<1>1. IsFiniteSet(S)
  <2>1. S \in SUBSET report /\ IsFiniteSet(report)
    BY DEF Skills
  <2> HIDE DEF S
  <2> QED
    BY <2>1, FS_Subset
<1>2. Orders(R, S)
  <2>1. S \subseteq report
    OBVIOUS
  <2> HIDE DEF S
  <2> QED
    BY <2>1, UrgenciesOrder
<1>3. \A x \in S : {y \in S : MoreUrgent(y, x)} = Below(R, S, x)
  BY DEF Below, Urgencies
<1>4. q = [i \in 1..n |-> pick(i)]
  BY DEF Attention, Ordered
<1> HIDE DEF S, R
<1>5. ASSUME NEW i \in 1..n PROVE pick(i) \in S /\ Rank(R, S, pick(i)) = i - 1
  <2>2. \E x \in S : Rank(R, S, x) = i - 1
    BY <1>1, <1>2, HasRank
  <2>3. \E x \in S : Cardinality({y \in S : MoreUrgent(y, x)}) = i - 1
    BY <1>3, <2>2 DEF Rank
  <2>4. pick(i) \in S /\ Cardinality({y \in S : MoreUrgent(y, pick(i))}) = i - 1
    BY <2>3
  <2> HIDE DEF pick
  <2> QED
    BY <1>3, <2>4 DEF Rank
<1>6. Lists(q, S, R)
  <2> HIDE DEF pick, n, q
  <2> QED
    BY <1>4, <1>5 DEF Lists, n
<1>7. q \in Seq(S) /\ ToSet(q) = S /\ Distinct(q)
  <2> HIDE DEF q, pick
  <2> QED
    BY <1>1, <1>2, <1>6, Listed DEF Distinct
<1>8. q \in Seq(report)
  <2>1. S \subseteq report
    BY DEF S
  <2> HIDE DEF q, pick
  <2> QED
    BY <1>7, <2>1, SeqMonotonic
<1> QED
  BY <1>7, <1>8 DEF S

Smaller(S) == {p \in S \X S : p[1] < p[2]}

\* Numbers are ordered.
LEMMA SmallerOrders ==
    ASSUME NEW S, S \subseteq Nat
    PROVE  Orders(Smaller(S), S)
BY DEF Smaller, Orders

\* And listed in their order.
LEMMA NumbersListed ==
    ASSUME NEW S, IsFiniteSet(S), Orders(Smaller(S), S)
    PROVE  /\ Ordered(S, <) \in Seq(S) /\ Distinct(Ordered(S, <))
           /\ ToSet(Ordered(S, <)) = S
<1> DEFINE R == Smaller(S)
           q == Ordered(S, <)
           n == Cardinality(S)
           pick(i) == CHOOSE x \in S : Cardinality({y \in S : y < x}) = i - 1
<1>2. Orders(R, S)
  OBVIOUS
<1>3. \A x \in S : {y \in S : y < x} = Below(R, S, x)
  BY DEF Below, Smaller
<1>4. q = [i \in 1..n |-> pick(i)]
  BY DEF Ordered
<1> HIDE DEF R
<1>5. ASSUME NEW i \in 1..n PROVE pick(i) \in S /\ Rank(R, S, pick(i)) = i - 1
  <2>2. \E x \in S : Rank(R, S, x) = i - 1
    BY <1>2, HasRank
  <2>3. \E x \in S : Cardinality({y \in S : y < x}) = i - 1
    BY <1>3, <2>2 DEF Rank
  <2>4. pick(i) \in S /\ Cardinality({y \in S : y < pick(i)}) = i - 1
    BY <2>3
  <2> HIDE DEF pick
  <2> QED
    BY <1>3, <2>4 DEF Rank
<1>6. Lists(q, S, R)
  <2> HIDE DEF pick, n, q
  <2> QED
    BY <1>4, <1>5 DEF Lists, n
<1>7. q \in Seq(S) /\ ToSet(q) = S /\ Distinct(q)
  <2> HIDE DEF q, pick
  <2> QED
    BY <1>2, <1>6, Listed DEF Distinct
<1> QED
  BY <1>7

\* The beginning of a list: the whole, or BriefLength of it.
LEMMA FirstOf ==
    ASSUME NEW S, NEW q \in Seq(S), Distinct(q)
    PROVE  /\ First(q) \in Seq(S) /\ Distinct(First(q)) /\ ToSet(First(q)) \subseteq ToSet(q)
           /\ First(q) = q \/ Len(First(q)) = BriefLength
           /\ Len(q) >= BriefLength => Len(First(q)) = BriefLength
<1> DEFINE k == Least(BriefLength, Len(q))
<1>1. Len(q) \in Nat /\ BriefLength \in Nat
  BY BriefAssumption
<1>2. /\ k \in 0..Len(q) /\ (k = Len(q) \/ k = BriefLength)
      /\ Len(q) >= BriefLength => k = BriefLength
  BY <1>1 DEF Least
<1>3. First(q) = SubSeq(q, 1, k)
  BY DEF First
<1>4. \A i \in 1..k : i \in 1..Len(q) /\ q[i] \in S
  BY <1>1, <1>2
<1>5. k \in Int /\ k - 1 + 1 = k
  BY <1>1, <1>2
<1> HIDE DEF k
<1>6. /\ First(q) \in Seq(S) /\ Len(First(q)) = k
      /\ \A i \in 1..k : First(q)[i] = q[i]
  <2>1. /\ SubSeq(q, 1, k) \in Seq(S)
        /\ Len(SubSeq(q, 1, k)) = IF 1 <= k THEN k - 1 + 1 ELSE 0
        /\ \A i \in 1..k - 1 + 1 : SubSeq(q, 1, k)[i] = q[1 + i - 1]
    BY <1>4, <1>5, SubSeqProperties
  <2>2. Len(SubSeq(q, 1, k)) = k
    BY <1>1, <1>2, <2>1
  <2>3. \A i \in 1..k : SubSeq(q, 1, k)[i] = q[i]
    <3>1. \A i \in 1..k : i \in 1..k - 1 + 1 /\ 1 + i - 1 = i
      BY <1>5
    <3> QED
      BY <2>1, <3>1
  <2> QED
    BY <1>3, <2>1, <2>2, <2>3
<1>7. Distinct(First(q))
  BY <1>4, <1>6 DEF Distinct
<1>8. ToSet(First(q)) \subseteq ToSet(q)
  <2> SUFFICES ASSUME NEW e \in ToSet(First(q)) PROVE e \in ToSet(q)
    OBVIOUS
  <2>1. PICK i \in 1..k : First(q)[i] = e
    BY <1>6, SetOf
  <2> QED
    BY <1>4, <1>6, <2>1, SetOf
<1>9. CASE k = Len(q)
  <2>1. First(q) = q
    BY <1>3, <1>9, SubSeqFull
  <2> QED
    BY <1>2, <1>6, <1>7, <1>8, <2>1
<1>10. CASE k = BriefLength
  BY <1>6, <1>7, <1>8, <1>10
<1> QED
  BY <1>2, <1>9, <1>10

\* The brief names no skill twice and leaves none that presses out, unless it is full.
LEMMA BriefIsSound ==
    ASSUME NEW report, Skills(report)
    PROVE  LET warmup == Warmup(report)
               pressing == {c \in report : c.lapsed \/ c.overdue > 0}
           IN  /\ Cardinality(ToSet(warmup)) = Len(warmup)
               /\ (\A c \in pressing : c.id \in ToSet(warmup)) \/ Len(warmup) = BriefLength
<1> DEFINE urgent == Attention(report)
           shown == First(urgent)
           ids == Ids(shown)
           due == {c.id : c \in {d \in report : d.due \in {"overdue", "due-today"}}}
           left == due \ ToSet(ids)
           fill == Ordered(left, <)
           all == ids \o fill
           warmup == First(all)
<1>1. /\ urgent \in Seq(report) /\ Distinct(urgent)
      /\ ToSet(urgent) = {x \in report : x.actions # {}}
  BY AttentionListed
<1>2. /\ shown \in Seq(report) /\ Distinct(shown)
      /\ shown = urgent \/ Len(shown) = BriefLength
  <2> HIDE DEF urgent
  <2> QED
    BY <1>1, FirstOf
<1>3. /\ ids \in Seq(Nat) /\ Len(ids) = Len(shown) /\ \A i \in 1..Len(shown) : ids[i] = shown[i].id
  <2>1. DOMAIN shown = 1..Len(shown) /\ Len(shown) \in Nat /\ \A i \in 1..Len(shown) : shown[i] \in report
    BY <1>2
  <2>2. \A x \in report : x.id \in Nat
    BY DEF Skills, Skill
  <2> HIDE DEF shown
  <2> QED
    BY <2>1, <2>2 DEF Ids
<1>4. Distinct(ids)
  <2> SUFFICES ASSUME NEW i \in 1..Len(shown), NEW j \in 1..Len(shown), ids[i] = ids[j]
               PROVE  i = j
    BY <1>3 DEF Distinct
  <2>1. shown[i] \in report /\ shown[j] \in report /\ shown[i].id = shown[j].id
    BY <1>2, <1>3
  <2>2. shown[i] = shown[j]
    BY <2>1 DEF Skills
  <2> QED
    BY <1>2, <2>2 DEF Distinct
<1>5. due \subseteq Nat /\ IsFiniteSet(due)
  <2> DEFINE D == {d \in report : d.due \in {"overdue", "due-today"}}
             f == [d \in D |-> d.id]
  <2>1. D \in SUBSET report /\ IsFiniteSet(report)
    BY DEF Skills
  <2>2. IsFiniteSet(D)
    <3> HIDE DEF D
    <3> QED
      BY <2>1, FS_Subset
  <2>3. f \in Surjection(D, due)
    BY DEF Surjection
  <2>4. \A x \in report : x.id \in Nat
    BY DEF Skills, Skill
  <2>5. IsFiniteSet(due)
    <3> HIDE DEF D, f, due
    <3> QED
      BY <2>2, <2>3, FS_Surjection
  <2> QED
    BY <2>4, <2>5
<1>6. left \subseteq Nat /\ IsFiniteSet(left) /\ ToSet(ids) \cap left = {}
  <2>1. left \in SUBSET due
    OBVIOUS
  <2>2. IsFiniteSet(left)
    <3> HIDE DEF left, due
    <3> QED
      BY <1>5, <2>1, FS_Subset
  <2> QED
    BY <1>5, <2>2
<1>7. fill \in Seq(Nat) /\ Distinct(fill) /\ ToSet(fill) = left
  <2> HIDE DEF left
  <2>1. fill \in Seq(left) /\ Distinct(fill) /\ ToSet(fill) = left
    <3>1. Orders(Smaller(left), left)
      BY <1>6, SmallerOrders
    <3> QED
      BY <1>6, <3>1, NumbersListed
  <2> HIDE DEF fill
  <2> QED
    BY <1>6, <2>1, SeqMonotonic
<1>8. all \in Seq(Nat) /\ Distinct(all) /\ ToSet(ids) \cup left = ToSet(all)
      /\ Len(all) = Len(ids) + Len(fill)
  <2> HIDE DEF ids, fill, left
  <2> QED
    BY <1>3, <1>4, <1>6, <1>7, Joined
<1>9. /\ warmup \in Seq(Nat) /\ Distinct(warmup)
      /\ warmup = all \/ Len(warmup) = BriefLength
  <2> HIDE DEF all
  <2> QED
    BY <1>8, FirstOf
<1>10. Cardinality(ToSet(warmup)) = Len(warmup)
  <2> HIDE DEF warmup
  <2> QED
    BY <1>9, DistinctCounted
<1>11. ASSUME Len(warmup) # BriefLength, NEW c \in report, c.lapsed \/ c.overdue > 0
       PROVE  c.id \in ToSet(warmup)
  <2>1. warmup = all
    BY <1>9, <1>11
  <2>2. CASE c.overdue > 0
    <3>1. c.id \in due
      BY <2>2 DEF Skills, Skill
    <3> HIDE DEF ids, all, warmup, due
    <3> QED
      BY <1>8, <2>1, <3>1
  <2>3. CASE c.lapsed
    <3>1. c \in ToSet(urgent)
      <4>1. "repeated-lapse" \in c.actions
        BY <2>3 DEF Skills, Skill
      <4> HIDE DEF urgent
      <4> QED
        BY <1>1, <4>1
    <3>2. CASE shown = urgent
      <4>1. PICK i \in 1..Len(shown) : shown[i] = c
        <5> HIDE DEF shown, urgent
        <5> QED
          BY <1>2, <3>1, <3>2, SetOf
      <4>2. c.id \in ToSet(ids)
        <5> HIDE DEF shown, ids
        <5> QED
          BY <1>3, <4>1, SetOf
      <4> HIDE DEF ids, all, warmup, left
      <4> QED
        BY <1>8, <2>1, <4>2
    <3>3. CASE Len(shown) = BriefLength
      <4>1. Len(all) \in Nat /\ Len(fill) \in Nat /\ Len(all) >= BriefLength
        <5>1. Len(fill) \in Nat /\ BriefLength \in Nat
          <6> HIDE DEF fill
          <6> QED
            BY <1>7, BriefAssumption
        <5> HIDE DEF shown, ids, fill, all
        <5> QED
          BY <1>3, <1>8, <3>3, <5>1
      <4>2. Len(warmup) = BriefLength
        <5> HIDE DEF all
        <5> QED
          BY <1>8, <4>1, FirstOf
      <4> QED
        BY <1>11, <4>2
    <3> QED
      BY <1>2, <3>2, <3>3
  <2> QED
    BY <1>11, <2>2, <2>3
<1>12. warmup = Warmup(report)
  BY DEF Warmup
<1> HIDE DEF warmup
<1> QED
  BY <1>10, <1>11, <1>12

\* The counts are those of what is shown.
LEMMA CountsAgree ==
    ASSUME NEW report, Skills(report)
    PROVE  /\ Summary(report).repeated =
                Cardinality({c \in report : "repeated-lapse" \in c.actions})
           /\ Summary(report).overdue =
                Cardinality({c \in report : c.due = "overdue"})
<1>1. /\ {c \in report : c.lapsed \/ c.lapses >= 2}
           = {c \in report : "repeated-lapse" \in c.actions}
      /\ {c \in report : c.overdue > 0} = {c \in report : c.due = "overdue"}
  BY DEF Skills, Skill
<1> QED
  BY <1>1 DEF Summary

\* So it is in every state with sound profiles.
LEMMA BriefsSound == PracticeTyped => BriefSound
<1> SUFFICES ASSUME PracticeTyped, NEW s \in Students
             PROVE  LET report == Report(s)
                        warmup == Warmup(report)
                        pressing == {c \in report : c.lapsed \/ c.overdue > 0}
                    IN  /\ Cardinality(ToSet(warmup)) = Len(warmup)
                        /\ (\A c \in pressing : c.id \in ToSet(warmup)) \/ Len(warmup) = BriefLength
                        /\ Summary(report).repeated =
                             Cardinality({c \in report : "repeated-lapse" \in c.actions})
                        /\ Summary(report).overdue =
                             Cardinality({c \in report : c.due = "overdue"})
  BY DEF BriefSound
<1>1. Skills(Report(s))
  BY ReportOfSkills
<1> QED
  BY <1>1, BriefIsSound, CountsAgree

-----------------------------------------------------------------------------
(* THE THEOREMS *)

\* The inductive invariants, for any requests and for one at a time.
Invariant == PracticeTyped /\ CountedOnce
OneInvariant == Invariant /\ Current

\* The types the runs check.
LEMMA TypeFollows == PracticeTyped /\ Current => PracticeTypeOK
<1> SUFFICES ASSUME PracticeTyped, Current PROVE PracticeTypeOK
  OBVIOUS
<1>1. ASSUME NEW s \in Students
      PROVE  /\ profile[s].rev \in 0..MaxRevision /\ profile[s].plan \in Plans \cup {Unplanned}
             /\ ToSet(profile[s].events) \subseteq Events
             /\ Len(profile[s].events) <= MaxKept
             /\ Cardinality(ToSet(profile[s].events)) = Len(profile[s].events)
  <2>1. /\ profile[s].rev \in Nat /\ profile[s].plan \in PlansMade
        /\ profile[s].events \in Seq(Events) /\ Distinct(profile[s].events)
        /\ Len(profile[s].events) <= MaxKept
    BY DEF PracticeTyped, Sound, Profiles
  <2>2. profile[s].rev <= MaxRevision /\ MaxRevision \in Nat
    BY RevisionAssumption DEF Current
  <2> QED
    BY <2>1, <2>2, SetOf, DistinctCounted DEF PlansMade
<1> QED
  BY <1>1 DEF PracticeTypeOK, PracticeTyped

\* Any number of requests at the same time keeps this.
LEMMA InvariantHolds == PracticeSpec => []Invariant
<1>1. PracticeInit => Invariant
  <2>1. PracticeInit => CountedOnce
    BY DEF PracticeInit, CountedOnce
  <2> QED
    BY <2>1, TypedStarts DEF Invariant
<1>2. Invariant /\ [PracticeNext]_practiceVars => Invariant'
  BY TypedStays, CountedStays DEF Invariant
<1> QED
  BY <1>1, <1>2, PTL DEF PracticeSpec

\* Whatever requests do at the same time: an answer is one student's, and a brief
\* leaves out nothing that presses and counts what it shows.
THEOREM BriefsAreSound == PracticeSpec => [](CountedOnce /\ BriefSound)
<1>1. Invariant => CountedOnce /\ BriefSound
  BY BriefsSound DEF Invariant
<1> QED
  BY <1>1, InvariantHolds, PTL

\* Requests one after the other keep this, too.
LEMMA OneInvariantHolds == ASSUME OneRequest PROVE PracticeSpec => []OneInvariant
<1>1. PracticeInit => Current
  BY CurrentStarts
<1>2. Invariant /\ Current /\ [PracticeNext]_practiceVars => Current'
  BY CurrentStays DEF Invariant
<1> QED
  BY <1>1, <1>2, InvariantHolds, PTL DEF PracticeSpec, OneInvariant

\* Where the requests of an account come one after the other, profiles are what their
\* type says, every answer taken is in the state that devices read back or was cut off
\* a full one, no answer counts for two students, and briefs are sound.
THEOREM PracticeStaysSound == ASSUME OneRequest PROVE PracticeSpec => []PracticeSound
<1>1. OneInvariant => PracticeSound
  BY TypeFollows, BriefsSound DEF OneInvariant, Invariant, Current, PracticeSound
<1> QED
  BY <1>1, OneInvariantHolds, PTL

\* Then an update or a batch replaces the revision before its own, and no other.
THEOREM RevisionsFollow == ASSUME OneRequest PROVE PracticeSpec => RevisionFollows
<1>1. OneInvariant /\ [PracticeNext]_practiceVars => [Follows]_practiceVars
  BY FollowsStep DEF OneInvariant, Invariant
<1>2. PracticeSpec => [][Follows]_practiceVars
  BY <1>1, OneInvariantHolds, PTL DEF PracticeSpec
<1> QED
  BY <1>2 DEF RevisionFollows, Follows

\* Then a perfect answer, later than all others in its skill, never lowers the retention
\* index, whatever the answers before it, the window and the schedule.
THEOREM PracticeNeverHurts == ASSUME OneRequest PROVE PracticeSpec => PracticeHelps
<1>1. OneInvariant /\ OneInvariant' /\ [PracticeNext]_practiceVars => [Helps]_practiceVars
  BY HelpsStep DEF OneInvariant, Invariant
<1>2. PracticeSpec => [][Helps]_practiceVars
  BY <1>1, OneInvariantHolds, PTL DEF PracticeSpec
<1> QED
  BY <1>2 DEF PracticeHelps, Helps, Helped
=============================================================================
