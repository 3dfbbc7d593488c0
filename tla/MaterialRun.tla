---------------------------- MODULE MaterialRun ----------------------------
(* From the recording of one lesson to its published kit of materials: the *)
(* callback of the conference (automation/application.py), the             *)
(* transcription, the build and the review (materials/application.py), the *)
(* publication (portal/application.py) and the life of the stored files    *)
(* (materials/retention.py).                                               *)
(*                                                                         *)
(* A job is run by at most one body at a time, which module JobLease shows *)
(* of the leases (OneBody). What the bodies of different jobs share is the *)
(* one transcript row of the lesson and the numbering of its versions; what*)
(* a body shares with the requests of the tutor is its run and the rows of *)
(* its versions, and no lock is held between two of its transactions.      *)
EXTENDS Naturals, FiniteSets, FiniteSetsExt

CONSTANTS
    Jobs,          \* jobs, of a recording or of the button "process"
    Kinds,         \* the files of a kit: tex, html, pdf
    Approvers,     \* requests that approve a run
    MaxBuilds,     \* bound: kits compiled
    MaxTroubles    \* bound: lost workers, lost commits, lost objects and files
                   \* deleted by the tutor or by retention

ASSUME JobsAssumption == IsFiniteSet(Jobs) /\ Jobs # {}
ASSUME KindsAssumption == IsFiniteSet(Kinds) /\ Kinds # {}
ASSUME BoundsAssumption ==
    MaxBuilds \in Nat /\ MaxTroubles \in Nat

VARIABLES
    job,         \* processing_jobs: [status, queue] of each job
    asking,      \* requests that found no active job and have not inserted
    transcript,  \* the one lesson_transcripts row: [status, record, text]
    run,         \* status of the generation_runs row of each job
    ver,         \* artifact_versions by job and kind
    objects,     \* stored files <<job, kind, number, build>>
    body,        \* the body running each job
    approving,   \* the run each approver has read: [job, status]
    builds,      \* kits compiled so far; a build is known by its number
    seen,        \* history: builds an approver found ready for review
    lost,        \* objects the storage lost
    troubles     \* troubles so far

vars == <<job, asking, transcript, run, ver, objects, body, approving,
          builds, seen, lost, troubles>>

None == [job |-> "none", status |-> "none"]
NoRow == [storage |-> "none", build |-> 0, number |-> 0, purge |-> FALSE]
Idle == [pc |-> "idle", build |-> 0, number |-> 0, todo |-> {}, last |-> {}]

JobStatuses == {"absent", "queued", "running", "completed", "failed"}
RunStatuses == {"none", "building", "review_required", "approved",
                "published", "revoked", "failed"}
StorageStatuses == {"none", "uploading", "available", "quarantined",
                    "deleted"}
Pcs == {"idle", "sync", "transcribing", "queueing", "marking", "collect",
        "generate", "upload", "put", "failing", "giving_up"}

Init ==
    /\ job = [j \in Jobs |-> [status |-> "absent", queue |-> "materials"]]
    /\ asking = {}
    /\ transcript = [status |-> "none", record |-> "none", text |-> "none"]
    /\ run = [j \in Jobs |-> "none"]
    /\ ver = [j \in Jobs |-> [k \in Kinds |-> NoRow]]
    /\ objects = {}
    /\ body = [j \in Jobs |-> Idle]
    /\ approving = [a \in Approvers |-> None]
    /\ builds = 0 /\ seen = {} /\ lost = {} /\ troubles = 0

-----------------------------------------------------------------------------
(* How a job comes to be.                                                  *)

\* RecordingReadyService.accept: the receipt of the record id is unique, a
\* repeated callback finds it and changes nothing. The job stands for the
\* record id it is made for.
Accept(j) ==
    /\ job[j].status = "absent" /\ j \notin asking
    /\ job' = [job EXCEPT ![j] = [status |-> "queued",
                                  queue |-> "transcription"]]
    /\ UNCHANGED <<asking, transcript, run, ver, objects, body, approving,
                   builds, seen, lost, troubles>>

Active == {j \in Jobs : job[j].status \in {"queued", "running"}}

\* MaterialsService.enqueue looks for an active job and inserts its own, with
\* no lock between the two.
EnqueueFindsNone(j) ==
    /\ j \notin asking /\ job[j].status = "absent"
    /\ Active = {}
    /\ asking' = asking \cup {j}
    /\ UNCHANGED <<job, transcript, run, ver, objects, body, approving,
                   builds, seen, lost, troubles>>

EnqueueInserts(j) ==
    /\ j \in asking
    /\ asking' = asking \ {j}
    /\ job' = [job EXCEPT ![j].status = "queued"]
    /\ UNCHANGED <<transcript, run, ver, objects, body, approving, builds,
                   seen, lost, troubles>>

\* A worker claims the job: queued, failed and due again, or running with
\* its worker lost. A retry comes at least a second later: no approval that
\* was under way when the body failed is still under way then.
Start(j) ==
    /\ job[j].status \in {"queued", "failed", "running"}
    /\ body[j] = Idle
    /\ \A a \in Approvers : approving[a].job # j
    /\ job' = [job EXCEPT ![j].status = "running"]
    /\ body' = [body EXCEPT ![j].pc = IF job[j].queue = "transcription"
                                      THEN "sync" ELSE "collect"]
    /\ UNCHANGED <<asking, transcript, run, ver, objects, approving, builds,
                   seen, lost, troubles>>

Goes(j, pc) == body' = [body EXCEPT ![j].pc = pc]

-----------------------------------------------------------------------------
(* PostLessonWorkflowService.transcribe.                                   *)

Transcribed(j) ==
    transcript.status = "completed" /\ transcript.record = j

\* The recording is there with a media url; a transcript that is completed
\* for this record id is kept, otherwise the row is taken over.
Sync(j) ==
    /\ body[j].pc = "sync"
    /\ IF Transcribed(j)
       THEN Goes(j, "queueing") /\ UNCHANGED transcript
       ELSE /\ Goes(j, "transcribing")
            /\ transcript' = [transcript EXCEPT !.status = "running",
                                                !.record = j]
    /\ UNCHANGED <<job, asking, run, ver, objects, approving, builds, seen,
                   lost, troubles>>

\* Mutant: the record id is left to _mark_transcript_running.
SaveTextOnly(j) ==
    /\ body[j].pc = "transcribing"
    /\ Goes(j, "queueing")
    /\ transcript' = [transcript EXCEPT !.status = "completed", !.text = j]
    /\ UNCHANGED <<job, asking, run, ver, objects, approving, builds, seen,
                   lost, troubles>>

SaveTranscript(j) ==
    /\ body[j].pc = "transcribing"
    /\ Goes(j, "queueing")
    /\ transcript' = [status |-> "completed", record |-> j, text |-> j]
    /\ UNCHANGED <<job, asking, run, ver, objects, approving, builds, seen,
                   lost, troubles>>

\* _queue_materials: the job goes back to the queue for its second phase.
QueueMaterials(j) ==
    /\ body[j].pc = "queueing"
    /\ body' = [body EXCEPT ![j] = Idle]
    /\ job' = [job EXCEPT ![j] = [status |-> "queued",
                                  queue |-> "materials"]]
    /\ UNCHANGED <<asking, transcript, run, ver, objects, approving, builds,
                   seen, lost, troubles>>

\* No recording or no media url yet, or the provider or the database fails.
TranscriptionFails(j) ==
    /\ body[j].pc \in {"sync", "transcribing", "queueing"}
    /\ Goes(j, "marking")
    /\ UNCHANGED <<job, asking, transcript, run, ver, objects, approving,
                   builds, seen, lost, troubles>>

\* _mark_transcript_failed: whichever recording the running row belongs to.
MarkTranscriptFailed(j) ==
    /\ body[j].pc = "marking"
    /\ Goes(j, "giving_up")
    /\ transcript' = IF transcript.status = "running"
                     THEN [transcript EXCEPT !.status = "failed"]
                     ELSE transcript
    /\ UNCHANGED <<job, asking, run, ver, objects, approving, builds, seen,
                   lost, troubles>>

\* update_text: the tutor corrects the text and nothing else of the row.
EditTranscript ==
    /\ transcript.status # "none" /\ transcript.text # "edited"
    /\ transcript' = [transcript EXCEPT !.text = "edited"]
    /\ UNCHANGED <<job, asking, run, ver, objects, body, approving, builds,
                   seen, lost, troubles>>

-----------------------------------------------------------------------------
(* MaterialsService.process.                                               *)

Reviewed == {"review_required", "approved", "published", "revoked"}

\* Mutant: a retry builds again whatever the run has become.
NeverDone(j) == FALSE

\* A run that left the build with versions is not built again.
Done(j) ==
    run[j] \in Reviewed /\ \E k \in Kinds : ver[j][k].storage # "none"

\* The evidence is read and the run is found or made.
Collect(j) ==
    /\ body[j].pc = "collect"
    /\ IF Done(j)
       THEN /\ body' = [body EXCEPT ![j] = Idle]
            /\ job' = [job EXCEPT ![j].status = "completed"]
            /\ UNCHANGED run
       ELSE /\ Goes(j, "generate")
            /\ run' = IF run[j] = "none"
                      THEN [run EXCEPT ![j] = "building"] ELSE run
            /\ UNCHANGED job
    /\ UNCHANGED <<asking, transcript, ver, objects, approving, builds, seen,
                   lost, troubles>>

Newest == Max({ver[j][k].number : j \in Jobs, k \in Kinds})

\* The kit is generated and compiled; its version is one above every version
\* of the lesson that is committed by now.
Generate(j) ==
    /\ body[j].pc = "generate"
    /\ builds < MaxBuilds
    /\ builds' = builds + 1
    /\ body' = [body EXCEPT ![j] =
                  [pc |-> "upload", build |-> builds + 1,
                   number |-> Newest + 1, todo |-> Kinds, last |-> {}]]
    /\ UNCHANGED <<job, asking, transcript, run, ver, objects, approving,
                   seen, lost, troubles>>

\* The file that is stored becomes available with the next commit only.
WithLast(j) ==
    [k \in Kinds |-> IF k \in body[j].last
                     THEN [ver[j][k] EXCEPT !.storage = "available"]
                     ELSE ver[j][k]]

\* The row of the next kind, new or of an earlier try, is committed before
\* its object is written.
Upload(j, k) ==
    /\ body[j].pc = "upload" /\ k \in body[j].todo
    /\ ver' = [ver EXCEPT ![j] =
                 [WithLast(j) EXCEPT ![k] =
                     [storage |-> "uploading", build |-> body[j].build,
                      number |-> body[j].number,
                      purge |-> ver[j][k].purge]]]
    /\ body' = [body EXCEPT ![j].pc = "put", ![j].last = {k},
                            ![j].todo = @ \ {k}]
    /\ UNCHANGED <<job, asking, transcript, run, objects, approving, builds,
                   seen, lost, troubles>>

Key(j, k) == <<j, k, ver[j][k].number>>
At(key) == {o \in objects : <<o[1], o[2], o[3]>> = key}
Stored(j, k) == <<j, k, ver[j][k].number, ver[j][k].build>> \in objects

Put(j) ==
    /\ body[j].pc = "put"
    /\ \E k \in body[j].last :
        objects' = (objects \ At(Key(j, k))) \cup
                        {<<j, k, body[j].number, body[j].build>>}
    /\ Goes(j, "upload")
    /\ UNCHANGED <<job, asking, transcript, run, ver, approving, builds, seen,
                   lost, troubles>>

\* ArtifactStorageError: too large, wrong type or content, scanner. The row is
\* quarantined and the body fails.
PutRefused(j) ==
    /\ body[j].pc = "put"
    /\ \E k \in body[j].last :
        ver' = [ver EXCEPT ![j][k].storage = "quarantined"]
    /\ Goes(j, "failing")
    /\ UNCHANGED <<job, asking, transcript, run, objects, approving, builds,
                   seen, lost, troubles>>

\* Any other error, while the evidence, the kit or a file is handled.
BuildFails(j) ==
    /\ body[j].pc \in {"collect", "generate", "upload", "put"}
    /\ Goes(j, "failing")
    /\ UNCHANGED <<job, asking, transcript, run, ver, objects, approving,
                   builds, seen, lost, troubles>>

\* The last commit: the last file, the run and the job together. When the
\* answer to it is lost the body goes on as if it had failed.
Finish(j) ==
    /\ body[j].pc = "upload" /\ body[j].todo = {}
    /\ ver' = [ver EXCEPT ![j] = WithLast(j)]
    /\ run' = [run EXCEPT ![j] = "review_required"]
    /\ job' = [job EXCEPT ![j].status = "completed"]
    /\ \/ body' = [body EXCEPT ![j] = Idle] /\ UNCHANGED troubles
       \/ Goes(j, "failing") /\ troubles < MaxTroubles /\ troubles' = troubles + 1
    /\ UNCHANGED <<asking, transcript, objects, approving, builds, seen, lost>>

\* _fail_run does not look at the status it overwrites.
FailRun(j) ==
    /\ body[j].pc = "failing"
    /\ Goes(j, "giving_up")
    /\ run' = IF run[j] = "none" THEN run ELSE [run EXCEPT ![j] = "failed"]
    /\ UNCHANGED <<job, asking, transcript, ver, objects, approving, builds,
                   seen, lost, troubles>>

\* MaterialsService.fail; durability decides on the retry.
Fail(j) ==
    /\ body[j].pc = "giving_up"
    /\ body' = [body EXCEPT ![j] = Idle]
    /\ job' = [job EXCEPT ![j].status = "failed"]
    /\ UNCHANGED <<asking, transcript, run, ver, objects, approving, builds,
                   seen, lost, troubles>>

\* The worker is lost; the rows stay as they are.
WorkerLost(j) ==
    /\ body[j] # Idle /\ troubles < MaxTroubles
    /\ troubles' = troubles + 1
    /\ body' = [body EXCEPT ![j] = Idle]
    /\ UNCHANGED <<job, asking, transcript, run, ver, objects, approving,
                   builds, seen, lost>>

-----------------------------------------------------------------------------
(* The tutor: approve takes no lock (_run_for_update), so what it read may *)
(* be old when it writes; publish and revoke hold the row of the run.      *)

ApproveReads(a, j) ==
    /\ approving[a] = None
    /\ run[j] \in {"review_required", "approved"}
    /\ approving' = [approving EXCEPT ![a] = [job |-> j, status |-> run[j]]]
    /\ seen' = seen \cup {ver[j][k].build : k \in Kinds}
    /\ UNCHANGED <<job, asking, transcript, run, ver, objects, body, builds,
                   lost, troubles>>

\* Only a changed attribute is written: a status that was read as approved is
\* not.
ApproveWrites(a) ==
    /\ approving[a] # None
    /\ run' = IF approving[a].status = "approved" THEN run
              ELSE [run EXCEPT ![approving[a].job] = "approved"]
    /\ approving' = [approving EXCEPT ![a] = None]
    /\ UNCHANGED <<job, asking, transcript, ver, objects, body, builds, seen,
                   lost, troubles>>

Publish(j) ==
    /\ run[j] = "approved"
    /\ run' = [run EXCEPT ![j] = "published"]
    /\ UNCHANGED <<job, asking, transcript, ver, objects, body, approving,
                   builds, seen, lost, troubles>>

Revoke(j) ==
    /\ run[j] = "published"
    /\ run' = [run EXCEPT ![j] = "revoked"]
    /\ UNCHANGED <<job, asking, transcript, ver, objects, body, approving,
                   builds, seen, lost, troubles>>

-----------------------------------------------------------------------------
(* ArtifactLifecycleService, under row locks.                              *)

\* soft_delete takes a row whatever its status.
SoftDelete(j, k) ==
    /\ ver[j][k].storage \notin {"none", "deleted"}
    /\ troubles < MaxTroubles /\ troubles' = troubles + 1
    /\ ver' = [ver EXCEPT ![j][k].storage = "deleted", ![j][k].purge = TRUE]
    /\ UNCHANGED <<job, asking, transcript, run, objects, body, approving,
                   builds, seen, lost>>

\* expire_retention: a year or more after the row was made.
Expire(j, k) ==
    /\ ver[j][k].storage = "available"
    /\ troubles < MaxTroubles /\ troubles' = troubles + 1
    /\ ver' = [ver EXCEPT ![j][k].storage = "deleted", ![j][k].purge = TRUE]
    /\ UNCHANGED <<job, asking, transcript, run, objects, body, approving,
                   builds, seen, lost>>

\* Mutant: a due date is enough.
DueByDate(j, k) == ver[j][k].purge

Due(j, k) == ver[j][k].purge /\ ver[j][k].storage = "deleted"

\* purge_due. The grace lasts a day at least: it is over for no row that a
\* body is still uploading.
Purge(j, k) ==
    /\ Due(j, k)
    /\ body[j].pc \notin {"upload", "put"}
    /\ objects' = objects \ At(Key(j, k))
    /\ ver' = [ver EXCEPT ![j][k].purge = FALSE]
    /\ UNCHANGED <<job, asking, transcript, run, body, approving, builds,
                   seen, lost, troubles>>

\* verify_integrity compares the stored bytes with the row.
Verify(j, k) ==
    /\ ver[j][k].storage = "available" /\ ~ Stored(j, k)
    /\ ver' = [ver EXCEPT ![j][k].storage = "quarantined"]
    /\ UNCHANGED <<job, asking, transcript, run, objects, body, approving,
                   builds, seen, lost, troubles>>

ObjectLost(o) ==
    /\ troubles < MaxTroubles /\ o \in objects
    /\ troubles' = troubles + 1
    /\ objects' = objects \ {o}
    /\ lost' = lost \cup {<<o[1], o[2], o[3]>>}
    /\ UNCHANGED <<job, asking, transcript, run, ver, body, approving, builds,
                   seen>>

-----------------------------------------------------------------------------
Transcribe(j) ==
    \/ Sync(j) \/ SaveTranscript(j) \/ QueueMaterials(j)
    \/ TranscriptionFails(j) \/ MarkTranscriptFailed(j)

Process(j) ==
    \/ Collect(j) \/ Generate(j) \/ (\E k \in Kinds : Upload(j, k))
    \/ Put(j) \/ PutRefused(j) \/ BuildFails(j) \/ Finish(j) \/ FailRun(j)

Next ==
    \/ \E j \in Jobs :
        \/ Accept(j) \/ EnqueueFindsNone(j) \/ EnqueueInserts(j)
        \/ Start(j) \/ Transcribe(j) \/ Process(j) \/ Fail(j)
        \/ WorkerLost(j) \/ Publish(j) \/ Revoke(j)
        \/ \E a \in Approvers : ApproveReads(a, j)
        \/ \E k \in Kinds : 
            SoftDelete(j, k) \/ Expire(j, k) \/ Purge(j, k) \/ Verify(j, k)
    \/ \E a \in Approvers : ApproveWrites(a)
    \/ \E o \in objects : ObjectLost(o)
    \/ EditTranscript

Spec == Init /\ [][Next]_vars

-----------------------------------------------------------------------------
TypeOK ==
    /\ job \in [Jobs -> [status : JobStatuses,
                         queue : {"transcription", "materials"}]]
    /\ asking \subseteq Jobs
    /\ run \in [Jobs -> RunStatuses]
    /\ \A j \in Jobs, k \in Kinds : ver[j][k].storage \in StorageStatuses
    /\ \A j \in Jobs : body[j].pc \in Pcs
    /\ troubles \in 0..MaxTroubles /\ builds \in 0..MaxBuilds

\* The text of a completed transcript is that of the recording the row names,
\* or the tutor's correction, though the jobs of two recordings take the one
\* row from each other at any point (_mark_transcript_running,
\* _save_transcript, _mark_transcript_failed).
TranscriptIsOfItsRecording ==
    transcript.status = "completed" =>
        transcript.text \in {transcript.record, "edited"}

\* Every kind of the kit is of one build and none is half uploaded.
WholeKit(j) ==
    \E b \in 1..builds : \A k \in Kinds :
        ver[j][k].build = b /\ ver[j][k].storage \notin {"none", "uploading"}

\* What a student's download finds (_authorized_artifact).
Offered(j, k) == run[j] = "published" /\ ver[j][k].storage = "available"

\* A run that is up for review, approved or published has a whole kit, and
\* what a student can download is what an approver was shown: retries, lost
\* workers and a failure reported after the commit neither leave a mixed kit
\* behind the status nor replace its files after the approval (process,
\* approve).
ReviewedIsWhole ==
    /\ TypeOK
    /\ \A j \in Jobs : run[j] \in Reviewed \ {"revoked"} => WholeKit(j)
    /\ \A j \in Jobs, k \in Kinds : Offered(j, k) => ver[j][k].build \in seen

\* An available version has its object in the storage with the content of its
\* build, unless the storage itself lost it: neither a refused upload nor the
\* purge of an earlier deletion leaves a row that promises a file.
AvailableIsStored ==
    \A j \in Jobs, k \in Kinds :
        ver[j][k].storage = "available" => Stored(j, k) \/ Key(j, k) \in lost
=============================================================================
