# Formal model of Tutor Assistant Web

TLA+ modules for the parts of Tutor Assistant Web whose correctness depends on the order in which
several actors act, or on many separate places in the code agreeing with each other. TLC checks
the state machines on small instances; TLAPS proves the theorems of the `*_proofs` modules for
every value of the constants.

Paths below are relative to `src/src/tutor_assistant_web/` unless they start with `docs/` or
`tests/` (which are under `src/`).

Contents: [inventory](#1-inventory) · [modules](#2-modules-and-the-code-they-stand-for) ·
[runs](#3-runs-bounds-fairness) · [proofs](#4-proofs) · [known
deviations](#5-known-deviations-of-the-code-from-its-documents) · [not
modelled](#6-what-is-not-modelled) · [what could come next](#7-what-could-come-next)

## 1. Inventory

The system is a web application over PostgreSQL, Celery workers with Redis as the broker, a
scheduler (Celery beat), S3-like artifact storage and several external providers (BigBlueButton,
speech recognition, a text model). It runs whole or as the *board profile*, which serves only
boards. The web processes and the workers share nothing but the database, the broker and the
storage, so every protocol below is a protocol of database transactions and messages.

### Durable jobs (`modules/automation/durability.py`, `worker.py`)

* State: the columns of `processing_jobs` (status, queue, lease owner and expiry, next retry,
  cancellation flag, attempt count), the Celery messages and executions, and one heartbeat thread
  per execution.
* Operations: `claim`, `heartbeat`, `release`, `retry`, `cancel`, `retry_manually`,
  `recover_expired`; the task bodies between them (`PostLessonWorkflowService.transcribe`,
  `MaterialsService.process`).
* Interaction: the outbox publishes the message; the body writes the job's status in transactions
  of its own, which look at neither owner nor flag; the next phase of a post-lesson job is queued
  through the outbox again.
* Hard: acks late and rejected on worker loss, so a message is delivered again; leases that lapse
  under a body that is still running; cancellation racing the body; recovery, redelivery and
  operator all reviving the same job.
* Correct when: nobody takes a live lease; a job has one body at a time; results are written under
  a lease; terminal states stay; no job is forgotten; every job comes to rest.

### Materials (`modules/materials/application.py`, `retention.py`, `modules/automation/application.py`)

* State: jobs of one lesson, its single transcript row, a generation run per job, a version row
  per run and kind of file, the stored objects.
* Operations: enqueue, the conference callback, transcription, `process` with its uploads, `fail`,
  `approve`, `request_revision`, `update_text`, soft deletion, expiry, purge, verification;
  publication and revocation.
* Hard: two recordings of a lesson share the transcript; enqueue looks for an active job without a
  lock; a failure is reported after its commit got through; an approval decides on what it read
  before.
* Correct when: a transcript is that of its recording; what is reviewed is one whole build, and
  what is published is what was reviewed; an available version has its object.

### Outbox and delivery of materials (`modules/automation/application.py`, `modules/portal/application.py`, `worker.py`)

* State: `outbox_events` (status, attempts, lease token, deadlines), delivery messages,
  `material_deliveries`, notifications, the run's publication status.
* Operations: `publish`, `revoke`, `dispatch_pending`, `enqueue_outbox_delivery`, `deliver_outbox`
  with `PortalEventHandler`, `_complete`, `_release_failed`, `resend_outbox`.
* Hard: at-least-once messages; two transactions for "handled" and "completed"; a claim that goes
  stale under a message still queued; publication and revocation handled by two workers in either
  order.
* Correct when: a completed event was handled; completed stays completed; every event ends
  completed or dead; a handled revocation leaves nothing available.

### Board journal (`modules/boards/application.py`, `models.py`, `contracts.py`)

* State: the document (revision, digest, latest snapshot, counters, access version, lifecycle),
  the journal of command batches, snapshot rows, their objects in storage.
* Operations: `append_commands`, `save_snapshot` (three transactions around an upload),
  `recovery`, `verify_integrity`, `archive`, `unarchive`, `soft_delete`, `expire_retention`,
  `purge_due`.
* Hard: batches arriving during an upload; two uploads of the same or of different revisions;
  damaged objects; quarantine decided on an old read; everything racing archiving and deletion.
* Correct when: the journal is an append-only log; a snapshot agrees with the journal; the
  compaction counters are exact; purge leaves nothing; evidence keeps its snapshot; the graph a
  paste brings with it is closed and its groups are apart.

### Board media and evidence (`modules/boards/media.py`, `evidence.py`)

* State: an asset row and an object per picture; one evidence row per revision with its preview
  and manifest; the requests that are between their transactions.
* Operations: reserve, upload, authorize again, finalize, compensate; references by command
  batches; `finalize`, `publish`, `revoke`, `read_artifact` of evidence; deletion and purge.
* Hard: a compensation that comes late, an upload that loses the acknowledgement of its commit,
  rights taken during an upload, overlapping finalizations that fail half way.
* Correct when: what a client was told is available stays so; no picture of an author who lost the
  right to write appears; the quota is kept; evidence has the files of its payload; a purge leaves
  nothing.

### Guest access and resumable uploads (`modules/boards/guest_access.py`, `standalone_access.py`, `command_upload.py`)

* State: the board's and the invitations' access versions, credentials and secrets, the cookies
  and access contexts clients hold, requests between their reads, uploads with their parts.
* Operations: create, update, revoke, rotate an invitation; archive, unarchive, delete, retention;
  join, context, mutation; start, put a part, finalize, abort, prune.
* Hard: invitation and board are read apart; the mutation happens in a transaction of its own; the
  quota is counted without a lock; an id is aborted and used again while it is read.
* Correct when: an old cookie is never as good as a new one; an epoch means the same for as long
  as it is current; a stale one is refused; what is staged lands whole and by its own actor.

### Live collaboration (`modules/boards/collaboration.py`)

* State: tickets, sockets with a bounded queue each, the roster of presence, the teacher's
  requests between commit and publication.
* Hard: queues that drop their oldest event; events made from a board read before the commit; a
  process that dies between commit and publication; a ticket consumed before the subscription.
  Correct when a socket that could hear of a revocation does and is closed, its right to write
  follows the rows, and nobody absent is listed.

### Practice (`modules/practice/`)

* State: one profile per student (revision, state), stored events under a unique key, a teacher's
  notes. Operations: `update_state`, `ingest_events`: read, compute, write, without a lock on the
  profile; the retention index and the teacher's brief computed from them.
* Correct when the revision counts the accepted updates, an accepted event is in the state and
  counts for one student, the brief omits nothing pressing, and a correct answer never lowers the
  index.

### Identity (`modules/identity/`)

* State: memberships, invitations, access to a student's card, under row locks; sessions, which
  only name a user and an organization. Operations: invite, revoke, accept, update a membership,
  grant; sign in and out, switch the organization.
* Hard: a request is authorized before its form is awaited; two admins demote each other; an
  acceptance meets a revocation or a newer invitation. Correct when an admin remains, nobody comes
  in without an invitation, an invitation opens once.

### Circuit breaker (`resilience.py`)

* State: failures, the time the circuit opened, the mark of a recovery probe, under a thread lock;
  the calls between `before_call` and their answer are not under it.
* Correct when a closed circuit is below its threshold, the probe mark never stays behind, and a
  circuit asks its provider again whatever was answered.

### HTTP routes and configuration (`modules/*/routes.py`, `modules/boards/standalone_routes.py`, `bootstrap/`, `config.py`)

* No state of their own, but many places that must agree: two access policies written apart, two
  applications whose routes overlap, an allowlist of paths, the check of tenant and role each
  handler makes by hand, lists of module names kept beside the registry of modules.
* Correct when nobody reaches a row of another tenant, student or tutor by any route; a session
  that was lost opens nothing; the two policies give one answer; a change of rights is announced;
  a production configuration runs on nothing local.

## 2. Modules and the code they stand for

| module | component | composed with |
| --- | --- | --- |
| `JobLease` | job row, messages, executions, heartbeats, recovery, operator | instantiates `Lease` |
| `Lease` | abstract: what a job lease promises | |
| `MaterialRun` | a lesson's jobs, transcript, runs, versions, files, review, publication | |
| `Delivery` | publication, outbox dispatcher, delivery worker, portal handler | instantiates `Portal` |
| `Portal` | abstract: what publication promises the recipient | |
| `BoardJournal` | document, journal, snapshots, storage, evidence row, lifecycle | instantiates `BoardLog` |
| `BoardLog` | abstract: an append-only log | |
| `BoardMedia` | pictures: reservation, upload, compensation, quota | |
| `BoardEvidence` | evidence files, publication, the end of the board | extends `BoardMedia` |
| `GuestAccess` | invitations, cookies, contexts and requests of guests; the teacher | |
| `CommandUpload` | batches sent whole or staged in parts | extends `GuestAccess` |
| `BoardSocket` | tickets, sockets, publication after the commit, presence | extends `GuestAccess` |
| `Identity` | memberships, invitations, access to a card under row locks | |
| `PracticeReport` | retention index, category, actions, summary, brief | |
| `PracticeSync` | practice profiles and events under overlapping requests | extends `PracticeReport` |
| `CircuitBreaker` | one provider's circuit under overlapping calls | |
| `BoardAccess` | the two access policies as functions | |
| `BoardRoutes` | every board route of both applications, the allowlist | extends `BoardAccess` |
| `WebRoutes` | every other route, sessions, sign-in, the portal's selections | extends `BoardAccess` |
| `Scheduling` | booking and the week | |
| `BoardContract` | envelopes and snapshots: versions, order, graphs | |
| `Settings` | registry of modules, validation, providers, profiles | |
| `MC*` | instances for TLC: model values, symmetry, kinds of jobs, sets of faults | extend the module named |
| `JobLease_proofs`, `Delivery_proofs`, `BoardJournal_proofs`, `Identity_proofs` | theorems and their lemmas | extend the module named |
| `Lesson_proofs` | the same for materials and practice | extends `MaterialRun`, `PracticeSync` |
| `BoardEvidence_proofs` | the same for pictures and evidence | extends `BoardEvidence` |
| `GuestAccess_proofs` | the same for guests, uploads and sockets | extends `CommandUpload`, `BoardSocket` |
| `Rules_proofs` | the same for what has no behaviour, and the circuit breaker | extends `BoardRoutes`, `WebRoutes`, `Scheduling`, `BoardContract`, `Settings`, `CircuitBreaker` |

An action is one transaction, or one step between two of them that others can come between. A
definition commented *Mutant* is a plausible wrong version of the one beside it: replaced by it,
the model violates the property it is there to test. It is no part of the specification.

### JobLease

`job[j]` is the row; `task[t]` is a Celery message or, once received, its execution, and `t` is
both the message id and the lease owner (`LeaseHeartbeat` takes the id of the request).
`task[t].pc` says where the execution stands:

    message -> (Claim) -> [check] -> start -> work -> exit -> (acknowledged)
                                        \-> fail -> retry -> message | acknowledged

`Claim*` is `DurableJobService.claim`, in its three outcomes; a fourth, `retry_after`, republishes
the message under the same id and so changes nothing. `Start`, `Complete`, `QueueMaterials`,
`Fail` are the body's own transactions, with no look at owner or flag. `Beat` is one turn of the
heartbeat thread, `Exit` is `LeaseHeartbeat.__exit__` with `release`, `Retry*` is
`durability.retry` as the task's `except` calls it. `Recover` is the whole batch of
`recover_expired`, in one transaction. Events of the job topics are a set of `pending` and of
`sent` dedup keys.

Abstractions:

* Deadlines are null, ahead or passed: the code only compares them with now. `LeaseExpires` may
  not happen while the owner's heartbeat thread lives or `durability.retry` is about to run; a
  thread beats three times per lease of 300 s, and `retry` follows `__exit__` at once. This is a
  timing assumption; a thread that dies (`heartbeat_error`) lifts it.
* One execution per message at a time: the broker's visibility timeout (10800 s) is longer than
  the hard time limit (7500 s).
* A new message gets an id that no row names as its owner; to keep the set of ids finite, the id
  of an acknowledged message is used again once no row names it. `None` is SQL NULL.
* The short ORM transactions that read and write one row are atomic; `claim`, `retry`, `cancel`
  and recovery take the row's lock.
* Recovery's `limit` is larger than the number of jobs. Transcripts, texts and the materials'
  content are in `MaterialRun`.
* An operator's retry does not set `attempt_count` back, and neither does the model.

Faults, each counted: `crash` (the process dies, the message is returned), `hard_limit` (the
execution is killed and its message acknowledged), `heartbeat_error` (the thread ends), `db_error`
(a transaction is refused), `duplicate` (a message is published a second time, as by a dispatcher
that stops before it commits).

### MaterialRun

One lesson with several jobs, each of a recording or of the button "process". `body[j]` is where
the job's one body stands (that there is one is `OneBody` of `JobLease`); `approving[a]` what an
approver has read; `ver[j][k]` the version row of a kind of file, and an object is known by job,
kind, number and build. A build is one call of the generator; what it writes is left out, and a
document engine is there. `seen` and `lost` are history: what an approver was shown, what the
storage lost. `troubles` counts lost workers, lost commit answers, lost objects and deletions.

### Delivery

`event[e]` is the outbox row; `due` and `stale` are what its comparisons with the clock return. A
dispatcher claims a batch (`ClaimBatch`), holds it, and enqueues each event; a worker receives a
message and goes through `handle`, `commit`, `complete` or `release`. `Load` and `DeliverCommit`
are the two ends of `_deliver`, which reads the run's status without a lock; `HandleRevoked` is
`_revoke`, under one. `Complete` and `Release` compare the token, `EnqueueFails` does not, as in
the code.

Abstractions: one student with one recipient; a unique key violated on a notification is among the
failures of `HandlerFails`; a dispatcher is through with its batch within the dispatch lease (300
s), workers are so only where `Prompt` is set.

`Portal` is what is left when messages, claims, dispatchers and workers are taken away: the tutor
decides, the recipient is shown and told, an event is open, completed or dead. A pending and a
dispatching row are both open (`Outcome`). Its action `TakeBack` is the one concession to the code:
after an operator's resend, a dispatcher whose claim is an earlier one may take back a completed
event, since `_release_failed` asks it for no token. The run has one generation run, so nothing is
replaced in it; the theorem is for any number.

### BoardJournal

`doc` is the document row, `batches` the journal, `snap[r]` the snapshot row of revision `r` (one
row per revision, a unique constraint), `store` the objects that are intact in storage. The object
key is made of revision, digest and maker, so an object is that record. `save_snapshot` is
`Reserve`, `Put`, `Finish`, with `GivesUp` wherever it can stop (on a `Put` that raises, the
object may be there or not), and `PutDamaged`, `QuarantineUpload` for storage that answers with
another size or digest. `Damage` is what storage does to an object later; those who find it are
`VerifyIntegrity` and `ReadDamaged` with `QuarantineRead`, two transactions apart.

Abstractions: digests are opaque; byte counters are left out (references to pictures are in
`BoardMedia`, graphs in `BoardContract`); a Lamport number of 0 is "none given"; a refused or
already answered request is a stutter (the check before the lock gives the same answer as the one
under it); purge comes after a grace of at least a day, when no request of that board is in
flight.

### BoardMedia and BoardEvidence

`asset[k]` is the row of an idempotency key, `object[k]` whether its object is stored, `req[q]`
where a request stands. `ReserveNew`, `ReserveAgain`, `AnswerAvailable` are `_reserve`; `Stored`,
`StoreFails`, `Reauthorize`, `Finalize`, `FinalizeRefused` the steps of `upload`; `DeleteQuietly`
and `Mark` the two halves of a compensation; `Die` the end of a process between any two of them;
`Reference` a command batch that shows the picture. `told` is history: what clients were answered
and what journals show. `evidence` is one `BoardEvidence` row, `file` what is stored under its two
keys (they do not depend on the request, so requests overwrite each other's files). The keys of
objects are made of the row's id; nothing else uses them. A purge meets no request, as above.

### GuestAccess, CommandUpload, BoardSocket

A request reads the invitation (`ReadInvitation`), then the board (`ReadDocument`), then the board
again (`Authorize`, `document_for`), and acts in a transaction of its own: those are the steps in
which the teacher may come between. `punctual` is history: whether the epoch a request was sent
with was current when it arrived. Times are abstracted: an expiry passes when it likes, `Times`
says which can. An actor opens a link once; whoever opens it again is another actor.

`CommandUpload` stages a content (an envelope with its SHA-256) in parts; an id is free again once
its upload is aborted or pruned, and `Start`, `Insert` are two steps because nothing is locked
between the count and the insert. `BoardSocket` has the teacher's requests in three steps
(`Manage`, `Commit`, `PublishEvents`), a socket from its ticket to `Finally`, and keeps in `lost` and
`stale` whether a socket missed an event since its ticket was checked or made. Only events about
access are queued; `Overflow` is the others crowding them out.

### Identity

`req[r]` carries the form, the rows it holds (`SELECT ... FOR UPDATE`) and what it has read. A
request that waits for a row another one holds may be aborted (`lock_timeout`), and all who wait
may: that is how two updates that wait for each other end. `own` says that the actor changes
itself.

### PracticeSync, PracticeReport, CircuitBreaker

`PracticeSync` splits each request into its read and its commit (READ COMMITTED, the profile
unlocked); the account's student may change between two requests. `PracticeReport` computes in
hundredths what the code computes in floats, rounds half up where Python rounds half to even, and
takes the logarithm of the interval as a monotone table. `CircuitBreaker` abstracts the clock to
"recent" and "elapsed" and stops counting failures at the threshold, above which the code does not
tell them apart.

### BoardAccess, BoardRoutes, WebRoutes, Scheduling, BoardContract, Settings

These have no behaviours: they are functions of the code written as operators, about which the
theorems speak. A policy is an operator that returns the status the client gets. A route is a
record: the application it belongs to, the checks its handler makes, what it changes (`does`), what
it tells sockets (`tells`) and audit. `Admitted` (of the boards) and `LetIn` (of the rest) say that
a request passes the checks; a request is a record of everything the checks look at (session,
cookie, row its path leads to, csrf token, epoch, what is wrong with its content), so a theorem
about all of `Requests` is one about every request. Here the database is one moment; what may come
between a check and the change is the matter of the state machines above. `BoardContract` has the
checks that relate parts of a document to each other (versions and kinds of commands, Lamport order,
objects, imports, groups); `Settings` the configurations that validation accepts and what they
build.

## 3. Runs, bounds, fairness

Every run finishes within about three minutes with two workers.

| run | shows | bounds |
| --- | --- | --- |
| `JobLeaseSafe` | `NoLeaseWhenParked`, `OneBody`, `LeaseKept`, `ResultsAreFenced`, `CompletedIsFinal` | one two-phase job, two message ids, two attempts, one operator retry, any one fault |
| `JobLeaseSettles` | `NothingIsLost`, `Settles` | one materials job, two ids, three attempts, one operator retry, two crashes or duplicates |
| `DeliverySafe` | `DeliverySound`, `PortalKept` | one run (two events), two dispatchers, two workers, two attempts, four claims, one resend, two faults |
| `DeliverySettles` | `RevokedIsWithdrawn`, `EventsSettle` | two dispatchers, one prompt worker, twelve claims, one resend, one fault |
| `Board` | `SnapshotsSound`, `CountersAgree`, `PurgeLeavesNothing`, `EvidenceKeepsSnapshot`, `JournalIsLog` | two batches, two digests, one maker, two uploads at once, Lamport numbers 0 and 1, one damaged object |
| `GuestBatches` | `EpochFixesRights`, `StaleEpochRefused`, `UploadsSound` | one invitation and guest, two requests, three upload ids of one part, two contents, quota 1, two access versions of the invitation, one of the board, retention |
| `BoardSocket` | `LiveCookieIsCurrent`, `RevocationHeard`, `FlagFollowsRights`, `PresenceSound`, `RevokedSocketsClose` | one invitation, guest and socket, two teacher's requests, queue of one, both expiries, access versions up to 2 |
| `BoardFiles` | `UploadsSound`, `QuotaKept`, `NoLateUpload`, `FilesSound` | two keys, two contents, two requests, quota 1, two evidence payloads |
| `MaterialRun` | `TranscriptIsOfItsRecording`, `ReviewedIsWhole`, `AvailableIsStored` | two jobs of a lesson, two kinds of file, one approver, two builds, one lost worker, answer or object |
| `Identity` | `AdminRemains`, `MembersWereInvited`, `NobodyIsStuck`, `InvitationOpensOnce` | an admin and two more users, two invitations, two requests, admins and students invited |
| `CircuitSafe` | `CircuitSound`, `AlwaysAsksAgain` | four calls at once, threshold 2 |
| `PracticeSerial` | `PracticeSound`, `RevisionFollows`, `PracticeHelps` | one request at a time, two students, two competencies, four answers in five batches, three events kept, revision 3, window 3, a brief of one |

Deadlock checking is off where the system really ends (every job at rest, every event settled, a
purged board, every invitation used); it is on for the circuit breaker, practice and identity,
which never do.

Why the bounds are enough. Jobs meet only in the batch of recovery, so one row shows every race on
a row; two message ids are the holder and its rival (the code never compares three). Two attempts
reach retry and dead letter, three reach a recovery after a retry. For uploads two revisions are
needed for "an older snapshot finishes last" and two digests for "the wrong document"; a third
upload only repeats the race of two. Two requests are an actor and the one that comes between; a
quota of one is full with the first. Two jobs are two recordings of a lesson, the fewest that
share a transcript. Three upload ids let one be aborted and used again while another is staged.
Four calls are two that were admitted before the circuit opened, the probe, and one refused. Most
of the safety properties are proved for every bound as well (section 4).

Symmetry is declared only in runs without liveness properties; where it is used, the sets permuted
are compared by equality only.

Fairness.

* `JobLease`: the worker's own steps, the beating threads, the passage of time, delivery by the
  broker and the scheduled `recover_expired` and `dispatch_outbox` (beat schedules both,
  `worker.py`) are weakly fair; cancel, retry, and every fault are not. `Settles` holds with
  `crash` and `duplicate` bounded by two: nothing promises that a job comes to rest if its worker
  is killed for ever.
* `Delivery`: dispatchers, workers and time are weakly fair; nobody has to publish, revoke or
  resend. `EventsSettle` needs `Prompt`: workers that take a message within the dispatch lease.
  Without it an event may be claimed again for ever, each claim invalidating the message in the
  queue. `MaxClaims` is 12 in that run, more than its faults and resend can use up, so the bound
  ends no behaviour early.
* `BoardSocket`: the event loop runs the tasks of a socket (`Relay`, `Subscribe`, `Finally`), and
  a handler that committed goes on to publish; a process that dies in between is an action of its
  own.
* `CircuitBreaker`: the clock goes on and admitted calls are answered (the clients have timeouts).

Conditions in properties. `OneBody`, `ResultsAreFenced`, `CompletedIsFinal` and
`RecoveryUnblocked` (half of `NothingIsLost`) are stated for `Beaten`: no heartbeat thread has
died and the database has refused nothing. Without it the code has no fencing (statuses are
written without a look at the owner); what happens then is described in section 5. That the latest
snapshot is known and that an available one is stored is claimed for undamaged storage.
`EvidenceKeepsSnapshot` excepts boards that retention deleted, `EpochFixesRights` the deletion by
retention. `RevocationHeard` and `RevokedSocketsClose` except the sockets that missed an event in
one of the ways named in `BoardSocket` (`lost`, `stale`). `RevisionFollows` needs requests one
after another, `RevokedIsWithdrawn` one worker.

## 4. Proofs

`tlapm` checks every leaf. Nothing is assumed but the named `ASSUME`s of the modules (sets of
requests, runs and payloads are finite or not empty, bounds are numbers) and what a theorem states.
Of the 40 properties the runs check, 35 are theorems. Each state machine has an inductive
invariant; what follows is what it adds to the types, and why.

### Jobs (`JobLease_proofs`: any jobs, tasks, attempts, faults)

* `TypeCorrect`, `ParkedJobsAreFree` (`NoLeaseWhenParked`), `JobLeaseImplementsLease`
  (`LeaseKept`): `IInv` adds `NoLeaseWhenParked` and `DeadlineHasOwner`. `RowSteps` says that every
  action changes a row in one of five ways (taken, extended, lapsed, cleared, kept), which decide
  both the invariant and the refinement.
* `OneBodyAtATime`, `ResultsStayFenced`, `CompletedStaysCompleted`: added are `Held` (whoever works
  on a job that is beaten, not retried and not canceled owns its lease, which lies ahead, and its
  thread beats), `Alone` (nobody else works on it, canceled or not: after a cancellation no claim
  succeeds, so nobody joins) and `RetryLeft`. `StatusSteps` lists the four reasons for which a
  status changes.
* `NoJobIsLost` (`NothingIsLost`): `AllLed`, a job not at rest has a `Carrier`, a pending event or a
  message or execution that is not yet through with it. Every action that ends one of these brings
  the job to rest or creates the next one. Recovery is never blocked because the keys it spent are
  of attempts that are over (`RecoveredOnce`). The theorem is for jobs of one phase, with any
  number of cancellations, operator's retries, crashes and duplicates, and without `hard_limit` and
  `db_error`: these acknowledge a message whose job they leave as it is, and section 5 has the jobs
  that are then lost, and the job of two phases lost behind a spent key.
* `UntouchedJobsAreLed` is what remains for jobs of both kinds: as long as nobody retries or cancels
  it and nothing was refused or cut off, an active job is led to. A job of two phases whose
  materials were announced is led by a message of that phase (`OnItsWay`), since one of the first
  phase would meet the spent key.

### Outbox and delivery (`Delivery_proofs`: any runs, dispatchers, workers, faults)

* `DeliveriesAreSound` (`DeliverySound`): every message bears a token that was minted and is about an
  event that exists (`MessagesInv`), and a worker about to complete a publication has its delivery
  in the table (`HandlerInv`).
* `DeliveryImplementsPortal` (`PortalKept`), and with it `CompletedEventsStay`: a completed row has
  no token, so no late message matches it. But a dispatcher that fails to enqueue an event releases
  it without a look at the token. `HoldInv` says why that is harmless until an operator resends
  something: what a dispatcher holds is its own claim, which nobody else holds and no message in
  flight bears. One lemma per group of actions (`DecisionsPromised`, `CommitsPromised`,
  `EndingsPromised`, `RefusalsPromised`, `ResendsPromised`, `ClaimsKeepOutcomes`) maps each step to
  one of `Portal` or to none; an event is shown only if it was decided because the messages in hand
  are about events that exist.
* `RevocationsHold` (`RevokedIsWithdrawn`) is stated for `OneWorker`. The code does not promise it
  for two (section 5): one worker may have read "published" before the other handles the
  revocation. `WithdrawnInv`: once a revocation is handled nobody is about to commit the delivery.

### Materials (`Lesson_proofs`: any jobs, kinds, approvers, builds, troubles)

* `TranscriptsAreTheirs`, `ReviewedKitsAreWhole`, `AvailableFilesAreStored`. `Safe` relates a run to
  the body at work on it: a run up for review has a whole kit of one build (`RunInv`); a kit is
  built only for a run that is not reviewed (`BuildInv`); files uploaded so far are of this build
  and committed but for the last (`UploadedInv`). `ApproveInv` is why an approval that reads
  without a lock is harmless: while it is under way no retry starts, and a body at the evidence
  finds the run done. Storage needs `PutInv`: an object is there before the commit that says so.

### Practice (`Lesson_proofs`: any students, answers, batches, plans, window, brief length)

* `BriefsAreSound` (two parts of `PracticeSound`) holds however requests overlap; `PracticeStaysSound`,
  `RevisionsFollow` and `PracticeNeverHurts` (`PracticeSound`, `RevisionFollows`, `PracticeHelps`) are
  stated for `OneRequest`, since the code does not promise them otherwise (section 5).
  `PracticeTyped` has the types, of what requests hold too; `Current` adds that what the only request
  has read is still there when it commits.
* The index is a quotient of sums over the latest answers. No induction over lists is needed: two
  ways of adding up that differ would differ at a least number of summands (`SomeAdds`, `TakeAny`,
  `TotalSplits`). A weighted sum is at most its weights (`WeightedBounded`), so an answer that is all
  success, put at the end, raises it more than the answers it pushes down or out lower it
  (`WeightedPushed`); that it is rounded once, after everything is added, keeps this true of the index
  (`RoundedGrows` while the window fills, `RoundedRises` when it slides).
* A sorted list is the elements by their rank (`Ranks`, `Listed`). That gives the events a merge keeps
  (`Joined`, `MergedEvents`), and that the skills in a brief are distinct and, if the brief is not full,
  all that press (`BriefIsSound`).

### Board journal (`BoardJournal_proofs`: any revisions, requests, makers, digests, damage)

* `TypeCorrect`, `CounterIsExact`, `PurgeIsComplete`, `JournalImplementsLog`, `EvidenceSurvives`,
  `SnapshotsStaySound`. `JournalInv`: revisions are exactly 1 to `doc.rev`, so counting the batches
  after one is arithmetic. `UploadInv`: every stored object, and every upload at work, has its row
  with the same digest and maker; this is why purge, which goes by rows, misses no object.
  `DigestInv` ties the digest of each row to the journal's, also before the first batch, when the
  document has none; `StorageInv` says that without damage an upload about to finish has its object
  stored and that the latest available row is the one the document names.

### Board files (`BoardEvidence_proofs`: any keys, contents, payloads, requests, quota)

* `UploadsAreSound`, `TheQuotaIsKept`, `NoUploadIsLate`, `FilesAreSound`. `Exclusive`: no two
  requests hold one key. `RowInv`: a held row is still uploading, but for the request that lost the
  answer to its commit, and what is to be finalized is stored. `KeyInv`: what is available, or was
  told to a client, is stored, and what is stored has its row, so a purge finds it. `LateInv`: an
  upload whose author lost the right to write has not asked again, and would be refused.
  `EvidenceInv`: who stores evidence stores that of the row, although requests overwrite each
  other's files.

### Guests, uploads, sockets (`GuestAccess_proofs`: any invitations, guests, requests, sockets)

* `CookiesAreCurrent`, `EpochsFixRights`, `StaleEpochsAreRefused`, `UploadsAreSound`, for
  `CommandUpload` over `GuestAccess`. `IInv`: an epoch handed out is no newer than the rows and, as
  long as it is the current one, stands for the rights it was made with (`Fixes`); the row a request
  has read is the invitation as it is or an older version (`ReadInv`); one not sent with the current
  epoch differs in a component that never comes back (`SentInv`). The quota is counted without a
  lock, so what holds is: active uploads of a guest and its requests about to insert one are fewer
  than `MaxActive` and the number of requests together.
* `SocketCookiesAreCurrent`, `RevocationsAreHeard`, `FlagsFollowRights`, `PresenceIsSound`, for
  `BoardSocket` over the same rows, for queues of every length. `LiveInv` shares `AccessInv` and adds,
  for a socket that missed nothing: its revocation is in its queue or about to be told (`Heard`),
  and its ticket's right, after the changes in its queue, ends in the right of the rows unless a
  change is still to be told (`EndsIn`, `Flagged`). The latter needs `OneAtATime`: as long as two
  requests of the teacher have not overlapped, the one at work knows the board as it is.

### Identity (`Identity_proofs`: any users, invitations, requests)

* `AnAdminRemains`, `OnlyTheInvitedAreMembers`, `InvitationsOpenOnce`. `IInv`: a row is locked by
  one request, and what a request goes by is in rows it holds; `Spares` is what the count of admins
  leaves true until the update is written.

### Rules (`Rules_proofs`: all requests, databases, documents, configurations)

* Routes of the boards: `PoliciesAgree` and `PoliciesConceal` (the two access policies give one
  answer, and do not tell a board that does not exist from one of another tenant),
  `NoOneReachesFurther`, `GuestsChangeOnlyTheirBoard`, `ParentsChangeNothing`,
  `RightsAreAnnounced` (a route that changes who may do what tells the sockets), `AppsAgree`,
  `AllowlistServes`.
* Other routes: `TenantsStayApart`, `LostSessionsOpenNothing`, `SigningInHolds`,
  `ForgedRequestsChangeNothing`, `RecipientsChangeTheirOwn`, `RecipientsKeepToTheirStudents`,
  `HomeOpens`, `EvidenceOpens`; of the calendar `BookingsStayApart`, `WeekShowsEveryLesson`.
* Of an accepted envelope `GroupsAgree`, `GroupsAreApart`, `NothingDangles`, and
  `BatchesStayInOrder`: neighbours in order and a first Lamport time above the last one of the batch
  before, which is all the code compares, put every command above every earlier one, so
  `BoardJournal` may give a batch one number. Of valid settings
  `FlagsAgree`, `NoCycle`, `ProductionIsReal`, `BoardsAreHeard`, `BoardEnvironmentIsRefused`.
* Circuit breaker, for any set of calls: `ClosedIsBelowThreshold`, `ProbesRun`,
  `CircuitStaysSound`.

### Only model-checked

* Liveness: `Settles`, `EventsSettle`, `RevokedSocketsClose`, `AlwaysAsksAgain`. And
  `NobodyIsStuck`, which says `ENABLED`. Neither is in reach of the prover.
* `NothingIsLost` beyond the hypotheses of `NoJobIsLost`, as said there.

## 5. Known deviations of the code from its documents

Each follows from actions of the models; the properties are stated so that these cases are left
out, under conditions named in their definitions, or excepted above. Dropping the condition makes
TLC show the case.

### Jobs, outbox, materials

* **A cancellation undone.** A job canceled by its heartbeat turns running, completed, failed or
  queued again when the body writes its next status (`modules/materials/application.py:481`;
  `docs/durable-workers.md:44` has the heartbeat observe the cancellation). In `JobLease` with no
  fault and no retry, `canceled` does not stay.
* **Completed, then canceled.** A cancellation accepted between the commit of completed and the
  execution's exit is carried out by the next heartbeat: the completed job reads canceled, though
  its materials exist.
* **An orphan.** A transcription canceled after an operator's retry re-queues its job behind a
  dedup key that was spent in the first round (`modules/automation/application.py:407`;
  `docs/slo.md:9`: no job is lost). `NoOrphan` fails for a two-phase job with three attempts, one
  operator retry and no fault. It also fails when the database refuses `durability.retry` its
  transaction, or when the hard time limit kills a body whose job was canceled and then restarted.
* **Attempts.** `claim` (`modules/automation/durability.py:98`) counts an attempt but does not
  compare it with the limit; only `retry` and recovery do. A job whose worker is lost each time is
  claimed from its redelivered message beyond `workflow_max_attempts`
  (`docs/durable-workers.md:17`).
* **Blocked recovery.** The dedup key of a recovery is the job and its attempt count, which an
  operator's retry does not reset and which a dead heartbeat does not raise. A second recovery at
  the same count meets the unique key and rolls the whole batch back, for every job in it, every
  time it is tried. `RecoveryUnblocked` states when this cannot happen.
* **Unfenced writes.** With a dead heartbeat thread the lease of a running body lapses, another
  execution takes the job, and both write results.
* **A failure not retried.** If the worker dies between `MaterialsService.fail`
  (`modules/materials/application.py:525`) and `durability.retry` and its message is gone, the job
  stays failed until an operator retries it. If `release` fails after completed
  (`modules/automation/durability.py:407`), `retry` meets a completed job.
* **A revocation undone.** A publication handled by one worker while another handles its
  revocation leaves the delivery available (`modules/portal/application.py:181`;
  `docs/portal-delivery.md:47`). `RevokedIsWithdrawn` fails with two workers.
* **Second notification.** The kind of a notification is part of its dedup key and is computed
  from the student's other deliveries when the event is handled. An event handled again after
  another run was delivered notifies the recipient a second time, as `material_replaced`
  (`docs/portal-delivery.md:49-50`).
* **Materials.** A lesson can get two jobs: enqueue looks for an active one without a lock. The
  jobs of a lesson share one transcript row, so materials of one recording may be built from the
  transcript of another. A retry generates from fresh evidence while its run keeps the bundle of
  the first attempt (`docs/materials-factory.md:5`), and re-uses version rows with a new key, so
  the former object is orphaned (`docs/materials-factory.md:37`). A stale approval overwrites
  "published"; a version deleted during its upload turns available again; `_fail_run` is
  unconditional.

### Boards

* **Retention.** `expire_retention` (`modules/boards/application.py:803-839`) deletes a board
  without raising `access_version` (`docs/architecture/B1_STANDALONE_PERSISTENCE.md:85-91`), tells
  no socket, and marks the snapshots evidence rests on deleted, which `soft_delete` spares.
* **Stale quarantine.** A reader quarantines a snapshot it read damaged although the object was
  uploaded again meanwhile (`modules/boards/application.py:1073`); the same happens to evidence.
* **Rights between two transactions.** A batch, an upload or an evidence change is authorized in
  one transaction and written in another, and a mutation is authorized before its body is read:
  rights taken in between are not seen. `StaleEpochRefused` says what does hold: the epoch was
  current when the request arrived.
* **Sockets.** Documents say that revocation closes the connection
  (`docs/board-production-plan.md:36`, `docs/architecture/ADR_STANDALONE_GUEST_ACCESS.md:61`,
  `docs/architecture/B2_STANDALONE_GUEST_ACCESS.md:121`). Not heard is a revocation committed
  between the check of the ticket and the subscription, one whose process dies before it
  publishes, and one a full queue drops, oldest first. Two handlers' events may arrive in the
  other order, the event of `update_invitation` is made from a stale copy of the document,
  `archive` and `unarchive` do not publish if their first read found the other state, and a ticket
  freezes the right to write. The old socket's end removes the presence of the client that
  reconnected.
* **Uploads of commands.** The quota is counted without a lock; `start` answers an id that has
  expired; a part with the wrong content cannot be replaced.
* **Pictures.** A process that dies leaves its row "uploading" for ever, within the quota. When
  the answer to the commit of `_finalize` is lost, the compensation deletes an available picture.
* **Evidence** (`docs/board-api.md:85-86`). The second transaction sets "available" whatever
  became of the row. Evidence of a deleted board stays readable and can neither be published nor
  revoked; a board with evidence is never purged.
* **Routes.** The board application's `save_snapshot` validates version 1.4 only
  (`modules/boards/standalone_routes.py:625`), while `routes.py` and `contracts.py` accept 1.5 and
  1.6 (`docs/board-api.md:118`). It has no media routes, though its allowlist and the documents
  name them, and the allowlist omits the command uploads it serves. `join_board` sets a guest's
  cookie for a signed-in member who cannot read the board, but `board_principal` prefers the
  member for ever after. A deleted board is answered 410 before any policy is asked. `GET
  /lessons/{id}/board` creates a board and `GET join/tutor` sets the lesson live. The final step
  of a staged upload writes no audit record, though a batch sent whole does.
* **Contracts.** Commands of 3D learning are refused in 1.3 with a message that demands 1.4
  (`modules/boards/contracts.py:79-89`), but accepted in 1.0 and 1.2. An object of an import need
  not be among the import's `boardObjectIds`.
* **Rate limits.** `/api/v1/boards` and `/api/v1/board-evidence/*` fall under no rule. The window
  is fixed in redis and sliding in memory.

### Configuration, identity, practice, the rest

* **The board profile.** `Dockerfile:88` and `compose.board.production.yml:10` set
  `APP_PROFILE=board`; `load_runtime_configuration` (`bootstrap/profile.py:41`) then passes
  `enabled_modules="boards"` to settings whose validator (`config.py:231-232`) refuses it
  (`docs/board-production-plan.md:11`; `tests/test_board_profile.py:25,34-37` builds the settings
  without that function). Set in `.env` only, the other composition with the allowlist starts.
  `BoardEnvironmentIsRefused` is this fact.
* **Settings.** An empty `APP_PROFILE` is refused although `resolve_app_profile` accepts it. A
  production configuration with boards only may be eager, which makes the collaboration broker
  local to a process, and may use the local template for materials. `workflow_retry_base` is not
  compared with its maximum.
* **Identity.** A request is authorized before its form is awaited and not checked again. Two
  concurrent `create_invitation` leave two open invitations; one may mark an accepted invitation
  revoked. A pending invitation re-activates a deactivated member. Two admins who demote each
  other wait for each other until one is aborted. Someone whose oldest membership is a student's
  or parent's cannot sign in to the board profile (`modules/identity/board_routes.py`).
* **Practice.** The revision is compared when the profile is read, not when it is written: with
  two requests at once both are accepted and one state is lost, and `RevisionFollows` fails
  (`modules/practice/application.py:111`; `tests/test_practice_sync.py:102-105` has the conflict
  refused in sequence). `ingest_events` writes the stale state back as a whole. Event ids are
  unique across students, so a device bound to another student has its batches refused for ever.
  The state keeps the last 200 events. An old correct answer that arrives late can lower the
  index.
* **Circuit breaker.** A call admitted before the circuit opened and answered during the recovery
  probe takes the probe's mark away, and a second probe is admitted beside the first
  (`docs/durable-workers.md:60-61` says one).
* **Scheduling.** `SchedulingService.create` looks for overlapping lessons without a lock.
  `workflow_status` and `job_status` ask only for a session. Switching the organization redirects
  by the former role.

## 6. What is not modelled

* Providers of conference, recognition, documents and text: clients of external services. What
  they answer is an input of the models (success, failure, damaged, lost); which of them is built
  is in `Settings`.
* Field-by-field validation generated from the JSON schemas (`shared/board_contracts/*_schema.py`,
  large generated files) and the geometry transformations: checks of single values.
* Backup, load, export and copy tools, deployment, migrations: no protocol of their own.
* Hashing of passwords and the counter of failed sign-ins, the BigBlueButton room, the dashboard's
  counts, mail, metrics and logging; byte counters of the journal; `LocalArtifactMigrator`, an
  offline tool that sets "available" without a lock.
* A build of materials without a document engine; an artifact's status is assumed to follow its
  run's.
* Configuration fixes what the models assume: `workflow_max_attempts` 6, job lease 300 s, outbox
  attempts 12, dispatch lease 300 s, outbox poll 10 s, purge grace at least one day, retention 365
  days.

## 7. What could come next

* An abstract specification of guest access, "the last decision", refined by `GuestAccess`.
* The jobs of two phases in `NoJobIsLost`: which of them are led to after an operator's retry
  depends on the phase whose key is spent.
* A composition of `JobLease` and `MaterialRun` in which the unfenced body writes the run as well.
