------------------------------ MODULE JobLease ------------------------------
(***************************************************************************)
(* Durable processing jobs: the job row of PostgreSQL, the Celery messages *)
(* that carry it, the executions of tutor.process_lesson and the heartbeat *)
(* thread of each, the maintenance task that recovers expired leases and   *)
(* the operator's cancel and retry.                                        *)
(*                                                                         *)
(* A task is a Celery message and, once delivered, its execution: the id   *)
(* of the message is the lease owner.  Every transaction of the code is    *)
(* one action.  Time is what the code compares it with: a deadline lies    *)
(* ahead, has passed, or is NULL.                                          *)
(***************************************************************************)
EXTENDS Naturals, FiniteSets
LOCAL INSTANCE Functions

CONSTANTS
    Jobs,            \* rows of processing_jobs
    Tasks,           \* Celery task ids
    Kind,            \* Kind[j]: "materials" or "post_lesson"
    MaxAttempts,     \* workflow_max_attempts
    MaxManual,       \* bound: operator retries of one job
    Faults,          \* which environment faults may happen
    MaxFaults,       \* bound: how many of them happen in a behaviour
    None             \* SQL NULL as a lease owner

FaultNames == {"crash", "hard_limit", "heartbeat_error", "db_error", "duplicate"}

ASSUME JobsAssumption == IsFiniteSet(Jobs) /\ Jobs # {}
ASSUME TasksAssumption == None \notin Tasks
ASSUME KindAssumption == Kind \in [Jobs -> {"materials", "post_lesson"}]
ASSUME BoundAssumption ==
    MaxAttempts \in Nat \ {0} /\ MaxManual \in Nat /\ MaxFaults \in Nat
ASSUME FaultsAssumption == Faults \subseteq FaultNames

VARIABLES
    job,        \* job[j]: the columns of processing_jobs that control it
    task,       \* task[t]: message or execution with id t
    pending,    \* outbox events of job topics still to be dispatched
    sent,       \* outbox events already dispatched
    manuals,    \* manuals[j]: operator retries so far
    faults      \* faults[f]: environment faults of kind f so far

vars == <<job, task, pending, sent, manuals, faults>>

Statuses == {"queued", "running", "retrying", "completed", "failed",
             "canceled", "dead_letter"}
Terminal == {"completed", "canceled", "dead_letter"}
Active == {"queued", "running", "retrying"}
Queues == {"transcription", "materials"}
Deadlines == {"null", "ahead", "passed"}
Running == {"check", "start", "work", "fail", "exit"}  \* inside LeaseHeartbeat

JobRow == [status : Statuses, queue : Queues, owner : Tasks \cup {None},
           lease : Deadlines, next : Deadlines, cancel : BOOLEAN, attempt : Nat]

Event == [job : Jobs, queue : Queues,
          key : {"requested", "materials", "manual", "recovered"}, n : Nat]

Idle == [pc |-> "idle"]
Busy == [pc : {"message", "retry"} \cup Running, job : Jobs, phase : Queues,
         beating : BOOLEAN, canceled : BOOLEAN]
TaskState == {Idle} \cup Busy

TypeOK ==
    /\ job \in [Jobs -> JobRow]
    /\ task \in [Tasks -> TaskState]
    /\ pending \subseteq Event
    /\ sent \subseteq Event
    /\ manuals \in [Jobs -> Nat]
    /\ faults \in [FaultNames -> Nat]

FirstQueue(j) == IF Kind[j] = "post_lesson" THEN "transcription" ELSE "materials"

NewEvent(j, q, k, i) == [job |-> j, queue |-> q, key |-> k, n |-> i]

\* The unique dedup_key of the event is already in outbox_events.
KeyTaken(j, k, i) ==
    \E e \in pending \cup sent : e.job = j /\ e.key = k /\ e.n = i

\* A job as MaterialsService.enqueue or RecordingReadyService.accept commits it.
RequestKey(j) == IF Kind[j] = "post_lesson" THEN "requested" ELSE "materials"

Init ==
    /\ job = [j \in Jobs |->
                [status |-> "queued", queue |-> FirstQueue(j), owner |-> None,
                 lease |-> "null", next |-> "null", cancel |-> FALSE,
                 attempt |-> 0]]
    /\ task = [t \in Tasks |-> Idle]
    /\ pending = {NewEvent(j, FirstQueue(j), RequestKey(j), 0) : j \in Jobs}
    /\ sent = {}
    /\ manuals = [j \in Jobs |-> 0]
    /\ faults = [f \in FaultNames |-> 0]

-----------------------------------------------------------------------------
(* Transitions of a row *)

Unleased(r) == [r EXCEPT !.owner = None, !.lease = "null"]

Canceled(r) == [Unleased(r) EXCEPT !.status = "canceled", !.next = "null"]

DeadLetter(r) == [r EXCEPT !.status = "dead_letter"]

Happened == FoldFunction(+, 0, faults)

Fault(f) ==
    /\ f \in Faults /\ Happened < MaxFaults
    /\ faults' = [faults EXCEPT ![f] = @ + 1]

\* The execution ends: its message is acknowledged.
Ack(t) == task' = [task EXCEPT ![t] = Idle]

\* The execution goes on at pc.
Goto(t, pc) == task' = [task EXCEPT ![t].pc = pc]

\* It goes on at pc without its heartbeat thread.
Stopped(t, pc) == task' = [task EXCEPT ![t] = [@ EXCEPT !.pc = pc, !.beating = FALSE]]

At(t, pc) == task[t].pc = pc

-----------------------------------------------------------------------------
(* The outbox and the broker *)

\* OutboxService.dispatch_pending for a job topic: a message with a fresh id,
\* one no row names as its owner.  A dispatcher that stops between the enqueue
\* and the commit of "completed", and an operator's resend, publish it again.
Dispatch(t, e) ==
    /\ At(t, "idle")
    /\ \A j \in Jobs : job[j].owner # t
    /\ \/ /\ e \in pending
          /\ pending' = pending \ {e}
          /\ sent' = sent \cup {e}
          /\ UNCHANGED faults
       \/ /\ e \in pending \cup sent
          /\ Fault("duplicate")
          /\ UNCHANGED <<pending, sent>>
    /\ task' = [task EXCEPT ![t] =
                  [pc |-> "message", job |-> e.job, phase |-> e.queue,
                   beating |-> FALSE, canceled |-> FALSE]]
    /\ UNCHANGED <<job, manuals>>

-----------------------------------------------------------------------------
(* DurableJobService.claim, on entering LeaseHeartbeat.  A claim that must
   wait (retry_after) republishes the message under the same id and changes
   nothing. *)

\* Mutant: another worker's live lease is not respected.
ClaimWaitsNoLease(t) ==
    job[task[t].job].status = "retrying" /\ job[task[t].job].next = "ahead"

ClaimWaits(t) ==
    LET r == job[task[t].job] IN
    \/ r.status = "retrying" /\ r.next = "ahead"
    \/ r.owner \notin {None, t} /\ r.lease = "ahead"

\* process_lesson_task runs transcribe; otherwise MaterialsService.process.
Transcribes(t) ==
    Kind[task[t].job] = "post_lesson" /\ task[t].phase = "transcription"

\* Mutant: completed jobs are claimed like any other.
ClaimAnything(t) ==
    LET j == task[t].job IN
    /\ At(t, "message")
    /\ ~job[j].cancel
    /\ ~ClaimWaits(t)
    /\ job' = [job EXCEPT ![j].owner = t, ![j].lease = "ahead",
                          ![j].status = "running", ![j].attempt = @ + 1]
    /\ task' = [task EXCEPT ![t].pc = "start", ![t].beating = TRUE]
    /\ UNCHANGED <<pending, sent, manuals, faults>>

\* JobTerminal: the task returns.
ClaimTerminal(t) ==
    /\ At(t, "message")
    /\ job[task[t].job].status \in Terminal
    /\ Ack(t)
    /\ UNCHANGED <<job, pending, sent, manuals, faults>>

ClaimCanceled(t) ==
    LET j == task[t].job IN
    /\ At(t, "message")
    /\ job[j].status \notin Terminal
    /\ job[j].cancel
    /\ job' = [job EXCEPT ![j] = Canceled(@)]
    /\ Ack(t)
    /\ UNCHANGED <<pending, sent, manuals, faults>>

\* Mutant: the claim does not look at the cancellation flag.
ClaimThroughCancel(t) ==
    LET j == task[t].job IN
    /\ At(t, "message")
    /\ job[j].status \notin Terminal
    /\ ~ClaimWaits(t)
    /\ job' = [job EXCEPT ![j].owner = t, ![j].lease = "ahead",
                          ![j].status = "running", ![j].attempt = @ + 1]
    /\ task' = [task EXCEPT ![t].pc = "start", ![t].beating = TRUE]
    /\ UNCHANGED <<pending, sent, manuals, faults>>

Claim(t) ==
    LET j == task[t].job IN
    /\ At(t, "message")
    /\ job[j].status \notin Terminal
    /\ ~job[j].cancel
    /\ ~ClaimWaits(t)
    /\ job' = [job EXCEPT ![j].owner = t, ![j].lease = "ahead",
                          ![j].status = "running", ![j].attempt = @ + 1]
    /\ task' = [task EXCEPT ![t] =
          [@ EXCEPT !.pc = IF Transcribes(t) THEN "check" ELSE "start",
                    !.beating = TRUE, !.canceled = FALSE]]
    /\ UNCHANGED <<pending, sent, manuals, faults>>

-----------------------------------------------------------------------------
(* The body: PostLessonWorkflowService.transcribe or MaterialsService.process *)

\* transcribe reads the status first and returns on a completed job.
Check(t) ==
    /\ At(t, "check")
    /\ Goto(t, IF job[task[t].job].status = "completed" THEN "exit" ELSE "start")
    /\ UNCHANGED <<job, pending, sent, manuals, faults>>

\* MaterialsService.start: no look at the owner, the status or the flag.
Start(t) ==
    LET j == task[t].job IN
    /\ At(t, "start")
    /\ job' = [job EXCEPT ![j].status = "running", ![j].next = "null",
                          ![j].attempt = IF job[j].owner = None THEN @ + 1 ELSE @]
    /\ Goto(t, "work")
    /\ UNCHANGED <<pending, sent, manuals, faults>>

\* transcribe ends in _queue_materials.
QueueMaterials(t) ==
    LET j == task[t].job IN
    /\ At(t, "work")
    /\ Transcribes(t)
    /\ job' = [job EXCEPT ![j].status = "queued", ![j].queue = "materials",
                          ![j].next = "null"]
    /\ pending' = IF KeyTaken(j, "materials", 0) THEN pending
                  ELSE pending \cup {NewEvent(j, "materials", "materials", 0)}
    /\ Goto(t, "exit")
    /\ UNCHANGED <<sent, manuals, faults>>

\* process ends in _complete_job or in the transaction that saves the versions.
Complete(t) ==
    LET j == task[t].job IN
    /\ At(t, "work")
    /\ ~Transcribes(t)
    /\ job' = [job EXCEPT ![j].status = "completed", ![j].next = "null"]
    /\ Goto(t, "exit")
    /\ UNCHANGED <<pending, sent, manuals, faults>>

\* A provider error, the soft time limit, a storage error.
WorkFails(t) ==
    /\ At(t, "work")
    /\ Goto(t, "fail")
    /\ UNCHANGED <<job, pending, sent, manuals, faults>>

\* Mutant: the lease is given up before durability.retry.
FailReleasing(t) ==
    LET j == task[t].job IN
    /\ At(t, "fail")
    /\ job' = [job EXCEPT ![j] = [Unleased(@) EXCEPT !.status = "failed", !.next = "null"]]
    /\ Stopped(t, "retry")
    /\ UNCHANGED <<pending, sent, manuals, faults>>

\* MaterialsService.fail, then LeaseHeartbeat.__exit__ with an exception: the
\* thread is stopped and the lease kept for durability.retry.
Fail(t) ==
    LET j == task[t].job IN
    /\ At(t, "fail")
    /\ job' = [job EXCEPT ![j].status = "failed", ![j].next = "null"]
    /\ Stopped(t, "retry")
    /\ UNCHANGED <<pending, sent, manuals, faults>>

\* LeaseHeartbeat.__exit__ without one: JobCanceled if the thread saw it,
\* otherwise release.  Either way the task returns.
Exit(t) ==
    LET j == task[t].job IN
    /\ At(t, "exit")
    /\ job' = IF ~task[t].canceled /\ job[j].owner = t
              THEN [job EXCEPT ![j] = Unleased(@)] ELSE job
    /\ Ack(t)
    /\ UNCHANGED <<pending, sent, manuals, faults>>

-----------------------------------------------------------------------------
(* DurableJobService.retry: the task is republished under its own id when a
   delay is returned and acknowledged when None is. *)

RetryForeign(t) ==
    LET j == task[t].job IN
    /\ At(t, "retry")
    /\ job[j].owner \notin {None, t}
    /\ Goto(t, "message")
    /\ UNCHANGED <<job, pending, sent, manuals, faults>>

\* Mutant: off by one, the last attempt falls between retry and dead letter.
RetryEndsLate(t) ==
    LET j == task[t].job IN
    /\ At(t, "retry")
    /\ job[j].owner \in {None, t}
    /\ \/ /\ job[j].cancel
          /\ job' = [job EXCEPT ![j] = Canceled(@)]
       \/ /\ ~job[j].cancel
          /\ job[j].attempt > MaxAttempts
          /\ job' = [job EXCEPT ![j] = [DeadLetter(Unleased(@)) EXCEPT !.next = "null"]]
    /\ Ack(t)
    /\ UNCHANGED <<pending, sent, manuals, faults>>

RetryEnds(t) ==
    LET j == task[t].job IN
    /\ At(t, "retry")
    /\ job[j].owner \in {None, t}
    /\ \/ /\ job[j].cancel
          /\ job' = [job EXCEPT ![j] = Canceled(@)]
       \/ /\ ~job[j].cancel
          /\ job[j].attempt >= MaxAttempts
          /\ job' = [job EXCEPT ![j] = [DeadLetter(Unleased(@)) EXCEPT !.next = "null"]]
    /\ Ack(t)
    /\ UNCHANGED <<pending, sent, manuals, faults>>

\* Mutant: the lease is kept through the backoff.
RetryLaterLeased(t) ==
    LET j == task[t].job IN
    /\ At(t, "retry")
    /\ job[j].owner \in {None, t}
    /\ ~job[j].cancel
    /\ job[j].attempt < MaxAttempts
    /\ job' = [job EXCEPT ![j].status = "retrying", ![j].next = "ahead"]
    /\ Goto(t, "message")
    /\ UNCHANGED <<pending, sent, manuals, faults>>

RetryLater(t) ==
    LET j == task[t].job IN
    /\ At(t, "retry")
    /\ job[j].owner \in {None, t}
    /\ ~job[j].cancel
    /\ job[j].attempt < MaxAttempts
    /\ job' = [job EXCEPT ![j] =
                 [Unleased(@) EXCEPT !.status = "retrying", !.next = "ahead"]]
    /\ Goto(t, "message")
    /\ UNCHANGED <<pending, sent, manuals, faults>>

-----------------------------------------------------------------------------
(* The heartbeat thread.  One beat in time is a step that leaves the deadline
   ahead; what matters is what makes the thread stop. *)

Beat(t) ==
    LET j == task[t].job IN
    /\ task[t].pc \in Running
    /\ task[t].beating
    /\ \/ /\ job[j].owner # t                       \* False: the loop returns
          /\ task' = [task EXCEPT ![t].beating = FALSE]
          /\ UNCHANGED job
       \/ /\ job[j].owner = t /\ job[j].cancel      \* JobCanceled
          /\ job' = [job EXCEPT ![j] = Canceled(@)]
          /\ task' = [task EXCEPT ![t] =
                        [@ EXCEPT !.beating = FALSE, !.canceled = TRUE]]
       \/ /\ job[j].owner = t /\ ~job[j].cancel     \* the lease is extended
          /\ job' = [job EXCEPT ![j].lease = "ahead"]
          /\ UNCHANGED task
    /\ UNCHANGED <<pending, sent, manuals, faults>>

-----------------------------------------------------------------------------
(* Time.  A living thread beats three times per lease and durability.retry
   follows __exit__ at once, so a lease runs out only when its owner has
   neither. *)

Beating(t) == task[t].pc \in Running /\ task[t].beating

LeaseExpires(j) ==
    /\ job[j].lease = "ahead"
    /\ \A t \in Tasks : job[j].owner = t => ~Beating(t) /\ ~At(t, "retry")
    /\ job' = [job EXCEPT ![j].lease = "passed"]
    /\ UNCHANGED <<task, pending, sent, manuals, faults>>

RetryComesDue(j) ==
    /\ job[j].next = "ahead"
    /\ job' = [job EXCEPT ![j].next = "passed"]
    /\ UNCHANGED <<task, pending, sent, manuals, faults>>

-----------------------------------------------------------------------------
(* tutor.recover_expired_leases: one transaction for the whole batch, so one
   taken dedup key rolls every job of the batch back. *)

Expired ==
    {j \in Jobs : \/ job[j].status = "running" /\ job[j].lease = "passed"
                  \/ job[j].status = "retrying" /\ job[j].next = "passed"}

Requeued == {j \in Expired : ~job[j].cancel /\ job[j].attempt < MaxAttempts}

Recovered(j) ==
    LET r == Unleased(job[j]) IN
    IF r.cancel THEN Canceled(r)
    ELSE IF r.attempt >= MaxAttempts THEN DeadLetter(r)
    ELSE [r EXCEPT !.status = "queued"]

Recover ==
    /\ Expired # {}
    /\ \A j \in Requeued : ~KeyTaken(j, "recovered", job[j].attempt)
    /\ job' = [j \in Jobs |-> IF j \in Expired THEN Recovered(j) ELSE job[j]]
    /\ pending' = pending \cup
         {NewEvent(j, job[j].queue, "recovered", job[j].attempt) : j \in Requeued}
    /\ UNCHANGED <<task, sent, manuals, faults>>

-----------------------------------------------------------------------------
(* The operator *)

Cancel(j) ==
    /\ job[j].status \notin {"completed", "dead_letter"}
    /\ job' = [job EXCEPT ![j] =
                 LET r == [@ EXCEPT !.cancel = TRUE]
                 IN IF r.owner = None THEN Canceled(r) ELSE r]
    /\ UNCHANGED <<task, pending, sent, manuals, faults>>

\* Mutant: the retry is not put into the outbox.
RetryManuallySilent(j) ==
    /\ manuals[j] < MaxManual
    /\ job[j].status \in {"failed", "dead_letter", "canceled", "retrying"}
    /\ job' = [job EXCEPT ![j] =
                 [Unleased(@) EXCEPT !.status = "queued", !.next = "null",
                                     !.cancel = FALSE]]
    /\ manuals' = [manuals EXCEPT ![j] = @ + 1]
    /\ UNCHANGED <<task, pending, sent, faults>>

RetryManually(j) ==
    /\ manuals[j] < MaxManual
    /\ job[j].status \in {"failed", "dead_letter", "canceled", "retrying"}
    /\ job' = [job EXCEPT ![j] =
                 [Unleased(@) EXCEPT !.status = "queued", !.next = "null",
                                     !.cancel = FALSE]]
    /\ manuals' = [manuals EXCEPT ![j] = @ + 1]
    /\ pending' = pending \cup {NewEvent(j, job[j].queue, "manual", manuals[j])}
    /\ UNCHANGED <<task, sent, faults>>

-----------------------------------------------------------------------------
(* Faults *)

\* The worker process dies; reject_on_worker_lost returns the message.
Crash(t) ==
    /\ task[t].pc \in Running \cup {"retry"}
    /\ Fault("crash")
    /\ Stopped(t, "message")
    /\ UNCHANGED <<job, pending, sent, manuals>>

\* The hard time limit kills the execution and acknowledges the message.
HardLimit(t) ==
    /\ At(t, "work")
    /\ Fault("hard_limit")
    /\ Ack(t)
    /\ UNCHANGED <<job, pending, sent, manuals>>

\* LeaseHeartbeat._run logs any other exception and the thread ends.
BeatError(t) ==
    /\ Beating(t)
    /\ Fault("heartbeat_error")
    /\ task' = [task EXCEPT ![t].beating = FALSE]
    /\ UNCHANGED <<job, pending, sent, manuals>>

\* The database refuses a transaction of the execution.  Inside the task's try
\* (claim, the body, fail, release) the exception reaches durability.retry;
\* before it, and from durability.retry itself, it leaves the task and the
\* message is acknowledged.
DatabaseError(t) ==
    /\ Fault("db_error")
    /\ \/ /\ \/ task[t].pc \in {"message", "check", "start", "fail"}
             \/ At(t, "exit") /\ ~task[t].canceled
          /\ Stopped(t, "retry")
       \/ /\ task[t].pc \in {"message", "retry"}
          /\ Ack(t)
    /\ UNCHANGED <<job, pending, sent, manuals>>

-----------------------------------------------------------------------------
Worker(t) ==
    \/ ClaimTerminal(t) \/ ClaimCanceled(t) \/ Claim(t)
    \/ Check(t) \/ Start(t) \/ QueueMaterials(t) \/ Complete(t)
    \/ WorkFails(t) \/ Fail(t) \/ Exit(t)
    \/ RetryForeign(t) \/ RetryEnds(t) \/ RetryLater(t)

Environment(t) == Crash(t) \/ HardLimit(t) \/ BeatError(t) \/ DatabaseError(t)

Next ==
    \/ \E t \in Tasks : Worker(t) \/ Beat(t) \/ Environment(t)
    \/ \E t \in Tasks : \E e \in pending \cup sent : Dispatch(t, e)
    \/ \E j \in Jobs :
          LeaseExpires(j) \/ RetryComesDue(j) \/ Cancel(j) \/ RetryManually(j)
    \/ Recover

Spec == Init /\ [][Next]_vars

\* Workers run, threads beat, time passes, Beat schedules both maintenance
\* tasks and the broker delivers what it holds.
Fairness ==
    /\ \A t \in Tasks : WF_vars(Worker(t)) /\ WF_vars(Beat(t))
    /\ \A t \in Tasks : WF_vars(\E e \in pending : Dispatch(t, e))
    /\ \A j \in Jobs : WF_vars(LeaseExpires(j)) /\ WF_vars(RetryComesDue(j))
    /\ WF_vars(Recover)

FairSpec == Spec /\ Fairness

-----------------------------------------------------------------------------
Holding(t) == task[t].pc # "idle"

\* Something will still move an active job: an undispatched event, a message or
\* execution, or a deadline the recovery query selects it by.
Carried(j) ==
    \/ \E e \in pending : e.job = j
    \/ \E t \in Tasks : Holding(t) /\ task[t].job = j
    \/ job[j].status = "running" /\ job[j].lease # "null"
    \/ job[j].status = "retrying" /\ job[j].next # "null"

\* No active job is forgotten: the outbox, the broker, a worker or the recovery
\* query still leads to it (docs/slo.md: no durable job is ever lost).
NoOrphan == \A j \in Jobs : job[j].status \in Active => Carried(j)

\* A job that waits for its retry, was canceled or was dead-lettered is held by
\* no lease, so that an operator's retry and cancel act on it at once.
NoLeaseWhenParked ==
    \A j \in Jobs : job[j].status \in {"retrying", "canceled", "dead_letter"} =>
                      job[j].owner = None /\ job[j].lease = "null"

\* The heartbeat threads ran and the database answered.
Beaten == faults["heartbeat_error"] = 0 /\ faults["db_error"] = 0

\* As long as heartbeats get through and no operator retried it, a job is never in
\* two workers' hands at once, whatever is killed, redelivered or published twice.
OneBody ==
    Beaten =>
    \A t, u \in Tasks :
        (t # u /\ task[t].pc \in Running /\ task[u].pc \in Running
           /\ task[t].job = task[u].job) => manuals[task[t].job] > 0

\* As long as heartbeats get through and no operator intervened, an attempt's result
\* (completed, failed, a scheduled retry, a dead letter) is written over a held
\* lease only.
ResultsAreFenced ==
    [][\A j \in Jobs :
         (/\ Beaten /\ manuals[j] = 0 /\ ~job[j].cancel
          /\ job'[j].status # job[j].status
          /\ job'[j].status \in {"completed", "failed", "retrying", "dead_letter"})
         => job[j].owner # None]_vars

\* Completed work is never reopened, unless an operator retried the job or asked
\* for its cancellation (a beat between the commit of "completed" and the exit
\* still turns the row to "canceled") or heartbeats failed.
CompletedIsFinal ==
    [][\A j \in Jobs :
         job[j].status = "completed" /\ Beaten' /\ manuals[j] = 0 /\ ~job[j].cancel
           => job'[j].status = "completed"]_vars

\* The recovery transaction never fails on the dedup key of an earlier one, which
\* would hold back every job of its batch, as long as heartbeats get through and
\* no operator retried the job.
RecoveryUnblocked ==
    Beaten => \A j \in Requeued :
                manuals[j] = 0 => ~KeyTaken(j, "recovered", job[j].attempt)

\* No job is lost: something leads to every active one, and what leads to it by way
\* of recovery is not blocked.
NothingIsLost == NoOrphan /\ RecoveryUnblocked

\* Every job comes to rest as completed, canceled or dead-lettered.
Settles == \A j \in Jobs : <>[](job[j].status \in Terminal)

\* The row keeps the promise of a lease.
Abstract == INSTANCE Lease WITH
    holder <- [j \in Jobs |-> job[j].owner],
    deadline <- [j \in Jobs |-> job[j].lease],
    closed <- [j \in Jobs |-> job[j].cancel]

LeaseKept == Abstract!Spec
=============================================================================
