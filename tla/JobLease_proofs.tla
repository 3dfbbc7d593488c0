--------------------------- MODULE JobLease_proofs ---------------------------
(***************************************************************************)
(* What holds of JobLease for every set of jobs and tasks, every bound on  *)
(* attempts and operator retries, and every choice of faults.              *)
(***************************************************************************)
EXTENDS JobLease, TLAPS

(* The shape of the rows after each kind of update. *)
LEMMA RowTypes ==
    ASSUME NEW r \in JobRow
    PROVE  /\ Unleased(r) \in JobRow
           /\ Canceled(r) \in JobRow
           /\ DeadLetter(r) \in JobRow
           /\ Unleased(r).owner = None /\ Unleased(r).lease = "null"
           /\ Canceled(r).owner = None /\ Canceled(r).lease = "null"
           /\ Canceled(r).cancel = r.cancel /\ Unleased(r).cancel = r.cancel
           /\ Unleased(r).status = r.status
BY DEF JobRow, Unleased, Canceled, DeadLetter, Statuses, Deadlines

(* A task that is not idle is a message or an execution of some job. *)
LEMMA BusyTask ==
    ASSUME TypeOK, NEW t \in Tasks, ~At(t, "idle")
    PROVE  task[t] \in Busy /\ task[t].job \in Jobs
BY DEF TypeOK, TaskState, Busy, Idle, At

(* A busy task stays one when it moves or its thread starts or stops. *)
LEMMA TaskTypes ==
    ASSUME NEW x \in Busy, NEW pc \in {"message", "retry"} \cup Running,
           NEW b \in BOOLEAN, NEW c \in BOOLEAN
    PROVE  /\ [x EXCEPT !.pc = pc] \in Busy
           /\ [x EXCEPT !.beating = b] \in Busy
           /\ [x EXCEPT !.pc = pc, !.beating = b] \in Busy
           /\ [x EXCEPT !.beating = b, !.canceled = c] \in Busy
           /\ [x EXCEPT !.pc = pc, !.beating = b, !.canceled = c] \in Busy
BY DEF Busy

(* The steps that move one busy task keep every task well typed. *)
LEMMA MovedTask ==
    ASSUME TypeOK, NEW t \in Tasks, ~At(t, "idle"),
           NEW pc \in {"message", "retry"} \cup Running
    PROVE  /\ Goto(t, pc) => task' \in [Tasks -> TaskState]
           /\ Stopped(t, pc) => task' \in [Tasks -> TaskState]
<1>1. task[t] \in Busy
  BY BusyTask
<1>2. /\ [task[t] EXCEPT !.pc = pc] \in Busy
      /\ [task[t] EXCEPT !.pc = pc, !.beating = FALSE] \in Busy
  BY <1>1, TaskTypes
<1> QED
  BY <1>2 DEF Goto, Stopped, TypeOK, TaskState

(* A fault that happens is counted, and the counts stay numbers. *)
LEMMA FaultTypes ==
    ASSUME TypeOK, NEW f \in FaultNames, Fault(f)
    PROVE  faults' \in [FaultNames -> Nat]
BY DEF Fault, TypeOK

\* The rows, messages and faults start well typed.
LEMMA InitTypeOK == Init => TypeOK
<1> SUFFICES ASSUME Init PROVE TypeOK
  OBVIOUS
<1> USE DEF Init, TypeOK
<1>1. \A j \in Jobs : FirstQueue(j) \in Queues
  BY DEF FirstQueue, Queues
<1>2. job \in [Jobs -> JobRow]
  BY <1>1 DEF JobRow, Statuses, Deadlines
<1>3. task \in [Tasks -> TaskState]
  BY DEF TaskState
<1>4. pending \subseteq Event
  BY <1>1 DEF NewEvent, Event, RequestKey
<1> QED
  BY <1>2, <1>3, <1>4

(* One step per action; the row it writes stays a row, the task a task. *)
LEMMA NextTypeOK == TypeOK /\ [Next]_vars => TypeOK'
<1> SUFFICES ASSUME TypeOK, [Next]_vars PROVE TypeOK'
  OBVIOUS
<1>1. ASSUME NEW t \in Tasks, Worker(t) PROVE TypeOK'
  <2>0. ~At(t, "idle") => task[t].job \in Jobs
    BY BusyTask
  <2>1. CASE ClaimTerminal(t)
    BY <2>1 DEF ClaimTerminal, Ack, TypeOK, TaskState
  <2>2. CASE ClaimCanceled(t)
    BY <2>0, <2>2, RowTypes DEF ClaimCanceled, Ack, At, TypeOK, TaskState
  <2>3. CASE Claim(t)
    <3> DEFINE j == task[t].job
    <3>1. j \in Jobs /\ ~At(t, "idle")
      BY <2>0, <2>3 DEF Claim, At
    <3>2. job' \in [Jobs -> JobRow]
      <4>1. job[j] \in JobRow
        BY <3>1 DEF TypeOK
      <4>2. [job[j] EXCEPT !.owner = t, !.lease = "ahead", !.status = "running",
                           !.attempt = job[j].attempt + 1] \in JobRow
        <5>1. /\ job[j] \in [status : Statuses, queue : Queues, owner : Tasks \cup {None},
                            lease : Deadlines, next : Deadlines, cancel : BOOLEAN,
                            attempt : Nat]
              /\ t \in Tasks \cup {None} /\ job[j].attempt + 1 \in Nat
              /\ "ahead" \in Deadlines /\ "running" \in Statuses
          BY <4>1 DEF JobRow, Statuses, Deadlines
        <5> QED
          BY <5>1 DEF JobRow
      <4>3. job' = [job EXCEPT ![j] = [job[j] EXCEPT !.owner = t, !.lease = "ahead",
                      !.status = "running", !.attempt = job[j].attempt + 1]]
        BY <2>3, <3>1 DEF Claim, TypeOK
      <4> QED
        BY <4>2, <4>3 DEF TypeOK
    <3>3. task' \in [Tasks -> TaskState]
      <4> DEFINE pc == IF Transcribes(t) THEN "check" ELSE "start"
      <4>1. [task[t] EXCEPT !.pc = pc, !.beating = TRUE, !.canceled = FALSE] \in Busy
        BY <3>1, BusyTask, TaskTypes DEF Running
      <4> QED
        BY <2>3, <4>1 DEF Claim, TypeOK, TaskState
    <3> QED
      BY <2>3, <3>2, <3>3 DEF Claim, TypeOK
  <2>4. CASE Check(t)
    <3>1. task' \in [Tasks -> TaskState]
      BY <2>4, MovedTask DEF Check, At, Running
    <3> QED
      BY <2>4, <3>1 DEF Check, TypeOK
  <2>5. CASE Start(t)
    <3>1. task[t].job \in Jobs /\ ~At(t, "idle")
      BY <2>0, <2>5 DEF Start, At
    <3>2. job' \in [Jobs -> JobRow]
      <4> DEFINE j == task[t].job
                 n == IF job[j].owner = None THEN job[j].attempt + 1 ELSE job[j].attempt
      <4>1. /\ job[j] \in [status : Statuses, queue : Queues, owner : Tasks \cup {None},
                           lease : Deadlines, next : Deadlines, cancel : BOOLEAN, attempt : Nat]
            /\ n \in Nat /\ "running" \in Statuses /\ "null" \in Deadlines
        BY <3>1 DEF TypeOK, JobRow, Statuses, Deadlines
      <4>2. job' = [job EXCEPT ![j] = [job[j] EXCEPT !.status = "running", !.next = "null",
                                                     !.attempt = n]]
        BY <2>5, <3>1 DEF Start, TypeOK
      <4> HIDE DEF n
      <4>3. [job[j] EXCEPT !.status = "running", !.next = "null", !.attempt = n] \in JobRow
        BY <4>1 DEF JobRow
      <4> QED
        BY <4>2, <4>3 DEF TypeOK
    <3>3. task' \in [Tasks -> TaskState]
      BY <2>5, <3>1, MovedTask DEF Start, Running
    <3> QED
      BY <2>5, <3>2, <3>3 DEF Start, TypeOK
  <2>6. CASE QueueMaterials(t)
    <3>1. task[t].job \in Jobs /\ ~At(t, "idle")
      BY <2>0, <2>6 DEF QueueMaterials, At
    <3>2. job' \in [Jobs -> JobRow]
      BY <2>6, <3>1 DEF QueueMaterials, TypeOK, JobRow, Statuses, Deadlines, Queues
    <3>3. task' \in [Tasks -> TaskState]
      BY <2>6, <3>1, MovedTask DEF QueueMaterials, Running
    <3>4. pending' \subseteq Event
      BY <2>6, <3>1 DEF QueueMaterials, TypeOK, NewEvent, Event, Queues
    <3> QED
      BY <2>6, <3>2, <3>3, <3>4 DEF QueueMaterials, TypeOK
  <2>7. CASE Complete(t)
    <3>1. task[t].job \in Jobs /\ ~At(t, "idle")
      BY <2>0, <2>7 DEF Complete, At
    <3>2. job' \in [Jobs -> JobRow]
      BY <2>7, <3>1 DEF Complete, TypeOK, JobRow, Statuses, Deadlines
    <3>3. task' \in [Tasks -> TaskState]
      BY <2>7, <3>1, MovedTask DEF Complete, Running
    <3> QED
      BY <2>7, <3>2, <3>3 DEF Complete, TypeOK
  <2>8. CASE WorkFails(t)
    <3>1. task' \in [Tasks -> TaskState]
      BY <2>8, MovedTask DEF WorkFails, At, Running
    <3> QED
      BY <2>8, <3>1 DEF WorkFails, TypeOK
  <2>9. CASE Fail(t)
    <3>1. task[t].job \in Jobs /\ ~At(t, "idle")
      BY <2>0, <2>9 DEF Fail, At
    <3>2. job' \in [Jobs -> JobRow]
      <4>0. job[task[t].job] \in JobRow
        BY <3>1 DEF TypeOK
      <4>1. [job[task[t].job] EXCEPT !.status = "failed", !.next = "null"] \in JobRow
        BY <4>0 DEF JobRow, Statuses, Deadlines
      <4> QED
        BY <2>9, <3>1, <4>1 DEF Fail, TypeOK
    <3>3. task' \in [Tasks -> TaskState]
      BY <2>9, <3>1, MovedTask DEF Fail
    <3> QED
      BY <2>9, <3>2, <3>3 DEF Fail, TypeOK
  <2>10. CASE Exit(t)
    BY <2>0, <2>10, RowTypes DEF Exit, Ack, At, TypeOK, TaskState
  <2>11. CASE RetryForeign(t)
    <3>1. task' \in [Tasks -> TaskState]
      BY <2>11, MovedTask DEF RetryForeign, At
    <3> QED
      BY <2>11, <3>1 DEF RetryForeign, TypeOK
  <2>12. CASE RetryEnds(t)
    <3>1. task[t].job \in Jobs
      BY <2>0, <2>12 DEF RetryEnds, At
    <3>2. job' \in [Jobs -> JobRow]
      <4> DEFINE r == job[task[t].job]
      <4>1. r \in JobRow
        BY <3>1 DEF TypeOK
      <4>2. DeadLetter(Unleased(r)) \in JobRow
        BY <4>1, RowTypes
      <4>3. [DeadLetter(Unleased(r)) EXCEPT !.next = "null"] \in JobRow
        BY <4>2 DEF JobRow, Deadlines
      <4> QED
        BY <2>12, <3>1, <4>1, <4>3, RowTypes DEF RetryEnds, TypeOK
    <3> QED
      BY <2>12, <3>2 DEF RetryEnds, Ack, TypeOK, TaskState
  <2>13. CASE RetryLater(t)
    <3>1. task[t].job \in Jobs /\ ~At(t, "idle")
      BY <2>0, <2>13 DEF RetryLater, At
    <3>2. job' \in [Jobs -> JobRow]
      <4>1. Unleased(job[task[t].job]) \in JobRow
        BY <3>1, RowTypes DEF TypeOK
      <4>2. [Unleased(job[task[t].job]) EXCEPT !.status = "retrying",
                                               !.next = "ahead"] \in JobRow
        BY <4>1 DEF JobRow, Statuses, Deadlines
      <4> QED
        BY <2>13, <3>1, <4>2 DEF RetryLater, TypeOK
    <3>3. task' \in [Tasks -> TaskState]
      BY <2>13, <3>1, MovedTask DEF RetryLater
    <3> QED
      BY <2>13, <3>2, <3>3 DEF RetryLater, TypeOK
  <2> QED
    BY <1>1, <2>1, <2>2, <2>3, <2>4, <2>5, <2>6, <2>7, <2>8, <2>9, <2>10,
       <2>11, <2>12, <2>13 DEF Worker
<1>2. ASSUME NEW t \in Tasks, Beat(t) PROVE TypeOK'
  <2>1. task[t].job \in Jobs /\ ~At(t, "idle")
    BY <1>2, BusyTask DEF Beat, At, Running
  <2>2. job' \in [Jobs -> JobRow]
    BY <1>2, <2>1, RowTypes DEF Beat, TypeOK, JobRow, Deadlines
  <2>3. task' \in [Tasks -> TaskState]
    <3>1. /\ [task[t] EXCEPT !.beating = FALSE] \in Busy
          /\ [task[t] EXCEPT !.beating = FALSE, !.canceled = TRUE] \in Busy
      BY <2>1, BusyTask, TaskTypes
    <3> QED
      BY <1>2, <3>1 DEF Beat, TypeOK, TaskState
  <2> QED
    BY <1>2, <2>2, <2>3 DEF Beat, TypeOK
<1>3. ASSUME NEW t \in Tasks, Environment(t) PROVE TypeOK'
  <2>1. UNCHANGED <<job, pending, sent, manuals>>
    BY <1>3 DEF Environment, Crash, HardLimit, BeatError, DatabaseError
  <2>4. faults' \in [FaultNames -> Nat]
    BY <1>3, FaultTypes DEF Environment, Crash, HardLimit, BeatError, DatabaseError,
                            FaultNames
  <2>2. ~At(t, "idle")
    BY <1>3 DEF Environment, Crash, HardLimit, BeatError, DatabaseError, Beating,
                At, Running
  <2>3. task' \in [Tasks -> TaskState]
    <3>1. [task[t] EXCEPT !.beating = FALSE] \in Busy
      BY <2>2, BusyTask, TaskTypes
    <3>2. CASE Crash(t)
      BY <2>2, <3>2, MovedTask DEF Crash
    <3>3. CASE HardLimit(t)
      BY <3>3 DEF HardLimit, Ack, TypeOK, TaskState
    <3>4. CASE BeatError(t)
      BY <3>1, <3>4 DEF BeatError, TypeOK, TaskState
    <3>5. CASE DatabaseError(t)
      <4>1. Stopped(t, "retry") => task' \in [Tasks -> TaskState]
        BY <2>2, MovedTask
      <4>2. Ack(t) => task' \in [Tasks -> TaskState]
        BY DEF Ack, TypeOK, TaskState
      <4> QED
        BY <3>5, <4>1, <4>2 DEF DatabaseError
    <3> QED
      BY <1>3, <3>2, <3>3, <3>4, <3>5 DEF Environment
  <2> QED
    BY <2>1, <2>3, <2>4 DEF TypeOK
<1>4. ASSUME NEW t \in Tasks, NEW e \in pending \cup sent, Dispatch(t, e)
      PROVE  TypeOK'
  <2>1. e \in Event
    BY DEF TypeOK
  <2>2. task' \in [Tasks -> TaskState]
    BY <1>4, <2>1 DEF Dispatch, TypeOK, TaskState, Busy, Event
  <2>3. faults' \in [FaultNames -> Nat]
    BY <1>4, FaultTypes DEF Dispatch, TypeOK, FaultNames
  <2> QED
    BY <1>4, <2>1, <2>2, <2>3 DEF Dispatch, TypeOK
<1>5. ASSUME NEW j \in Jobs, LeaseExpires(j) \/ RetryComesDue(j) PROVE TypeOK'
  <2>1. job[j] \in JobRow
    BY DEF TypeOK
  <2>2. /\ [job[j] EXCEPT !.lease = "passed"] \in JobRow
        /\ [job[j] EXCEPT !.next = "passed"] \in JobRow
    BY <2>1 DEF JobRow, Deadlines
  <2>3. CASE LeaseExpires(j)
    BY <2>2, <2>3 DEF LeaseExpires, TypeOK
  <2>4. CASE RetryComesDue(j)
    BY <2>2, <2>4 DEF RetryComesDue, TypeOK
  <2> QED
    BY <1>5, <2>3, <2>4
<1>6. ASSUME NEW j \in Jobs, Cancel(j) PROVE TypeOK'
  <2>1. [job[j] EXCEPT !.cancel = TRUE] \in JobRow
    BY DEF TypeOK, JobRow
  <2> QED
    BY <1>6, <2>1, RowTypes DEF Cancel, TypeOK
<1>7. ASSUME NEW j \in Jobs, RetryManually(j) PROVE TypeOK'
  <2>1. job' \in [Jobs -> JobRow]
    <3>1. Unleased(job[j]) \in JobRow
      BY RowTypes DEF TypeOK
    <3>2. [Unleased(job[j]) EXCEPT !.status = "queued", !.next = "null", !.cancel = FALSE]
            \in JobRow
      BY <3>1 DEF JobRow, Statuses, Deadlines
    <3> QED
      BY <1>7, <3>2 DEF RetryManually, TypeOK
  <2>2. pending' \subseteq Event
    BY <1>7 DEF RetryManually, NewEvent, Event, TypeOK, JobRow
  <2> QED
    BY <1>7, <2>1, <2>2 DEF RetryManually, TypeOK
<1>8. ASSUME Recover PROVE TypeOK'
  <2>1. \A j \in Jobs : Recovered(j) \in JobRow
    <3> TAKE j \in Jobs
    <3>1. Unleased(job[j]) \in JobRow
      BY RowTypes DEF TypeOK
    <3>2. /\ Canceled(Unleased(job[j])) \in JobRow
          /\ DeadLetter(Unleased(job[j])) \in JobRow
      BY <3>1, RowTypes
    <3>3. [Unleased(job[j]) EXCEPT !.status = "queued"] \in JobRow
      BY <3>1 DEF JobRow, Statuses
    <3> QED
      BY <3>2, <3>3 DEF Recovered
  <2>2. job' \in [Jobs -> JobRow]
    BY <1>8, <2>1 DEF Recover, TypeOK
  <2>3. pending' \subseteq Event
    BY <1>8 DEF Recover, Requeued, Expired, NewEvent, Event, TypeOK, JobRow
  <2> QED
    BY <1>8, <2>2, <2>3 DEF Recover, TypeOK
<1>9. CASE UNCHANGED vars
  BY <1>9 DEF vars, TypeOK
<1> QED
  BY <1>1, <1>2, <1>3, <1>4, <1>5, <1>6, <1>7, <1>8, <1>9 DEF Next

(* Every state of every behaviour is well typed. *)
THEOREM TypeCorrect == Spec => []TypeOK
<1> QED
  BY InitTypeOK, NextTypeOK, PTL DEF Spec

-----------------------------------------------------------------------------
(* A deadline belongs to an owner.  This strengthens NoLeaseWhenParked, and it
   makes a claim past a deadline that is not ahead a takeover of a lapsed lease. *)

DeadlineHasOwner == \A j \in Jobs : job[j].owner = None <=> job[j].lease = "null"

IInv == TypeOK /\ NoLeaseWhenParked /\ DeadlineHasOwner

(* What one step may do to the lease of one row r, leaving it as q. *)

Taken(r, q) ==
    /\ \E t \in Tasks : q.owner = t /\ (r.owner \in {None, t} \/ r.lease = "passed")
    /\ q.lease = "ahead" /\ q.status = "running"
    /\ ~r.cancel /\ ~q.cancel

Extended(r, q) ==
    /\ r.owner # None /\ q.owner = r.owner /\ q.lease = "ahead"
    /\ q.status = r.status
    /\ ~r.cancel /\ ~q.cancel

Lapsed(r, q) ==
    /\ r.lease = "ahead" /\ q.lease = "passed"
    /\ q.owner = r.owner /\ q.status = r.status /\ q.cancel = r.cancel

Cleared(q) == q.owner = None /\ q.lease = "null"

Kept(r, q) ==
    /\ q.owner = r.owner /\ q.lease = r.lease
    /\ q.cancel = r.cancel \/ q.cancel
    /\ q.status \in {r.status, "running", "queued", "completed", "failed"}

RowStep(r, q) ==
    Taken(r, q) \/ Extended(r, q) \/ Lapsed(r, q) \/ Cleared(q) \/ Kept(r, q)

(* What the body of a task writes to a row leaves its lease alone. *)
LEMMA WorkKeeps ==
    ASSUME TypeOK, NEW t \in Tasks, NEW i \in Jobs,
           Start(t) \/ QueueMaterials(t) \/ Complete(t) \/ Fail(t)
    PROVE  Kept(job[i], job'[i])
<1>1. job[i] \in JobRow
  BY DEF TypeOK
<1>3. CASE Start(t)
  <2>1. job'[i] = job[i] \/ \E n : job'[i] = [job[i] EXCEPT !.status = "running",
                                                  !.next = "null", !.attempt = n]
    BY <1>3 DEF Start, TypeOK
  <2> QED
    BY <1>1, <2>1 DEF Kept, JobRow
<1>4. CASE QueueMaterials(t)
  <2>1. job'[i] = job[i] \/ job'[i] = [job[i] EXCEPT !.status = "queued",
                                          !.queue = "materials", !.next = "null"]
    BY <1>4 DEF QueueMaterials, TypeOK
  <2> QED
    BY <1>1, <2>1 DEF Kept, JobRow
<1>5. CASE Complete(t) \/ Fail(t)
  <2>1. job'[i] = job[i] \/ \E s \in {"completed", "failed"} :
                               job'[i] = [job[i] EXCEPT !.status = s, !.next = "null"]
    BY <1>5 DEF Complete, Fail, TypeOK
  <2> QED
    BY <1>1, <2>1 DEF Kept, JobRow
<1> QED
  BY <1>3, <1>4, <1>5

(* Every step of the system is such a step of every row. *)
LEMMA RowSteps ==
    ASSUME IInv, [Next]_vars, NEW i \in Jobs
    PROVE  RowStep(job[i], job'[i])
<1> USE DEF IInv
<1>0. job[i] \in JobRow /\ \A j \in Jobs : job[j] \in JobRow
  BY DEF TypeOK
<1>c. Cleared(Canceled(job[i]))
  BY <1>0, RowTypes DEF Cleared
<1>1. ASSUME job' = job PROVE RowStep(job[i], job'[i])
  BY <1>1 DEF RowStep, Kept
<1>2. ASSUME NEW t \in Tasks, Worker(t) PROVE RowStep(job[i], job'[i])
  <2>1. CASE ClaimTerminal(t) \/ Check(t) \/ WorkFails(t) \/ RetryForeign(t)
    BY <1>1, <2>1 DEF ClaimTerminal, Check, WorkFails, RetryForeign
  <2>2. CASE ClaimCanceled(t)
    BY <1>1, <1>c, <2>2 DEF ClaimCanceled, TypeOK, RowStep, Kept
  <2>3. CASE Claim(t)
    <3>1. CASE i = task[t].job
      <4>1. job[i].owner \in {None, t} \/ job[i].lease = "passed"
        BY <1>0, <2>3, <3>1 DEF Claim, ClaimWaits, DeadlineHasOwner, JobRow, Deadlines
      <4>2. /\ job'[i].owner = t /\ job'[i].lease = "ahead"
            /\ job'[i].status = "running"
            /\ ~job[i].cancel /\ ~job'[i].cancel
        BY <1>0, <2>3, <3>1 DEF Claim, TypeOK, JobRow
      <4> QED
        BY <4>1, <4>2 DEF RowStep, Taken
    <3>2. CASE i # task[t].job
      BY <2>3, <3>2 DEF Claim, TypeOK, RowStep, Kept
    <3> QED
      BY <3>1, <3>2
  <2>4. CASE Start(t) \/ QueueMaterials(t) \/ Complete(t) \/ Fail(t)
    BY <2>4, WorkKeeps DEF RowStep
  <2>5. CASE Exit(t)
    BY <1>0, <1>1, <2>5, RowTypes DEF Exit, TypeOK, RowStep, Cleared, Kept
  <2>6. CASE RetryEnds(t)
    <3>1. ASSUME NEW r \in JobRow
          PROVE  Cleared([DeadLetter(Unleased(r)) EXCEPT !.next = "null"])
      BY RowTypes DEF Cleared, DeadLetter, JobRow
    <3> QED
      <4>1. CASE job' = [job EXCEPT ![task[t].job] = Canceled(@)]
        BY <1>1, <1>c, <4>1 DEF TypeOK, RowStep, Kept
      <4>2. CASE job' = [job EXCEPT ![task[t].job] =
                           [DeadLetter(Unleased(@)) EXCEPT !.next = "null"]]
        BY <1>0, <1>1, <3>1, <4>2 DEF TypeOK, RowStep, Kept
      <4> QED
        BY <2>6, <4>1, <4>2 DEF RetryEnds
  <2>7. CASE RetryLater(t)
    <3>1. ASSUME NEW r \in JobRow
          PROVE  Cleared([Unleased(r) EXCEPT !.status = "retrying", !.next = "ahead"])
      BY RowTypes DEF Cleared, JobRow
    <3> QED
      BY <1>0, <2>7, <3>1 DEF RetryLater, TypeOK, RowStep, Kept
  <2> QED
    BY <1>2, <2>1, <2>2, <2>3, <2>4, <2>5, <2>6, <2>7 DEF Worker
<1>3. ASSUME NEW t \in Tasks, Beat(t) PROVE RowStep(job[i], job'[i])
  <2>1. CASE job' = job
    BY <1>1, <2>1
  <2>2. CASE job[task[t].job].cancel
    BY <1>0, <1>1, <1>3, <2>2, RowTypes DEF Beat, TypeOK, RowStep, Cleared, Kept
  <2>3. CASE /\ job[task[t].job].owner = t /\ ~job[task[t].job].cancel
             /\ job' = [job EXCEPT ![task[t].job].lease = "ahead"]
    <3>1. t # None
      BY TasksAssumption
    <3> QED
      BY <1>0, <2>3, <3>1 DEF TypeOK, JobRow, RowStep, Extended, Kept
  <2> QED
    BY <1>3, <2>1, <2>2, <2>3 DEF Beat
<1>4. ASSUME NEW t \in Tasks, Environment(t) PROVE RowStep(job[i], job'[i])
  BY <1>1, <1>4 DEF Environment, Crash, HardLimit, BeatError, DatabaseError
<1>5. ASSUME NEW t \in Tasks, NEW e \in pending \cup sent, Dispatch(t, e)
      PROVE  RowStep(job[i], job'[i])
  BY <1>1, <1>5 DEF Dispatch
<1>6. ASSUME NEW j \in Jobs, LeaseExpires(j) PROVE RowStep(job[i], job'[i])
  BY <1>0, <1>6 DEF LeaseExpires, TypeOK, JobRow, RowStep, Lapsed, Kept
<1>7. ASSUME NEW j \in Jobs, RetryComesDue(j) PROVE RowStep(job[i], job'[i])
  BY <1>0, <1>7 DEF RetryComesDue, TypeOK, JobRow, RowStep, Kept
<1>8. ASSUME NEW j \in Jobs, Cancel(j) PROVE RowStep(job[i], job'[i])
  <2>1. [job[j] EXCEPT !.cancel = TRUE] \in JobRow
    BY <1>0 DEF JobRow
  <2>2. /\ Cleared(Canceled([job[j] EXCEPT !.cancel = TRUE]))
        /\ Kept(job[j], [job[j] EXCEPT !.cancel = TRUE])
    BY <1>0, <2>1, RowTypes DEF Cleared, Kept, JobRow
  <2> QED
    BY <1>0, <1>8, <2>2 DEF Cancel, TypeOK, RowStep, Kept
<1>9. ASSUME NEW j \in Jobs, RetryManually(j) PROVE RowStep(job[i], job'[i])
  <2>1. Cleared([Unleased(job[j]) EXCEPT !.status = "queued", !.next = "null",
                                         !.cancel = FALSE])
    BY <1>0, RowTypes DEF Cleared, JobRow
  <2> QED
    BY <1>0, <1>9, <2>1 DEF RetryManually, TypeOK, RowStep, Kept
<1>10. ASSUME Recover PROVE RowStep(job[i], job'[i])
  <2>1. Cleared(Recovered(i))
    <3>1. Unleased(job[i]) \in JobRow
      BY <1>0, RowTypes
    <3>2. /\ Cleared(Canceled(Unleased(job[i])))
          /\ Cleared(DeadLetter(Unleased(job[i])))
          /\ Cleared([Unleased(job[i]) EXCEPT !.status = "queued"])
      BY <1>0, <3>1, RowTypes DEF Cleared, DeadLetter, JobRow
    <3> QED
      BY <3>2 DEF Recovered
  <2> QED
    BY <1>10, <2>1 DEF Recover, RowStep, Kept
<1>11. CASE UNCHANGED vars
  BY <1>1, <1>11 DEF vars
<1> QED
  BY <1>2, <1>3, <1>4, <1>5, <1>6, <1>7, <1>8, <1>9, <1>10, <1>11 DEF Next

\* New jobs satisfy the inductive invariant.
LEMMA InitInv == Init => IInv
BY InitTypeOK DEF Init, IInv, NoLeaseWhenParked, DeadlineHasOwner

\* Every step of workers, recovery and operator preserves it.
LEMMA NextInv == IInv /\ [Next]_vars => IInv'
<1> SUFFICES ASSUME IInv, [Next]_vars PROVE IInv'
  OBVIOUS
<1>1. TypeOK'
  BY NextTypeOK DEF IInv
<1>2. ASSUME NEW j \in Jobs
      PROVE  /\ job'[j].status \in {"retrying", "canceled", "dead_letter"}
                  => job'[j].owner = None /\ job'[j].lease = "null"
             /\ job'[j].owner = None <=> job'[j].lease = "null"
  BY <1>2, RowSteps, TasksAssumption
     DEF IInv, NoLeaseWhenParked, DeadlineHasOwner, RowStep, Taken, Extended,
         Lapsed, Cleared, Kept
<1> QED
  BY <1>1, <1>2 DEF IInv, NoLeaseWhenParked, DeadlineHasOwner

\* It holds in every reachable state.
LEMMA InvariantHolds == Spec => []IInv
BY InitInv, NextInv, PTL DEF Spec

(* A job that is waiting for its retry, canceled or dead-lettered is leased to
   nobody, whatever faults happen: claim, retry, heartbeat, cancel and recovery
   clear the lease in the transaction that parks the job. *)
THEOREM ParkedJobsAreFree == Spec => []NoLeaseWhenParked
BY InvariantHolds, PTL DEF IInv

(* The rows of a state, read as leases, are a state of Lease. *)
LEMMA InitAbstract == Init => Abstract!Init
BY DEF Init, Abstract!Init

(* A step of a row is a step of its lease, or leaves it alone. *)
LEMMA NextAbstract == IInv /\ IInv' /\ [Next]_vars => [Abstract!Next]_(Abstract!vars)
<1> SUFFICES ASSUME IInv, IInv', [Next]_vars PROVE Abstract!Next
  OBVIOUS
<1>1. /\ [j \in Jobs |-> job'[j].owner] \in [Jobs -> Tasks \cup {None}]
      /\ [j \in Jobs |-> job'[j].lease] \in [Jobs -> {"null", "ahead", "passed"}]
      /\ [j \in Jobs |-> job'[j].cancel] \in [Jobs -> BOOLEAN]
  BY DEF IInv, TypeOK, JobRow, Deadlines
<1>2. ASSUME NEW j \in Jobs PROVE Abstract!Step(j)
  <2>1. job[j].cancel \in BOOLEAN /\ job'[j].cancel \in BOOLEAN
    BY DEF IInv, TypeOK, JobRow
  <2> QED
    BY <2>1, RowSteps DEF RowStep, Taken, Extended, Lapsed, Cleared, Kept,
       Abstract!Step, Abstract!Acquire, Abstract!Renew, Abstract!Lapse,
       Abstract!Drop, Abstract!Close, Abstract!Reopen, Abstract!Stay,
       Abstract!Keep, Abstract!Free
<1> QED
  BY <1>1, <1>2 DEF Abstract!Next

(* The row implements the lease of module Lease: a live lease never passes from
   one worker to another, and a job whose cancellation is requested is acquired
   by nobody until an operator retries it. *)
THEOREM JobLeaseImplementsLease == Spec => LeaseKept
BY InvariantHolds, InitAbstract, NextAbstract, PTL DEF Spec, LeaseKept, Abstract!Spec

-----------------------------------------------------------------------------
(* As long as heartbeats get through, a job nobody retried or canceled is in the hands
   of its lease's owner: the one execution at work on it, or about to retry it. *)

Engaged(t, j) == task[t].pc \in Running \cup {"retry"} /\ task[t].job = j

Watched(j) == Beaten /\ manuals[j] = 0

HeldBy(t, j) ==
    /\ job[j].owner = t /\ job[j].lease = "ahead"
    /\ task[t].pc \in Running => task[t].beating /\ ~task[t].canceled
    /\ job[j].status = "completed" => task[t].pc = "exit"

Held ==
    \A j \in Jobs : Watched(j) /\ ~job[j].cancel =>
        \A t \in Tasks : Engaged(t, j) => HeldBy(t, j)

\* A scheduled retry is one the limit allows.
RetryLeft == \A j \in Jobs : job[j].status = "retrying" => job[j].attempt < MaxAttempts

\* Only an operator's request and retry touch the flag of a row.
LEMMA CancelKept ==
    ASSUME NEW r \in JobRow
    PROVE  /\ Unleased(r).cancel = r.cancel /\ Canceled(r).cancel = r.cancel
           /\ DeadLetter(r).cancel = r.cancel
BY DEF JobRow, Unleased, Canceled, DeadLetter

\* Counters of faults and of operator retries only grow.
LEMMA CountersGrow ==
    ASSUME TypeOK, [Next]_vars
    PROVE  /\ \A f \in FaultNames : faults'[f] >= faults[f]
           /\ \A j \in Jobs : manuals'[j] >= manuals[j]
<1>1. /\ \A f \in FaultNames : faults[f] \in Nat
      /\ \A j \in Jobs : manuals[j] \in Nat
  BY DEF TypeOK
<1>2. ASSUME NEW f \in FaultNames, Fault(f) PROVE \A g \in FaultNames : faults'[g] >= faults[g]
  BY <1>1, <1>2 DEF Fault, TypeOK
<1>3. ASSUME faults' = faults PROVE \A g \in FaultNames : faults'[g] >= faults[g]
  BY <1>1, <1>3
<1>4. ASSUME manuals' = manuals PROVE \A j \in Jobs : manuals'[j] >= manuals[j]
  BY <1>1, <1>4
<1>5. ASSUME NEW t \in Tasks, Worker(t) \/ Beat(t)
      PROVE  faults' = faults /\ manuals' = manuals
  BY <1>5 DEF Worker, ClaimTerminal, ClaimCanceled, Claim, Check, Start, QueueMaterials,
     Complete, WorkFails, Fail, Exit, RetryForeign, RetryEnds, RetryLater, Beat
<1>6. ASSUME NEW t \in Tasks, Environment(t)
      PROVE  manuals' = manuals /\ \A g \in FaultNames : faults'[g] >= faults[g]
  BY <1>2, <1>6 DEF Environment, Crash, HardLimit, BeatError, DatabaseError, FaultNames
<1>7. ASSUME NEW t \in Tasks, NEW e \in pending \cup sent, Dispatch(t, e)
      PROVE  manuals' = manuals /\ \A g \in FaultNames : faults'[g] >= faults[g]
  BY <1>2, <1>3, <1>7 DEF Dispatch, FaultNames
<1>8. ASSUME NEW j \in Jobs, LeaseExpires(j) \/ RetryComesDue(j) \/ Cancel(j)
      PROVE  faults' = faults /\ manuals' = manuals
  BY <1>8 DEF LeaseExpires, RetryComesDue, Cancel
<1>9. ASSUME NEW j \in Jobs, RetryManually(j)
      PROVE  faults' = faults /\ \A i \in Jobs : manuals'[i] >= manuals[i]
  BY <1>1, <1>9 DEF RetryManually, TypeOK
<1>10. Recover \/ UNCHANGED vars => faults' = faults /\ manuals' = manuals
  BY DEF Recover, vars
<1> QED
  BY <1>3, <1>4, <1>5, <1>6, <1>7, <1>8, <1>9, <1>10 DEF Next

\* Only an operator's retry withdraws a cancellation.
LEMMA CancelStays ==
    ASSUME TypeOK, [Next]_vars, NEW i \in Jobs, manuals'[i] = 0, job[i].cancel
    PROVE  job'[i].cancel
<1>0. \A j \in Jobs : job[j] \in JobRow
  BY DEF TypeOK
<1>1. CASE job' = job
  BY <1>1
<1>2. ASSUME NEW t \in Tasks, Worker(t) PROVE job'[i].cancel
  <2>1. CASE ClaimTerminal(t) \/ Check(t) \/ WorkFails(t) \/ RetryForeign(t)
    BY <1>1, <2>1 DEF ClaimTerminal, Check, WorkFails, RetryForeign
  <2>2. CASE ClaimCanceled(t)
    BY <1>0, <2>2, CancelKept DEF ClaimCanceled, TypeOK
  <2>3. CASE Claim(t)
    BY <1>0, <2>3 DEF Claim, TypeOK, JobRow
  <2>4. CASE Start(t) \/ QueueMaterials(t) \/ Complete(t) \/ Fail(t)
    BY <1>0, <2>4 DEF Start, QueueMaterials, Complete, Fail, TypeOK, JobRow
  <2>5. CASE Exit(t)
    BY <1>0, <2>5, CancelKept DEF Exit, TypeOK
  <2>6. CASE RetryEnds(t)
    <3> DEFINE r == job[task[t].job]
    <3>1. CASE i = task[t].job
      <4>1. job' = [job EXCEPT ![i] = Canceled(job[i])]
        BY <2>6, <3>1 DEF RetryEnds
      <4> QED
        BY <1>0, <4>1, CancelKept DEF TypeOK
    <3>2. CASE i # task[t].job
      BY <2>6, <3>2 DEF RetryEnds, TypeOK
    <3> QED
      BY <3>1, <3>2
  <2>7. CASE RetryLater(t)
    BY <1>0, <2>7 DEF RetryLater, TypeOK
  <2> QED
    BY <1>2, <2>1, <2>2, <2>3, <2>4, <2>5, <2>6, <2>7 DEF Worker
<1>3. ASSUME NEW t \in Tasks, Beat(t) PROVE job'[i].cancel
  BY <1>0, <1>3, CancelKept DEF Beat, TypeOK, JobRow
<1>4. ASSUME NEW t \in Tasks, Environment(t) PROVE job'[i].cancel
  BY <1>1, <1>4 DEF Environment, Crash, HardLimit, BeatError, DatabaseError
<1>5. ASSUME NEW t \in Tasks, NEW e \in pending \cup sent, Dispatch(t, e)
      PROVE  job'[i].cancel
  BY <1>1, <1>5 DEF Dispatch
<1>6. ASSUME NEW j \in Jobs, LeaseExpires(j) \/ RetryComesDue(j) PROVE job'[i].cancel
  BY <1>0, <1>6 DEF LeaseExpires, RetryComesDue, TypeOK, JobRow
<1>7. ASSUME NEW j \in Jobs, Cancel(j) PROVE job'[i].cancel
  <2>1. /\ [job[j] EXCEPT !.cancel = TRUE] \in JobRow
        /\ [job[j] EXCEPT !.cancel = TRUE].cancel
    BY <1>0 DEF JobRow
  <2> QED
    BY <1>0, <1>7, <2>1, CancelKept DEF Cancel, TypeOK
<1>8. ASSUME NEW j \in Jobs, RetryManually(j) PROVE job'[i].cancel
  <2>1. i # j
    BY <1>8 DEF RetryManually, TypeOK
  <2> QED
    BY <1>8, <2>1 DEF RetryManually, TypeOK
<1>9. ASSUME Recover PROVE job'[i].cancel
  <2>1. Unleased(job[i]) \in JobRow /\ Unleased(job[i]).cancel
    BY <1>0, RowTypes
  <2>2. Recovered(i).cancel
    BY <2>1, CancelKept DEF Recovered
  <2> QED
    BY <1>9, <2>2 DEF Recover
<1>10. CASE UNCHANGED vars
  BY <1>1, <1>10 DEF vars
<1> QED
  BY <1>2, <1>3, <1>4, <1>5, <1>6, <1>7, <1>8, <1>9, <1>10 DEF Next

\* A watched job was watched before the step, and nobody has canceled it.
LEMMA StillWatched ==
    ASSUME TypeOK, TypeOK', [Next]_vars, NEW i \in Jobs, Watched(i)', ~job'[i].cancel
    PROVE  Watched(i) /\ ~job[i].cancel /\ manuals'[i] = 0
<1>1. /\ faults["heartbeat_error"] \in Nat /\ faults["db_error"] \in Nat
      /\ manuals[i] \in Nat
      /\ "heartbeat_error" \in FaultNames /\ "db_error" \in FaultNames
  BY DEF TypeOK, FaultNames
<1>2. Watched(i)
  BY <1>1, CountersGrow DEF Watched, Beaten
<1>3. manuals'[i] = 0
  BY DEF Watched
<1> QED
  BY <1>2, <1>3, CancelStays DEF TypeOK, JobRow

\* A step of an execution leaves the rows of others alone, or its own row leased to it
\* unless it ends or puts the work off.
LEMMA WorkerRow ==
    ASSUME TypeOK, NEW t \in Tasks, Worker(t), NEW i \in Jobs, task[t].job # i
    PROVE  job'[i] = job[i]
BY DEF Worker, ClaimTerminal, ClaimCanceled, Claim, Check, Start, QueueMaterials,
   Complete, WorkFails, Fail, Exit, RetryForeign, RetryEnds, RetryLater, TypeOK

\* A step of one task leaves the others as they are.
LEMMA OtherTasks ==
    ASSUME TypeOK, NEW t \in Tasks, Worker(t) \/ Beat(t) \/ Environment(t),
           NEW u \in Tasks, u # t
    PROVE  task'[u] = task[u]
BY DEF Worker, ClaimTerminal, ClaimCanceled, Claim, Check, Start, QueueMaterials,
   Complete, WorkFails, Fail, Exit, RetryForeign, RetryEnds, RetryLater, Beat,
   Environment, Crash, HardLimit, BeatError, DatabaseError, Ack, Goto, Stopped, TypeOK

\* An execution that moves stays on its job.
LEMMA MoveStaysOnJob ==
    ASSUME TypeOK, NEW t \in Tasks, task[t] \in Busy, NEW pc,
           Goto(t, pc) \/ Stopped(t, pc)
    PROVE  task'[t].job = task[t].job
<1>1. CASE Goto(t, pc)
  BY <1>1 DEF Goto, TypeOK, Busy
<1>2. CASE Stopped(t, pc)
  <2>1. task'[t] = [task[t] EXCEPT !.pc = pc, !.beating = FALSE]
    BY <1>2 DEF Stopped, TypeOK
  <2> QED
    BY <2>1 DEF Busy
<1> QED
  BY <1>1, <1>2

\* The steps of an execution keep the one at work on a job its lease's owner.
LEMMA WorkerHeld ==
    ASSUME IInv, Held, NEW i \in Jobs, Watched(i), ~job[i].cancel,
           NEW t \in Tasks, Worker(t), NEW u \in Tasks, Engaged(u, i)'
    PROVE  HeldBy(u, i)'
<1> USE DEF IInv
<1>0. job[i] \in JobRow /\ t # None /\ u # None
  BY TasksAssumption DEF TypeOK
<1>1. \A v \in Tasks : Engaged(v, i) => HeldBy(v, i)
  BY DEF Held
<1>2. CASE u # t
  <2>1. task'[u] = task[u]
    BY <1>2, OtherTasks
  <2>2. Engaged(u, i) /\ HeldBy(u, i)
    BY <1>1, <2>1 DEF Engaged
  <2>3. job'[i] = job[i]
    <3>1. CASE task[t].job # i
      BY <3>1, WorkerRow
    <3>2. CASE task[t].job = i
      <4>1. ~Engaged(t, i)
        BY <1>1, <1>2, <2>2 DEF HeldBy
      <4>2. task[t].pc \notin Running \cup {"retry"}
        BY <3>2, <4>1 DEF Engaged
      <4>3. ClaimTerminal(t) \/ ClaimCanceled(t) \/ Claim(t)
        BY <4>2 DEF Worker, Check, Start, QueueMaterials, Complete, WorkFails, Fail,
                    Exit, RetryForeign, RetryEnds, RetryLater, At, Running
      <4>4. ~ClaimCanceled(t)
        BY <3>2 DEF ClaimCanceled
      <4>5. ~Claim(t)
        BY <1>0, <1>2, <2>2, <3>2 DEF Claim, ClaimWaits, HeldBy
      <4> QED
        BY <4>3, <4>4, <4>5 DEF ClaimTerminal
    <3> QED
      BY <3>1, <3>2
  <2> QED
    BY <2>1, <2>2, <2>3 DEF HeldBy
<1>3. CASE u = t
  <2>0. task[t] \in TaskState /\ task'[t].job = i /\ task'[t].pc \in Running \cup {"retry"}
    BY <1>3 DEF TypeOK, Engaged
  <2>1. CASE Claim(t)
    <3>1. /\ task[t] \in Busy /\ task[t].job = i
          /\ task'[t].beating /\ ~task'[t].canceled
      BY <2>0, <2>1, BusyTask DEF Claim, At, TypeOK, Busy
    <3> QED
      BY <1>0, <1>3, <2>1, <3>1 DEF Claim, TypeOK, JobRow, HeldBy
  <2>2. CASE ClaimTerminal(t) \/ ClaimCanceled(t) \/ Exit(t) \/ RetryEnds(t)
    <3>1. task'[t] = Idle
      BY <2>2 DEF ClaimTerminal, ClaimCanceled, Exit, RetryEnds, Ack, TypeOK
    <3> QED
      BY <2>0, <3>1 DEF Idle, Running
  <2>3. CASE RetryForeign(t) \/ RetryLater(t)
    <3>1. task[t] \in Busy
      BY <2>3, BusyTask DEF RetryForeign, RetryLater, At
    <3>2. task'[t].pc = "message"
      BY <2>3, <3>1 DEF RetryForeign, RetryLater, Goto, TypeOK, Busy
    <3> QED
      BY <2>0, <3>2 DEF Running
  <2>4. CASE Check(t) \/ Start(t) \/ QueueMaterials(t) \/ Complete(t) \/ WorkFails(t)
             \/ Fail(t)
    <3>1. task[t] \in Busy /\ task[t].pc \in {"check", "start", "work", "fail"}
      BY <2>4, BusyTask DEF Check, Start, QueueMaterials, Complete, WorkFails, Fail, At
    <3>2. task'[t].job = task[t].job
      <4>1. Goto(t, "exit") \/ Goto(t, "start") \/ Goto(t, "work") \/ Goto(t, "fail")
              \/ Stopped(t, "retry")
        BY <2>4 DEF Check, Start, QueueMaterials, Complete, WorkFails, Fail
      <4> QED
        BY <3>1, <4>1, MoveStaysOnJob
    <3>3. Engaged(t, i) /\ HeldBy(t, i)
      BY <1>1, <2>0, <3>1, <3>2 DEF Engaged, Running
    <3>4. job'[i].owner = t /\ job'[i].lease = "ahead"
      <4>1. job[i].owner = t /\ job[i].lease = "ahead"
        BY <3>3 DEF HeldBy
      <4>2. CASE Check(t) \/ WorkFails(t)
        BY <4>1, <4>2 DEF Check, WorkFails
      <4>3. CASE Start(t) \/ QueueMaterials(t) \/ Complete(t) \/ Fail(t)
        <5>1. Kept(job[i], job'[i])
          BY <4>3, WorkKeeps
        <5> QED
          BY <4>1, <5>1 DEF Kept
      <4> QED
        BY <2>4, <4>2, <4>3
    <3>5. task'[t].pc \in Running => task'[t].beating /\ ~task'[t].canceled
      <4>1. CASE Fail(t)
        <5>1. task'[t].pc = "retry"
          BY <3>1, <4>1 DEF Fail, Stopped, TypeOK, Busy
        <5> QED
          BY <5>1 DEF Running
      <4>2. CASE ~Fail(t)
        <5>1. task'[t].beating = task[t].beating /\ task'[t].canceled = task[t].canceled
          BY <2>4, <3>1, <4>2 DEF Check, Start, QueueMaterials, Complete, WorkFails,
                                  Goto, TypeOK, Busy
        <5>2. task[t].beating /\ ~task[t].canceled
          BY <3>1, <3>3 DEF HeldBy, Running
        <5> QED
          BY <5>1, <5>2
      <4> QED
        BY <4>1, <4>2
    <3>6. job'[i].status = "completed" => task'[t].pc = "exit"
      <4>1. CASE Check(t)
        BY <3>1, <3>3, <4>1 DEF Check, Goto, HeldBy, Engaged, TypeOK, Busy
      <4>2. CASE Start(t) \/ Fail(t) \/ QueueMaterials(t)
        BY <1>0, <3>3, <4>2 DEF Start, Fail, QueueMaterials, Engaged, TypeOK, JobRow
      <4>3. CASE Complete(t)
        BY <3>1, <4>3 DEF Complete, Goto, TypeOK, Busy
      <4>4. CASE WorkFails(t)
        BY <3>1, <3>3, <4>4 DEF WorkFails, HeldBy, At
      <4> QED
        BY <2>4, <4>1, <4>2, <4>3, <4>4
    <3> QED
      BY <1>3, <3>4, <3>5, <3>6 DEF HeldBy
  <2> QED
    BY <2>1, <2>2, <2>3, <2>4 DEF Worker
<1> QED
  BY <1>2, <1>3

\* So do all steps.
LEMMA NextHeld ==
    ASSUME IInv, IInv', Held, [Next]_vars
    PROVE  Held'
<1> USE DEF IInv
<1> SUFFICES ASSUME NEW i \in Jobs, Watched(i)', ~job'[i].cancel,
                    NEW u \in Tasks, Engaged(u, i)'
             PROVE  HeldBy(u, i)'
  BY DEF Held
<1>0. Watched(i) /\ ~job[i].cancel /\ manuals'[i] = 0
  BY StillWatched
<1>1. \A v \in Tasks : Engaged(v, i) => HeldBy(v, i)
  BY <1>0 DEF Held
<1>2. job[i] \in JobRow /\ u # None
  BY TasksAssumption DEF TypeOK
<1>3. ASSUME task' = task, job'[i].owner = job[i].owner, job'[i].lease = job[i].lease,
             job'[i].status = job[i].status
      PROVE  HeldBy(u, i)'
  BY <1>1, <1>3 DEF Engaged, HeldBy
<1>4. ASSUME NEW t \in Tasks, Worker(t) PROVE HeldBy(u, i)'
  BY <1>0, <1>4, WorkerHeld
<1>5. ASSUME NEW t \in Tasks, Beat(t) PROVE HeldBy(u, i)'
  <2> DEFINE j == task[t].job
  <2>1. task[t] \in Busy /\ j \in Jobs /\ task[t].pc \in Running
    BY <1>5, BusyTask DEF Beat, At, Running
  <2>2. task'[t].job = j /\ task'[t].pc = task[t].pc
    <3>1. CASE task' = task
      BY <3>1
    <3>2. CASE task' = [task EXCEPT ![t].beating = FALSE]
      BY <2>1, <3>2 DEF TypeOK, Busy
    <3>3. CASE task' = [task EXCEPT ![t] = [@ EXCEPT !.beating = FALSE, !.canceled = TRUE]]
      <4>1. task'[t] = [task[t] EXCEPT !.beating = FALSE, !.canceled = TRUE]
        BY <3>3 DEF TypeOK
      <4> QED
        BY <2>1, <4>1 DEF Busy
    <3> QED
      BY <1>5, <3>1, <3>2, <3>3 DEF Beat
  <2>3. CASE j = i
    <3>1. Engaged(t, i) /\ HeldBy(t, i)
      BY <1>1, <2>1, <2>3 DEF Engaged
    <3>2. task' = task /\ job' = [job EXCEPT ![i].lease = "ahead"]
      BY <1>0, <1>5, <2>3, <3>1 DEF Beat, HeldBy
    <3>3. /\ job'[i].owner = job[i].owner /\ job'[i].lease = "ahead"
          /\ job'[i].status = job[i].status
      BY <1>2, <3>2 DEF TypeOK, JobRow
    <3> QED
      BY <1>3, <3>1, <3>2, <3>3 DEF HeldBy
  <2>4. CASE j # i
    <3>1. u # t
      BY <2>2, <2>4 DEF Engaged
    <3>2. task'[u] = task[u]
      BY <1>5, <3>1, OtherTasks
    <3>3. job'[i] = job[i]
      BY <1>5, <2>4 DEF Beat, TypeOK
    <3> QED
      BY <1>1, <3>2, <3>3 DEF Engaged, HeldBy
  <2> QED
    BY <2>3, <2>4
<1>6. ASSUME NEW t \in Tasks, Environment(t) PROVE HeldBy(u, i)'
  <2>0. job' = job /\ \A f \in FaultNames : faults[f] \in Nat
    BY <1>6 DEF Environment, Crash, HardLimit, BeatError, DatabaseError, TypeOK
  <2>1. ~BeatError(t) /\ ~DatabaseError(t)
    <3>1. Watched(i)' => faults'["heartbeat_error"] = 0 /\ faults'["db_error"] = 0
      BY DEF Watched, Beaten
    <3> QED
      BY <2>0, <3>1 DEF BeatError, DatabaseError, Fault, TypeOK, FaultNames
  <2>2. Crash(t) \/ HardLimit(t)
    BY <1>6, <2>1 DEF Environment
  <2>3. task'[t].pc \in {"message", "idle"}
    <3>1. CASE Crash(t)
      <4>1. task[t] \in Busy
        BY <3>1, BusyTask DEF Crash, At, Running
      <4> QED
        BY <3>1, <4>1 DEF Crash, Stopped, TypeOK, Busy
    <3>2. CASE HardLimit(t)
      BY <3>2 DEF HardLimit, Ack, Idle, TypeOK
    <3> QED
      BY <2>2, <3>1, <3>2
  <2>4. u # t
    BY <2>3 DEF Engaged, Running
  <2>5. task'[u] = task[u]
    BY <1>6, <2>4, OtherTasks
  <2> QED
    BY <1>1, <2>0, <2>5 DEF Engaged, HeldBy
<1>7. ASSUME NEW t \in Tasks, NEW e \in pending \cup sent, Dispatch(t, e)
      PROVE  HeldBy(u, i)'
  <2>1. /\ job' = job /\ task'[t].pc = "message"
        /\ \A v \in Tasks \ {t} : task'[v] = task[v]
    BY <1>7 DEF Dispatch, TypeOK
  <2>2. u # t
    BY <2>1 DEF Engaged, Running
  <2> QED
    BY <1>1, <2>1, <2>2 DEF Engaged, HeldBy
<1>8. ASSUME NEW j \in Jobs, LeaseExpires(j) PROVE HeldBy(u, i)'
  <2>1. task' = task
    BY <1>8 DEF LeaseExpires
  <2>2. Engaged(u, i) /\ HeldBy(u, i)
    BY <1>1, <2>1 DEF Engaged
  <2>3. j # i
    BY <1>8, <2>2 DEF LeaseExpires, Beating, At, HeldBy, Engaged
  <2> QED
    BY <1>3, <1>8, <2>1, <2>3 DEF LeaseExpires, TypeOK
<1>9. ASSUME NEW j \in Jobs, RetryComesDue(j) PROVE HeldBy(u, i)'
  BY <1>2, <1>3, <1>9 DEF RetryComesDue, TypeOK, JobRow
<1>10. ASSUME NEW j \in Jobs, Cancel(j) PROVE HeldBy(u, i)'
  <2>1. j # i
    <3> SUFFICES ASSUME j = i PROVE job'[i].cancel
      OBVIOUS
    <3>1. /\ [job[i] EXCEPT !.cancel = TRUE] \in JobRow
          /\ [job[i] EXCEPT !.cancel = TRUE].cancel
      BY <1>2 DEF JobRow
    <3> QED
      BY <1>10, <3>1, CancelKept DEF Cancel, TypeOK
  <2> QED
    BY <1>3, <1>10, <2>1 DEF Cancel, TypeOK
<1>11. ASSUME NEW j \in Jobs, RetryManually(j) PROVE HeldBy(u, i)'
  <2>1. j # i
    BY <1>0, <1>11 DEF RetryManually, TypeOK
  <2> QED
    BY <1>3, <1>11, <2>1 DEF RetryManually, TypeOK
<1>12. ASSUME Recover PROVE HeldBy(u, i)'
  <2>1. task' = task
    BY <1>12 DEF Recover
  <2>2. HeldBy(u, i)
    BY <1>1, <2>1 DEF Engaged
  <2>3. i \notin Expired
    BY <1>2, <2>2 DEF Expired, HeldBy, NoLeaseWhenParked
  <2> QED
    BY <1>3, <1>12, <2>1, <2>3 DEF Recover
<1>13. CASE UNCHANGED vars
  BY <1>3, <1>13 DEF vars
<1> QED
  BY <1>4, <1>5, <1>6, <1>7, <1>8, <1>9, <1>10, <1>11, <1>12, <1>13 DEF Next

\* No two executions work on a watched job, canceled or not.
Alone ==
    \A j \in Jobs : Watched(j) =>
        \A t, u \in Tasks :
            /\ task[t].pc \in Running /\ task[t].job = j
            /\ task[u].pc \in Running /\ task[u].job = j
            => t = u

\* Work on a job begins with a claim.
LEMMA WorkBeginsWithClaim ==
    ASSUME TypeOK, [Next]_vars, NEW i \in Jobs, NEW t \in Tasks,
           task'[t].pc \in Running, task'[t].job = i
    PROVE  \/ task[t].pc \in Running /\ task[t].job = i
           \/ Claim(t) /\ task[t].job = i
<1>1. CASE task'[t] = task[t]
  BY <1>1
<1>2. CASE Claim(t)
  <2>1. task[t] \in Busy
    BY <1>2, BusyTask DEF Claim, At
  <2> QED
    BY <1>2, <2>1 DEF Claim, TypeOK, Busy
<1>3. CASE Worker(t) /\ ~Claim(t)
  <2>1. CASE ClaimTerminal(t) \/ ClaimCanceled(t) \/ Exit(t) \/ RetryEnds(t)
    <3>1. task'[t] = Idle
      BY <2>1 DEF ClaimTerminal, ClaimCanceled, Exit, RetryEnds, Ack, TypeOK
    <3> QED
      BY <3>1 DEF Idle, Running
  <2>2. CASE RetryForeign(t) \/ RetryLater(t)
    <3>1. task[t] \in Busy
      BY <2>2, BusyTask DEF RetryForeign, RetryLater, At
    <3>2. task'[t].pc = "message"
      BY <2>2, <3>1 DEF RetryForeign, RetryLater, Goto, TypeOK, Busy
    <3> QED
      BY <3>2 DEF Running
  <2>3. CASE Check(t) \/ Start(t) \/ QueueMaterials(t) \/ Complete(t) \/ WorkFails(t)
             \/ Fail(t)
    <3>1. task[t] \in Busy /\ task[t].pc \in Running
      BY <2>3, BusyTask
         DEF Check, Start, QueueMaterials, Complete, WorkFails, Fail, At, Running
    <3>2. Goto(t, "exit") \/ Goto(t, "start") \/ Goto(t, "work") \/ Goto(t, "fail")
            \/ Stopped(t, "retry")
      BY <2>3 DEF Check, Start, QueueMaterials, Complete, WorkFails, Fail
    <3> QED
      BY <3>1, <3>2, MoveStaysOnJob
  <2> QED
    BY <1>3, <2>1, <2>2, <2>3 DEF Worker
<1>4. CASE Beat(t)
  <2>1. task[t] \in Busy /\ task[t].pc \in Running
    BY <1>4, BusyTask DEF Beat, At, Running
  <2>2. CASE task' = [task EXCEPT ![t].beating = FALSE]
    BY <2>1, <2>2 DEF TypeOK, Busy
  <2>3. CASE task' = [task EXCEPT ![t] = [@ EXCEPT !.beating = FALSE, !.canceled = TRUE]]
    <3>1. task'[t] = [task[t] EXCEPT !.beating = FALSE, !.canceled = TRUE]
      BY <2>3 DEF TypeOK
    <3> QED
      BY <2>1, <3>1 DEF Busy
  <2> QED
    BY <1>1, <1>4, <2>2, <2>3 DEF Beat
<1>5. CASE Environment(t)
  <2>0. task[t] \in Busy
    BY <1>5, BusyTask DEF Environment, Crash, HardLimit, BeatError, DatabaseError,
                          Beating, At, Running
  <2>1. CASE Crash(t) \/ (DatabaseError(t) /\ Stopped(t, "retry"))
    <3>1. Stopped(t, "message") \/ Stopped(t, "retry")
      BY <2>1 DEF Crash
    <3>2. task'[t].pc \in {"message", "retry"}
      <4>1. /\ task[t] \in [pc : {"message", "retry"} \cup Running, job : Jobs,
                            phase : Queues, beating : BOOLEAN, canceled : BOOLEAN]
            /\ \/ task'[t] = [task[t] EXCEPT !.pc = "message", !.beating = FALSE]
               \/ task'[t] = [task[t] EXCEPT !.pc = "retry", !.beating = FALSE]
        BY <2>0, <3>1 DEF Stopped, TypeOK, Busy
      <4> QED
        BY <4>1
    <3> QED
      BY <3>2 DEF Running
  <2>2. CASE HardLimit(t) \/ (DatabaseError(t) /\ Ack(t))
    <3>1. task'[t] = Idle
      BY <2>2 DEF HardLimit, Ack, TypeOK
    <3> QED
      BY <3>1 DEF Idle, Running
  <2>3. CASE BeatError(t)
    BY <2>0, <2>3 DEF BeatError, Beating, TypeOK, Busy
  <2> QED
    BY <1>5, <2>1, <2>2, <2>3 DEF Environment, DatabaseError
<1>6. ASSUME NEW e \in pending \cup sent, Dispatch(t, e) PROVE FALSE
  BY <1>6 DEF Dispatch, TypeOK, Running
<1>7. ASSUME NEW v \in Tasks \ {t},
             Worker(v) \/ Beat(v) \/ Environment(v) \/ \E e \in pending \cup sent : Dispatch(v, e)
      PROVE  task'[t] = task[t]
  BY <1>7, OtherTasks DEF Dispatch, TypeOK
<1>8. ASSUME \/ Recover \/ UNCHANGED vars
             \/ \E j \in Jobs : LeaseExpires(j) \/ RetryComesDue(j) \/ Cancel(j)
                                  \/ RetryManually(j)
      PROVE  task'[t] = task[t]
  BY <1>8 DEF Recover, vars, LeaseExpires, RetryComesDue, Cancel, RetryManually
<1> QED
  BY <1>1, <1>2, <1>3, <1>4, <1>5, <1>6, <1>7, <1>8 DEF Next

\* Nobody joins the one at work.
LEMMA NextAlone ==
    ASSUME TypeOK, TypeOK', Held, Alone, [Next]_vars
    PROVE  Alone'
<1> SUFFICES ASSUME NEW i \in Jobs, Watched(i)', NEW t \in Tasks, NEW u \in Tasks, t # u,
                    task'[t].pc \in Running, task'[t].job = i,
                    task'[u].pc \in Running, task'[u].job = i
             PROVE  FALSE
  BY DEF Alone
<1>1. /\ faults["heartbeat_error"] \in Nat /\ faults["db_error"] \in Nat
      /\ manuals[i] \in Nat
      /\ "heartbeat_error" \in FaultNames /\ "db_error" \in FaultNames
  BY DEF TypeOK, FaultNames
<1>2. Watched(i)
  BY <1>1, CountersGrow DEF Watched, Beaten
<1>3. ASSUME NEW v \in Tasks, NEW w \in Tasks, v # w, Claim(v), task[v].job = i,
             task[w].pc \in Running, task[w].job = i
      PROVE  FALSE
  <2>1. ~job[i].cancel
    BY <1>3 DEF Claim
  <2>2. job[i].owner = w /\ job[i].lease = "ahead"
    BY <1>2, <1>3, <2>1 DEF Held, HeldBy, Engaged
  <2> QED
    BY <1>3, <2>2, TasksAssumption DEF Claim, ClaimWaits
<1>4. ASSUME Claim(t), Claim(u) PROVE FALSE
  BY <1>4, OtherTasks DEF Claim, At, Worker, Running, TypeOK, TaskState
<1> QED
  BY <1>2, <1>3, <1>4, WorkBeginsWithClaim DEF Alone

\* Why the status of a job changes.
StatusStep(i) ==
    \/ \E t \in Tasks : Engaged(t, i) /\ task[t].pc # "exit"
    \/ job[i].status # "completed" /\ job'[i].status \in {"running", "queued", "canceled"}
    \/ job[i].cancel
    \/ i \in Expired /\ job[i].attempt >= MaxAttempts

\* It changes for one of those reasons, and a retry is scheduled within the limit.
LEMMA StatusSteps ==
    ASSUME TypeOK, TypeOK', [Next]_vars, NEW i \in Jobs
    PROVE  /\ job'[i].status # job[i].status => StatusStep(i)
           /\ job'[i].status = "retrying" =>
                \/ job[i].status = "retrying" /\ job'[i].attempt = job[i].attempt
                \/ job'[i].attempt < MaxAttempts
<1> DEFINE Goal == /\ job'[i].status # job[i].status => StatusStep(i)
                   /\ job'[i].status = "retrying" =>
                        \/ job[i].status = "retrying" /\ job'[i].attempt = job[i].attempt
                        \/ job'[i].attempt < MaxAttempts
<1>0. job[i] \in JobRow
  BY DEF TypeOK
<1>1. ASSUME job'[i].status = job[i].status, job'[i].attempt = job[i].attempt PROVE Goal
  BY <1>1
<1>2. ASSUME job'[i] = job[i] PROVE Goal
  BY <1>1, <1>2
<1>3. ASSUME NEW r \in JobRow
      PROVE  /\ Canceled(r).status = "canceled" /\ DeadLetter(r).status = "dead_letter"
             /\ Unleased(r).status = r.status /\ Unleased(r).attempt = r.attempt
             /\ Unleased(r).cancel = r.cancel
  BY DEF Canceled, DeadLetter, Unleased, JobRow
<1>4. ASSUME NEW t \in Tasks, Worker(t), task[t].job = i PROVE Goal
  <2>1. CASE ClaimTerminal(t) \/ Check(t) \/ WorkFails(t) \/ RetryForeign(t)
    BY <1>2, <2>1 DEF ClaimTerminal, Check, WorkFails, RetryForeign
  <2>2. CASE ClaimCanceled(t)
    <3>1. job[i].cancel /\ job'[i].status = "canceled"
      BY <1>0, <1>3, <1>4, <2>2 DEF ClaimCanceled, TypeOK
    <3> QED
      BY <3>1 DEF StatusStep
  <2>3. CASE Claim(t)
    <3>1. job[i].status # "completed" /\ job'[i].status = "running"
      BY <1>0, <1>4, <2>3 DEF Claim, TypeOK, JobRow, Terminal
    <3> QED
      BY <3>1 DEF StatusStep
  <2>4. CASE Start(t) \/ QueueMaterials(t) \/ Complete(t) \/ Fail(t)
    <3>1. Engaged(t, i) /\ task[t].pc # "exit"
      BY <1>4, <2>4 DEF Start, QueueMaterials, Complete, Fail, At, Engaged, Running
    <3>2. job'[i].status # "retrying"
      BY <1>0, <1>4, <2>4 DEF Start, QueueMaterials, Complete, Fail, TypeOK, JobRow
    <3> QED
      BY <3>1, <3>2 DEF StatusStep
  <2>5. CASE Exit(t)
    <3>1. job'[i] \in {job[i], Unleased(job[i])}
      BY <1>4, <2>5 DEF Exit, TypeOK
    <3> QED
      BY <1>0, <1>1, <1>3, <3>1
  <2>6. CASE RetryEnds(t) \/ RetryLater(t)
    <3>1. Engaged(t, i) /\ task[t].pc # "exit"
      BY <1>4, <2>6 DEF RetryEnds, RetryLater, At, Engaged
    <3>2. CASE RetryEnds(t)
      <4> DEFINE dead == [DeadLetter(Unleased(job[i])) EXCEPT !.next = "null"]
      <4>1. job'[i] \in {Canceled(job[i]), dead}
        BY <1>4, <3>2 DEF RetryEnds, TypeOK
      <4>2. dead.status = "dead_letter"
        BY <1>0 DEF DeadLetter, Unleased, JobRow
      <4>3. job'[i].status # "retrying"
        BY <1>0, <1>3, <4>1, <4>2
      <4> QED
        BY <3>1, <4>3 DEF StatusStep
    <3>3. CASE RetryLater(t)
      <4> DEFINE later == [Unleased(job[i]) EXCEPT !.status = "retrying", !.next = "ahead"]
      <4>1. job'[i] = later /\ job[i].attempt < MaxAttempts
        BY <1>4, <3>3 DEF RetryLater, TypeOK
      <4>2. later.attempt = job[i].attempt
        BY <1>0 DEF Unleased, JobRow
      <4>3. job'[i].attempt < MaxAttempts
        BY <4>1, <4>2
      <4> QED
        BY <3>1, <4>3 DEF StatusStep
    <3> QED
      BY <2>6, <3>2, <3>3
  <2> QED
    BY <1>4, <2>1, <2>2, <2>3, <2>4, <2>5, <2>6 DEF Worker
<1>5. ASSUME NEW t \in Tasks, Worker(t) PROVE Goal
  BY <1>2, <1>4, <1>5, WorkerRow
<1>6. ASSUME NEW t \in Tasks, Beat(t) PROVE Goal
  <2>1. CASE job'[i] = job[i]
    BY <1>2, <2>1
  <2>2. CASE job[i].cancel /\ job'[i] = Canceled(job[i])
    <3>1. job'[i].status = "canceled"
      BY <1>0, <1>3, <2>2
    <3> QED
      BY <2>2, <3>1 DEF StatusStep
  <2>3. CASE job'[i] = [job[i] EXCEPT !.lease = "ahead"]
    BY <1>0, <1>1, <2>3 DEF JobRow
  <2> QED
    BY <1>6, <2>1, <2>2, <2>3 DEF Beat, TypeOK
<1>7. ASSUME \/ \E t \in Tasks : \/ Environment(t)
                                \/ \E e \in pending \cup sent : Dispatch(t, e)
             \/ UNCHANGED vars
      PROVE  Goal
  BY <1>2, <1>7 DEF Environment, Crash, HardLimit, BeatError, DatabaseError, Dispatch, vars
<1>8. ASSUME NEW j \in Jobs, LeaseExpires(j) \/ RetryComesDue(j) PROVE Goal
  BY <1>0, <1>1, <1>8 DEF LeaseExpires, RetryComesDue, TypeOK, JobRow
<1>9. ASSUME NEW j \in Jobs, Cancel(j) PROVE Goal
  <2> DEFINE r == [job[i] EXCEPT !.cancel = TRUE]
  <2>1. r \in JobRow /\ r.status = job[i].status /\ r.attempt = job[i].attempt
    BY <1>0 DEF JobRow
  <2>2. CASE job'[i] \in {job[i], r}
    BY <1>1, <2>1, <2>2
  <2>3. CASE j = i /\ job'[i] = Canceled(r)
    <3>1. job[i].status # "completed" /\ job'[i].status = "canceled"
      BY <1>3, <1>9, <2>1, <2>3 DEF Cancel
    <3> QED
      BY <3>1 DEF StatusStep
  <2> QED
    BY <1>9, <2>2, <2>3 DEF Cancel, TypeOK
<1>10. ASSUME NEW j \in Jobs, RetryManually(j) PROVE Goal
  <2>1. CASE j = i
    <3>1. job[i].status # "completed" /\ job'[i].status = "queued"
      BY <1>0, <1>10, <2>1 DEF RetryManually, TypeOK, Unleased, JobRow
    <3> QED
      BY <3>1 DEF StatusStep
  <2>2. CASE j # i
    BY <1>2, <1>10, <2>2 DEF RetryManually, TypeOK
  <2> QED
    BY <2>1, <2>2
<1>11. ASSUME Recover PROVE Goal
  <2> DEFINE r == Unleased(job[i])
             again == [r EXCEPT !.status = "queued"]
  <2>1. CASE i \notin Expired
    BY <1>2, <1>11, <2>1 DEF Recover
  <2>2. CASE i \in Expired
    <3>1. job'[i] = Recovered(i) /\ job[i].status # "completed"
      BY <1>11, <2>2 DEF Recover, Expired
    <3>2. r \in JobRow /\ r.attempt = job[i].attempt
      BY <1>0, <1>3, RowTypes
    <3>3. again.status = "queued"
      BY <3>2 DEF JobRow
    <3>4. \/ job'[i] \in {Canceled(r), again}
          \/ job'[i] = DeadLetter(r) /\ job[i].attempt >= MaxAttempts
      BY <3>1, <3>2 DEF Recovered
    <3> HIDE DEF r, again
    <3>5. \/ job'[i].status \in {"canceled", "queued"}
          \/ job'[i].status = "dead_letter" /\ job[i].attempt >= MaxAttempts
      BY <1>3, <3>2, <3>3, <3>4
    <3> QED
      BY <2>2, <3>1, <3>5 DEF StatusStep
  <2> QED
    BY <2>1, <2>2
<1> QED
  BY <1>5, <1>6, <1>7, <1>8, <1>9, <1>10, <1>11 DEF Next

\* All of it is inductive.
LEMMA FencingHolds == Spec => [](IInv /\ Held /\ Alone /\ RetryLeft)
<1>1. Init => Held /\ Alone /\ RetryLeft
  BY DEF Init, Held, Alone, RetryLeft, Engaged, Running, Idle
<1>2. IInv /\ IInv' /\ Held /\ Alone /\ RetryLeft /\ [Next]_vars
        => Held' /\ Alone' /\ RetryLeft'
  <2> SUFFICES ASSUME IInv, IInv', Held, Alone, RetryLeft, [Next]_vars
               PROVE  Held' /\ Alone' /\ RetryLeft'
    OBVIOUS
  <2>1. Held' /\ Alone'
    BY NextHeld, NextAlone DEF IInv
  <2>2. RetryLeft'
    BY StatusSteps DEF IInv, RetryLeft
  <2> QED
    BY <2>1, <2>2
<1> QED
  BY <1>1, <1>2, InvariantHolds, PTL DEF Spec

(* A job is never in two workers' hands at once, however often its messages are
   delivered or its workers die, while heartbeats get through and no operator retried
   it. *)
THEOREM OneBodyAtATime == Spec => []OneBody
<1>1. IInv /\ Alone => OneBody
  <2> SUFFICES ASSUME IInv, Alone, Beaten, NEW t \in Tasks, NEW u \in Tasks, t # u,
                      task[t].pc \in Running, task[u].pc \in Running,
                      task[t].job = task[u].job
               PROVE  manuals[task[t].job] > 0
    BY DEF OneBody
  <2>1. task[t].job \in Jobs
    BY BusyTask DEF IInv, At, Running
  <2>2. manuals[task[t].job] \in Nat
    BY <2>1 DEF IInv, TypeOK
  <2>3. manuals[task[t].job] # 0
    BY <2>1 DEF Alone, Watched
  <2> QED
    BY <2>2, <2>3
<1> QED
  BY <1>1, FencingHolds, PTL

(* A result is written over a held lease only, while heartbeats get through and no
   operator intervened: of the body, of durability.retry and of recovery. *)
THEOREM ResultsStayFenced == Spec => ResultsAreFenced
<1>1. IInv /\ Held /\ RetryLeft /\ IInv' /\ [Next]_vars =>
        [\A j \in Jobs :
           (/\ Beaten /\ manuals[j] = 0 /\ ~job[j].cancel
            /\ job'[j].status # job[j].status
            /\ job'[j].status \in {"completed", "failed", "retrying", "dead_letter"})
           => job[j].owner # None]_vars
  <2> SUFFICES ASSUME IInv, Held, RetryLeft, IInv', [Next]_vars, NEW j \in Jobs,
                      Beaten, manuals[j] = 0, ~job[j].cancel,
                      job'[j].status # job[j].status,
                      job'[j].status \in {"completed", "failed", "retrying", "dead_letter"}
               PROVE  job[j].owner # None
    OBVIOUS
  <2>1. StatusStep(j)
    BY StatusSteps DEF IInv
  <2>2. CASE \E t \in Tasks : Engaged(t, j) /\ task[t].pc # "exit"
    BY <2>2, TasksAssumption DEF Held, HeldBy, Watched
  <2>3. CASE j \in Expired /\ job[j].attempt >= MaxAttempts
    <3>1. job[j].attempt \in Nat /\ MaxAttempts \in Nat
      BY BoundAssumption DEF IInv, TypeOK, JobRow
    <3>2. job[j].status # "retrying"
      BY <2>3, <3>1 DEF RetryLeft
    <3>3. job[j].lease = "passed"
      BY <2>3, <3>2 DEF Expired
    <3> QED
      BY <3>3 DEF IInv, DeadlineHasOwner
  <2> QED
    BY <2>1, <2>2, <2>3 DEF StatusStep
<1> QED
  BY <1>1, FencingHolds, InvariantHolds, PTL DEF Spec, ResultsAreFenced

(* Completed work is not reopened while heartbeats get through, unless an operator
   retried the job or asked for its cancellation. *)
THEOREM CompletedStaysCompleted == Spec => CompletedIsFinal
<1>1. IInv /\ Held /\ IInv' /\ [Next]_vars =>
        [\A j \in Jobs :
           job[j].status = "completed" /\ Beaten' /\ manuals[j] = 0 /\ ~job[j].cancel
             => job'[j].status = "completed"]_vars
  <2> SUFFICES ASSUME IInv, Held, IInv', [Next]_vars, NEW j \in Jobs,
                      job[j].status = "completed", Beaten', manuals[j] = 0,
                      ~job[j].cancel, job'[j].status # "completed"
               PROVE  FALSE
    OBVIOUS
  <2>1. StatusStep(j)
    BY StatusSteps DEF IInv
  <2>2. Beaten
    <3>1. /\ faults["heartbeat_error"] \in Nat /\ faults["db_error"] \in Nat
          /\ "heartbeat_error" \in FaultNames /\ "db_error" \in FaultNames
      BY DEF IInv, TypeOK, FaultNames
    <3> QED
      BY <3>1, CountersGrow DEF Beaten, IInv
  <2>3. CASE \E t \in Tasks : Engaged(t, j) /\ task[t].pc # "exit"
    BY <2>2, <2>3 DEF Held, HeldBy, Watched
  <2>4. j \notin Expired
    BY DEF Expired
  <2> QED
    BY <2>1, <2>3, <2>4 DEF StatusStep
<1> QED
  BY <1>1, FencingHolds, InvariantHolds, PTL DEF Spec, CompletedIsFinal

-----------------------------------------------------------------------------
(* What leads to a job: an event still to be dispatched, or a message or execution
   that is not about to be acknowledged.  Q tells which queue it goes through. *)

Carrier(j, Q) ==
    \/ \E e \in pending : e.job = j /\ e.queue \in Q
    \/ \E t \in Tasks : /\ task[t].pc \notin {"idle", "exit"}
                        /\ task[t].job = j /\ task[t].phase \in Q

\* The outbox key of the materials phase is spent: it cannot be announced again.
Spent(j) == KeyTaken(j, "materials", 0)

\* Nothing was refused or cut off, and nobody retried or canceled the job.
Untouched(j) == Watched(j) /\ faults["hard_limit"] = 0 /\ ~job[j].cancel

\* A job not at rest is led to; once its materials were announced, by a message of that
\* phase, since one of the transcription would queue them behind the spent key.
OnItsWay ==
    \A j \in Jobs : Untouched(j) /\ job[j].status \notin Terminal =>
        Carrier(j, IF Spent(j) THEN {"materials"} ELSE Queues)

\* The keys recovery has spent are of attempts that are over, except that of the
\* attempt a requeued job waits after.
RecoveredOnce ==
    \A j \in Jobs : Watched(j) /\ ~job[j].cancel =>
        \A e \in pending \cup sent : e.job = j /\ e.key = "recovered" =>
            \/ e.n < job[j].attempt
            \/ e.n = job[j].attempt /\ job[j].status = "queued" /\ job[j].owner = None

\* How the message or execution t ends.
Ended(t) ==
    \/ ClaimTerminal(t) \/ ClaimCanceled(t) \/ RetryEnds(t)
    \/ Check(t) /\ job[task[t].job].status = "completed"
    \/ QueueMaterials(t) \/ Complete(t)
    \/ HardLimit(t) \/ DatabaseError(t)

\* A message or execution keeps its job and its phase until it ends.
LEMMA TaskGoesOn ==
    ASSUME TypeOK, [Next]_vars, NEW t \in Tasks, task[t].pc \notin {"idle", "exit"}
    PROVE  \/ Ended(t)
           \/ /\ task'[t].pc \notin {"idle", "exit"}
              /\ task'[t].job = task[t].job /\ task'[t].phase = task[t].phase
<1> DEFINE Same == /\ task'[t].pc \notin {"idle", "exit"}
                   /\ task'[t].job = task[t].job /\ task'[t].phase = task[t].phase
<1>0. task[t] \in Busy
  BY BusyTask DEF At
<1>1. CASE task'[t] = task[t]
  BY <1>1
<1>2. ASSUME NEW pc \in {"message", "retry", "check", "start", "work", "fail"},
             Goto(t, pc) \/ Stopped(t, pc)
      PROVE  Same
  <2>1. CASE Goto(t, pc)
    BY <1>0, <2>1 DEF Goto, TypeOK, Busy
  <2>2. CASE Stopped(t, pc)
    <3>1. task'[t] = [task[t] EXCEPT !.pc = pc, !.beating = FALSE]
      BY <2>2 DEF Stopped, TypeOK
    <3> QED
      BY <1>0, <3>1 DEF Busy
  <2> QED
    BY <1>2, <2>1, <2>2
<1>3. CASE Worker(t)
  <2>1. CASE Claim(t)
    <3>1. \E pc \in {"check", "start"} :
             task'[t] = [task[t] EXCEPT !.pc = pc, !.beating = TRUE, !.canceled = FALSE]
      BY <2>1 DEF Claim, TypeOK
    <3> QED
      BY <1>0, <3>1 DEF Busy
  <2>2. CASE Check(t) \/ Start(t) \/ WorkFails(t) \/ Fail(t) \/ RetryForeign(t) \/ RetryLater(t)
    <3>1. Ended(t) \/ \E pc \in {"message", "retry", "check", "start", "work", "fail"} :
                         Goto(t, pc) \/ Stopped(t, pc)
      BY <2>2 DEF Ended, Check, Start, WorkFails, Fail, RetryForeign, RetryLater
    <3> QED
      BY <1>2, <3>1
  <2>3. ~Exit(t)
    BY DEF Exit, At
  <2> QED
    BY <1>3, <2>1, <2>2, <2>3 DEF Worker, Ended
<1>4. CASE Beat(t)
  <2>1. CASE task' = [task EXCEPT ![t].beating = FALSE]
    BY <1>0, <2>1 DEF TypeOK, Busy
  <2>2. CASE task' = [task EXCEPT ![t] = [@ EXCEPT !.beating = FALSE, !.canceled = TRUE]]
    <3>1. task'[t] = [task[t] EXCEPT !.beating = FALSE, !.canceled = TRUE]
      BY <2>2 DEF TypeOK
    <3> QED
      BY <1>0, <3>1 DEF Busy
  <2> QED
    BY <1>1, <1>4, <2>1, <2>2 DEF Beat
<1>5. CASE Environment(t)
  <2>1. CASE Crash(t)
    BY <1>2, <2>1 DEF Crash
  <2>2. CASE BeatError(t)
    BY <1>0, <2>2 DEF BeatError, TypeOK, Busy
  <2> QED
    BY <1>5, <2>1, <2>2 DEF Environment, Ended
<1>6. ASSUME NEW e \in pending \cup sent, Dispatch(t, e) PROVE FALSE
  BY <1>6 DEF Dispatch, At
<1>7. ASSUME NEW v \in Tasks \ {t},
             Worker(v) \/ Beat(v) \/ Environment(v) \/ \E e \in pending \cup sent : Dispatch(v, e)
      PROVE  task'[t] = task[t]
  BY <1>7, OtherTasks DEF Dispatch, TypeOK
<1>8. ASSUME \/ Recover \/ UNCHANGED vars
             \/ \E j \in Jobs : LeaseExpires(j) \/ RetryComesDue(j) \/ Cancel(j)
                                  \/ RetryManually(j)
      PROVE  task'[t] = task[t]
  BY <1>8 DEF Recover, vars, LeaseExpires, RetryComesDue, Cancel, RetryManually
<1> QED
  BY <1>1, <1>3, <1>4, <1>5, <1>6, <1>7, <1>8 DEF Next

\* An event stays in the outbox until it becomes a message.
LEMMA EventGoesOn ==
    ASSUME TypeOK, [Next]_vars, NEW e \in pending
    PROVE  \/ e \in pending'
           \/ \E t \in Tasks : /\ task'[t].pc = "message"
                               /\ task'[t].job = e.job /\ task'[t].phase = e.queue
<1>1. CASE pending \subseteq pending'
  BY <1>1
<1>2. ASSUME NEW t \in Tasks, Worker(t) \/ Beat(t) \/ Environment(t)
      PROVE  pending \subseteq pending'
  BY <1>2 DEF Worker, ClaimTerminal, ClaimCanceled, Claim, Check, Start, QueueMaterials,
     Complete, WorkFails, Fail, Exit, RetryForeign, RetryEnds, RetryLater, Beat,
     Environment, Crash, HardLimit, BeatError, DatabaseError
<1>3. ASSUME NEW t \in Tasks, NEW f \in pending \cup sent, Dispatch(t, f), e \notin pending'
      PROVE  /\ task'[t].pc = "message"
             /\ task'[t].job = e.job /\ task'[t].phase = e.queue
  BY <1>3 DEF Dispatch, TypeOK
<1>4. ASSUME \/ Recover \/ UNCHANGED vars
             \/ \E j \in Jobs : LeaseExpires(j) \/ RetryComesDue(j) \/ Cancel(j)
                                  \/ RetryManually(j)
      PROVE  pending \subseteq pending'
  BY <1>4 DEF Recover, vars, LeaseExpires, RetryComesDue, Cancel, RetryManually
<1> QED
  BY <1>1, <1>2, <1>3, <1>4 DEF Next

\* Which step makes a job that was at rest go on: the body of an execution, which does
\* not look at the status, or an operator's retry.
LEMMA Reopened ==
    ASSUME TypeOK, [Next]_vars, NEW i \in Jobs,
           job[i].status \in Terminal, job'[i].status \notin Terminal
    PROVE  \/ RetryManually(i)
           \/ \E t \in Tasks : /\ Engaged(t, i) /\ task[t].pc # "exit"
                               /\ Start(t) \/ QueueMaterials(t) \/ Fail(t) \/ RetryLater(t)
<1>0. job[i] \in JobRow
  BY DEF TypeOK
<1>1. job'[i] # job[i]
  OBVIOUS
<1>2. \A r \in JobRow : Canceled(r).status = "canceled" /\ Unleased(r).status = r.status
  BY DEF Canceled, Unleased, JobRow
<1>3. ASSUME NEW t \in Tasks, Worker(t)
      PROVE  /\ Engaged(t, i) /\ task[t].pc # "exit"
             /\ Start(t) \/ QueueMaterials(t) \/ Fail(t) \/ RetryLater(t)
  <2>1. task[t].job = i
    BY <1>1, <1>3, WorkerRow
  <2>2. ~ClaimTerminal(t) /\ ~Check(t) /\ ~WorkFails(t) /\ ~RetryForeign(t)
    BY <1>1 DEF ClaimTerminal, Check, WorkFails, RetryForeign
  <2>3. ~ClaimCanceled(t) /\ ~Claim(t)
    BY <2>1 DEF ClaimCanceled, Claim
  <2>4. ~Complete(t)
    BY <1>0, <2>1 DEF Complete, TypeOK, JobRow, Terminal
  <2>5. ~Exit(t)
    <3> SUFFICES ASSUME Exit(t) PROVE FALSE
      OBVIOUS
    <3>1. job'[i] = Unleased(job[i])
      BY <1>1, <2>1 DEF Exit, TypeOK
    <3> QED
      BY <1>0, <1>2, <3>1
  <2>6. ~RetryEnds(t)
    <3> SUFFICES ASSUME RetryEnds(t) PROVE FALSE
      OBVIOUS
    <3> DEFINE dead == [DeadLetter(Unleased(job[i])) EXCEPT !.next = "null"]
    <3>1. job'[i] \in {Canceled(job[i]), dead}
      BY <2>1 DEF RetryEnds, TypeOK
    <3>2. dead.status = "dead_letter"
      BY <1>0 DEF DeadLetter, Unleased, JobRow
    <3> HIDE DEF dead
    <3> QED
      BY <1>0, <1>2, <3>1, <3>2 DEF Terminal
  <2>7. Start(t) \/ QueueMaterials(t) \/ Fail(t) \/ RetryLater(t)
    BY <1>3, <2>2, <2>3, <2>4, <2>5, <2>6 DEF Worker
  <2> QED
    BY <2>1, <2>7 DEF Start, QueueMaterials, Fail, RetryLater, At, Engaged, Running
<1>4. ASSUME NEW t \in Tasks, Beat(t) PROVE FALSE
  <2>1. job'[i] \in {Canceled(job[i]), [job[i] EXCEPT !.lease = "ahead"]}
    BY <1>1, <1>4 DEF Beat, TypeOK
  <2> QED
    BY <1>0, <1>2, <2>1 DEF Terminal, JobRow
<1>5. ASSUME \/ \E t \in Tasks : \/ Environment(t)
                                \/ \E e \in pending \cup sent : Dispatch(t, e)
             \/ UNCHANGED vars
      PROVE  FALSE
  BY <1>1, <1>5 DEF Environment, Crash, HardLimit, BeatError, DatabaseError, Dispatch, vars
<1>6. ASSUME NEW j \in Jobs, LeaseExpires(j) \/ RetryComesDue(j) PROVE FALSE
  BY <1>0, <1>6 DEF LeaseExpires, RetryComesDue, TypeOK, JobRow
<1>7. ASSUME NEW j \in Jobs, Cancel(j) PROVE FALSE
  <2> DEFINE r == [job[i] EXCEPT !.cancel = TRUE]
  <2>1. r \in JobRow /\ r.status = job[i].status
    BY <1>0 DEF JobRow
  <2>2. job'[i] \in {r, Canceled(r)}
    BY <1>1, <1>7 DEF Cancel, TypeOK
  <2> QED
    BY <1>2, <2>1, <2>2 DEF Terminal
<1>8. ASSUME NEW j \in Jobs, RetryManually(j) PROVE RetryManually(i)
  BY <1>1, <1>8 DEF RetryManually, TypeOK
<1>9. ASSUME Recover PROVE FALSE
  BY <1>1, <1>9 DEF Recover, Expired, Terminal
<1> QED
  BY <1>3, <1>4, <1>5, <1>6, <1>7, <1>8, <1>9 DEF Next

\* What led to a job still does, unless the job came to rest or its transcription
\* queued the next phase.
LEMMA CarriersStay ==
    ASSUME TypeOK, [Next]_vars, NEW i \in Jobs, NEW Q, Carrier(i, Q),
           \A t \in Tasks : ~HardLimit(t) /\ ~DatabaseError(t),
           job'[i].status \notin Terminal
    PROVE  \/ Carrier(i, Q)'
           \/ \E t \in Tasks : QueueMaterials(t) /\ task[t].job = i /\ task[t].phase \in Q
<1>0. job[i] \in JobRow
  BY DEF TypeOK
<1>1. ASSUME NEW e \in pending, e.job = i, e.queue \in Q PROVE Carrier(i, Q)'
  BY <1>1, EventGoesOn DEF Carrier
<1>2. ASSUME NEW t \in Tasks, task[t].pc \notin {"idle", "exit"},
             task[t].job = i, task[t].phase \in Q, ~QueueMaterials(t)
      PROVE  Carrier(i, Q)'
  <2>1. ~ClaimTerminal(t)
    BY <1>2 DEF ClaimTerminal
  <2>2. ~ClaimCanceled(t)
    <3> SUFFICES ASSUME ClaimCanceled(t) PROVE FALSE
      OBVIOUS
    <3>1. job'[i] = Canceled(job[i])
      BY <1>2 DEF ClaimCanceled, TypeOK
    <3> QED
      BY <1>0, <3>1 DEF Canceled, Unleased, JobRow, Terminal
  <2>3. ~RetryEnds(t)
    <3> SUFFICES ASSUME RetryEnds(t) PROVE FALSE
      OBVIOUS
    <3> DEFINE dead == [DeadLetter(Unleased(job[i])) EXCEPT !.next = "null"]
    <3>1. job'[i] \in {Canceled(job[i]), dead}
      BY <1>2 DEF RetryEnds, TypeOK
    <3>2. dead.status = "dead_letter" /\ Canceled(job[i]).status = "canceled"
      BY <1>0 DEF DeadLetter, Canceled, Unleased, JobRow
    <3> HIDE DEF dead
    <3> QED
      BY <3>1, <3>2 DEF Terminal
  <2>4. ~(Check(t) /\ job[task[t].job].status = "completed")
    BY <1>2 DEF Check, Terminal
  <2>5. ~Complete(t)
    <3> SUFFICES ASSUME Complete(t) PROVE FALSE
      OBVIOUS
    <3>1. job'[i] = [job[i] EXCEPT !.status = "completed", !.next = "null"]
      BY <1>2 DEF Complete, TypeOK
    <3> QED
      BY <1>0, <3>1 DEF JobRow, Terminal
  <2>6. ~Ended(t)
    BY <1>2, <2>1, <2>2, <2>3, <2>4, <2>5 DEF Ended
  <2> QED
    BY <1>2, <2>6, TaskGoesOn DEF Carrier
<1> QED
  BY <1>1, <1>2 DEF Carrier

\* Who writes an event.
LEMMA EventsCome ==
    ASSUME TypeOK, [Next]_vars
    PROVE  /\ pending \cup sent \subseteq pending' \cup sent'
           /\ \A e \in pending' \cup sent' :
                \/ e \in pending \cup sent
                \/ \E t \in Tasks : /\ QueueMaterials(t)
                                    /\ e = NewEvent(task[t].job, "materials", "materials", 0)
                \/ e.key = "manual"
                \/ /\ Recover /\ e.key = "recovered"
                   /\ e.job \in Requeued /\ e.n = job[e.job].attempt
<1> DEFINE Old == pending' \cup sent' = pending \cup sent
<1>1. ASSUME NEW t \in Tasks, Worker(t), ~QueueMaterials(t) PROVE Old
  BY <1>1 DEF Worker, ClaimTerminal, ClaimCanceled, Claim, Check, Start,
     Complete, WorkFails, Fail, Exit, RetryForeign, RetryEnds, RetryLater
<1>2. ASSUME NEW t \in Tasks, Beat(t) \/ Environment(t) PROVE Old
  BY <1>2 DEF Beat, Environment, Crash, HardLimit, BeatError, DatabaseError
<1>3. ASSUME NEW t \in Tasks, NEW e \in pending \cup sent, Dispatch(t, e) PROVE Old
  BY <1>3 DEF Dispatch
<1>4. ASSUME NEW t \in Tasks, QueueMaterials(t)
      PROVE  /\ sent' = sent /\ pending \subseteq pending'
             /\ \A e \in pending' : \/ e \in pending
                                    \/ e = NewEvent(task[t].job, "materials", "materials", 0)
  BY <1>4 DEF QueueMaterials
<1>5. ASSUME NEW j \in Jobs, LeaseExpires(j) \/ RetryComesDue(j) \/ Cancel(j) PROVE Old
  BY <1>5 DEF LeaseExpires, RetryComesDue, Cancel
<1>6. ASSUME NEW j \in Jobs, RetryManually(j)
      PROVE  /\ sent' = sent /\ pending \subseteq pending'
             /\ \A e \in pending' : e \in pending \/ e.key = "manual"
  BY <1>6 DEF RetryManually, NewEvent
<1>7. ASSUME Recover
      PROVE  /\ sent' = sent /\ pending \subseteq pending'
             /\ \A e \in pending' :
                  \/ e \in pending
                  \/ /\ e.key = "recovered" /\ e.job \in Requeued
                     /\ e.n = job[e.job].attempt
  BY <1>7 DEF Recover, NewEvent
<1>8. CASE UNCHANGED vars
  BY <1>8 DEF vars
<1> HIDE DEF Old
<1>9. Old => /\ pending \cup sent \subseteq pending' \cup sent'
             /\ \A e \in pending' \cup sent' : e \in pending \cup sent
  BY DEF Old
<1> QED
  BY <1>1, <1>2, <1>3, <1>4, <1>5, <1>6, <1>7, <1>8, <1>9 DEF Next

\* No message is lost with its execution in this step.
Spared == \A t \in Tasks : ~HardLimit(t) /\ ~DatabaseError(t)

\* The first materials message of a job is announced by its transcription.
LEMMA SpentByTranscription ==
    ASSUME TypeOK, [Next]_vars, NEW i \in Jobs
    PROVE  /\ Spent(i) => Spent(i)'
           /\ Spent(i)' => \/ Spent(i)
                           \/ \E t \in Tasks : QueueMaterials(t) /\ task[t].job = i
<1>1. Spent(i) => Spent(i)'
  BY EventsCome DEF Spent, KeyTaken
<1>2. ASSUME Spent(i)', ~Spent(i)
      PROVE  \E t \in Tasks : QueueMaterials(t) /\ task[t].job = i
  <2>1. PICK e \in pending' \cup sent' : e.job = i /\ e.key = "materials" /\ e.n = 0
    BY <1>2 DEF Spent, KeyTaken
  <2>2. e \notin pending \cup sent
    BY <1>2, <2>1 DEF Spent, KeyTaken
  <2>3. \E t \in Tasks : /\ QueueMaterials(t)
                         /\ e = NewEvent(task[t].job, "materials", "materials", 0)
    BY <2>1, <2>2, EventsCome
  <2> QED
    BY <2>1, <2>3 DEF NewEvent
<1> QED
  BY <1>1, <1>2

\* Whoever works on an untouched job finds it open.
LEMMA EngagedIsOpen ==
    ASSUME IInv, Held, NEW i \in Jobs, Watched(i), ~job[i].cancel,
           NEW t \in Tasks, Engaged(t, i), task[t].pc # "exit"
    PROVE  job[i].status \notin Terminal
<1>1. HeldBy(t, i)
  BY DEF Held
<1> QED
  BY <1>1, TasksAssumption DEF HeldBy, IInv, NoLeaseWhenParked, Terminal

\* An untouched job was untouched before the step, which spared every message.
LEMMA StillUntouched ==
    ASSUME TypeOK, TypeOK', [Next]_vars, NEW i \in Jobs, Untouched(i)'
    PROVE  Untouched(i) /\ Spared /\ ~RetryManually(i)
<1>1. /\ faults["hard_limit"] \in Nat /\ faults["db_error"] \in Nat
      /\ "hard_limit" \in FaultNames /\ "db_error" \in FaultNames
      /\ faults \in [FaultNames -> Nat] /\ manuals[i] \in Nat
  BY DEF TypeOK, FaultNames
<1>2. Watched(i) /\ ~job[i].cancel /\ manuals'[i] = 0
  BY StillWatched DEF Untouched
<1>3. faults'["hard_limit"] = 0 /\ faults'["db_error"] = 0
  BY DEF Untouched, Watched, Beaten
<1>4. faults["hard_limit"] = 0
  <2>1. faults'["hard_limit"] >= faults["hard_limit"]
    BY <1>1, CountersGrow
  <2> QED
    BY <1>1, <1>3, <2>1
<1>5. ~Fault("hard_limit") /\ ~Fault("db_error")
  BY <1>1, <1>3 DEF Fault
<1>6. ~RetryManually(i)
  BY <1>1, <1>2 DEF RetryManually, TypeOK
<1> QED
  BY <1>2, <1>4, <1>5, <1>6 DEF Untouched, Spared, HardLimit, DatabaseError

\* So what leads to an untouched job stays in place from step to step.
LEMMA NextOnItsWay ==
    ASSUME IInv, IInv', Held, OnItsWay, [Next]_vars
    PROVE  OnItsWay'
<1> SUFFICES ASSUME NEW i \in Jobs, Untouched(i)', job'[i].status \notin Terminal
             PROVE  Carrier(i, IF Spent(i) THEN {"materials"} ELSE Queues)'
  BY DEF OnItsWay
<1> USE DEF IInv
<1>1. Untouched(i) /\ Spared /\ ~RetryManually(i)
  BY StillUntouched
<1>2. Watched(i) /\ ~job[i].cancel
  BY <1>1 DEF Untouched
<1>3. job[i].status \notin Terminal
  BY <1>1, <1>2, Reopened, EngagedIsOpen
<1>4. CASE Spent(i)
  <2>1. Carrier(i, {"materials"}) /\ Spent(i)'
    BY <1>1, <1>3, <1>4, SpentByTranscription DEF OnItsWay
  <2>2. ASSUME NEW t \in Tasks, QueueMaterials(t), task[t].phase \in {"materials"}
        PROVE  FALSE
    BY <2>2 DEF QueueMaterials, Transcribes
  <2>3. Carrier(i, {"materials"})'
    BY <1>1, <2>1, <2>2, CarriersStay DEF Spared
  <2> QED
    BY <2>1, <2>3 DEF Carrier
<1>5. ASSUME ~Spent(i), NEW t \in Tasks, QueueMaterials(t), task[t].job = i
      PROVE  Carrier(i, IF Spent(i) THEN {"materials"} ELSE Queues)'
  <2> DEFINE e == NewEvent(i, "materials", "materials", 0)
  <2>1. e \in pending'
    BY <1>5 DEF QueueMaterials, Spent
  <2>2. e.job = i /\ e.queue = "materials"
    BY DEF NewEvent
  <2> QED
    BY <2>1, <2>2 DEF Carrier, Queues
<1>6. CASE /\ ~Spent(i)
           /\ \A t \in Tasks : ~(QueueMaterials(t) /\ task[t].job = i)
  <2>1. Carrier(i, Queues) /\ ~Spent(i)'
    BY <1>1, <1>3, <1>6, SpentByTranscription DEF OnItsWay
  <2>2. Carrier(i, Queues)'
    BY <1>1, <1>6, <2>1, CarriersStay DEF Spared
  <2> QED
    BY <2>1, <2>2 DEF Carrier
<1> QED
  BY <1>4, <1>5, <1>6

\* A step starts one attempt at most, and a queued job without an owner waits for it.
LEMMA AttemptStep ==
    ASSUME TypeOK, [Next]_vars, NEW i \in Jobs
    PROVE  \/ job'[i].attempt = job[i].attempt + 1
           \/ /\ job'[i].attempt = job[i].attempt
              /\ job[i].status = "queued" /\ job[i].owner = None =>
                   \/ job'[i].status = "queued" /\ job'[i].owner = None
                   \/ job'[i].cancel
                   \/ \E t \in Tasks : Engaged(t, i)
<1> DEFINE Goal ==
        \/ job'[i].attempt = job[i].attempt + 1
        \/ /\ job'[i].attempt = job[i].attempt
           /\ job[i].status = "queued" /\ job[i].owner = None =>
                \/ job'[i].status = "queued" /\ job'[i].owner = None
                \/ job'[i].cancel
                \/ \E t \in Tasks : Engaged(t, i)
<1>0. job[i] \in JobRow
  BY DEF TypeOK
<1>1. ASSUME job'[i] = job[i] PROVE Goal
  BY <1>1
<1>2. \A r \in JobRow : /\ Canceled(r).attempt = r.attempt
                        /\ Unleased(r).attempt = r.attempt
                        /\ DeadLetter(r).attempt = r.attempt
                        /\ Canceled(r).cancel = r.cancel
  BY DEF Canceled, Unleased, DeadLetter, JobRow
<1>3. ASSUME NEW t \in Tasks, Worker(t), task[t].job = i PROVE Goal
  <2>1. CASE ClaimTerminal(t)
    BY <1>1, <2>1 DEF ClaimTerminal
  <2>2. CASE ClaimCanceled(t)
    <3>1. job'[i] = Canceled(job[i]) /\ job[i].cancel
      BY <1>3, <2>2 DEF ClaimCanceled, TypeOK
    <3> QED
      BY <1>0, <1>2, <3>1
  <2>3. CASE Claim(t)
    <3>1. job'[i].attempt = job[i].attempt + 1
      BY <1>0, <1>3, <2>3 DEF Claim, TypeOK, JobRow
    <3> QED
      BY <3>1
  <2>4. CASE ~ClaimTerminal(t) /\ ~ClaimCanceled(t) /\ ~Claim(t)
    <3>1. Engaged(t, i)
      BY <1>3, <2>4 DEF Worker, Check, Start, QueueMaterials, Complete, WorkFails, Fail,
                        Exit, RetryForeign, RetryEnds, RetryLater, At, Engaged, Running
    <3>2. job'[i].attempt \in {job[i].attempt, job[i].attempt + 1}
      <4>1. CASE Check(t) \/ WorkFails(t) \/ RetryForeign(t)
        BY <4>1 DEF Check, WorkFails, RetryForeign
      <4>2. CASE Start(t)
        BY <1>0, <1>3, <4>2 DEF Start, TypeOK, JobRow
      <4>3. CASE QueueMaterials(t) \/ Complete(t) \/ Fail(t)
        BY <1>0, <1>3, <4>3 DEF QueueMaterials, Complete, Fail, TypeOK, JobRow
      <4>4. CASE Exit(t)
        <5>1. job'[i] \in {job[i], Unleased(job[i])}
          BY <1>3, <4>4 DEF Exit, TypeOK
        <5> QED
          BY <1>0, <1>2, <5>1
      <4>5. CASE RetryEnds(t)
        <5> DEFINE dead == [DeadLetter(Unleased(job[i])) EXCEPT !.next = "null"]
        <5>1. job'[i] \in {Canceled(job[i]), dead}
          BY <1>3, <4>5 DEF RetryEnds, TypeOK
        <5>2. dead.attempt = job[i].attempt
          BY <1>0 DEF DeadLetter, Unleased, JobRow
        <5> HIDE DEF dead
        <5> QED
          BY <1>0, <1>2, <5>1, <5>2
      <4>6. CASE RetryLater(t)
        <5> DEFINE later == [Unleased(job[i]) EXCEPT !.status = "retrying", !.next = "ahead"]
        <5>1. job'[i] = later
          BY <1>3, <4>6 DEF RetryLater, TypeOK
        <5>2. later.attempt = job[i].attempt
          BY <1>0 DEF Unleased, JobRow
        <5> QED
          BY <5>1, <5>2
      <4> QED
        BY <1>3, <2>4, <4>1, <4>2, <4>3, <4>4, <4>5, <4>6 DEF Worker
    <3> QED
      BY <3>1, <3>2
  <2> QED
    BY <2>1, <2>2, <2>3, <2>4
<1>4. ASSUME NEW t \in Tasks, Worker(t) PROVE Goal
  BY <1>1, <1>3, <1>4, WorkerRow
<1>5. ASSUME NEW t \in Tasks, Beat(t), job'[i] # job[i] PROVE Goal
  <2>1. Engaged(t, i)
    BY <1>5 DEF Beat, TypeOK, Engaged
  <2>2. job'[i] \in {Canceled(job[i]), [job[i] EXCEPT !.lease = "ahead"]}
    BY <1>5 DEF Beat, TypeOK
  <2>3. [job[i] EXCEPT !.lease = "ahead"].attempt = job[i].attempt
    BY <1>0 DEF JobRow
  <2> QED
    BY <1>0, <1>2, <2>1, <2>2, <2>3
<1>6. ASSUME \/ \E t \in Tasks : \/ Environment(t)
                                \/ \E e \in pending \cup sent : Dispatch(t, e)
             \/ UNCHANGED vars
      PROVE  Goal
  BY <1>1, <1>6 DEF Environment, Crash, HardLimit, BeatError, DatabaseError, Dispatch, vars
<1>7. ASSUME NEW j \in Jobs, LeaseExpires(j) \/ RetryComesDue(j) PROVE Goal
  <2>1. /\ job'[i].attempt = job[i].attempt /\ job'[i].status = job[i].status
        /\ job'[i].owner = job[i].owner
    BY <1>0, <1>7 DEF LeaseExpires, RetryComesDue, TypeOK, JobRow
  <2> QED
    BY <2>1
<1>8. ASSUME NEW j \in Jobs, Cancel(j) PROVE Goal
  <2> DEFINE r == [job[i] EXCEPT !.cancel = TRUE]
  <2>1. r \in JobRow /\ r.cancel /\ r.attempt = job[i].attempt
    BY <1>0 DEF JobRow
  <2>2. job'[i] \in {job[i], r, Canceled(r)}
    BY <1>8 DEF Cancel, TypeOK
  <2> HIDE DEF r
  <2>3. CASE job'[i] \in {r, Canceled(r)}
    <3>1. job'[i].cancel /\ job'[i].attempt = job[i].attempt
      BY <1>2, <2>1, <2>3
    <3> QED
      BY <3>1
  <2> QED
    BY <1>1, <2>2, <2>3
<1>9. ASSUME NEW j \in Jobs, RetryManually(j), job'[i] # job[i] PROVE Goal
  <2> DEFINE again == [Unleased(job[i]) EXCEPT !.status = "queued", !.next = "null",
                                               !.cancel = FALSE]
  <2>1. job'[i] = again /\ job[i].status # "queued"
    BY <1>9 DEF RetryManually, TypeOK
  <2>2. again.attempt = job[i].attempt
    BY <1>0 DEF Unleased, JobRow
  <2> QED
    BY <2>1, <2>2
<1>10. ASSUME Recover, job'[i] # job[i] PROVE Goal
  <2> DEFINE r == Unleased(job[i])
             again == [r EXCEPT !.status = "queued"]
  <2>1. job'[i] = Recovered(i) /\ job[i].status # "queued"
    BY <1>10 DEF Recover, Expired
  <2>2. r \in JobRow /\ r.attempt = job[i].attempt
    BY <1>0, <1>2, RowTypes
  <2>3. again.attempt = r.attempt
    BY <2>2 DEF JobRow
  <2>4. job'[i] \in {Canceled(r), DeadLetter(r), again}
    BY <2>1 DEF Recovered
  <2> HIDE DEF r, again
  <2>5. job'[i].attempt = job[i].attempt
    BY <1>2, <2>2, <2>3, <2>4
  <2> QED
    BY <2>1, <2>5
<1> QED
  BY <1>1, <1>4, <1>5, <1>6, <1>7, <1>8, <1>9, <1>10 DEF Next

\* A recovery spends the key of the attempt at hand, and no later one finds it.
LEMMA NextRecoveredOnce ==
    ASSUME IInv, IInv', Held, RecoveredOnce, [Next]_vars
    PROVE  RecoveredOnce'
<1> USE DEF IInv
<1> SUFFICES ASSUME NEW i \in Jobs, Watched(i)', ~job'[i].cancel,
                    NEW e \in pending' \cup sent', e.job = i, e.key = "recovered"
             PROVE  \/ e.n < job'[i].attempt
                    \/ /\ e.n = job'[i].attempt
                       /\ job'[i].status = "queued" /\ job'[i].owner = None
  BY DEF RecoveredOnce
<1>0. /\ job[i] \in JobRow /\ job[i].attempt \in Nat /\ job'[i].attempt \in Nat
      /\ e.n \in Nat
  BY DEF TypeOK, JobRow, Event
<1>1. Watched(i) /\ ~job[i].cancel
  BY StillWatched
<1>2. CASE e \in pending \cup sent
  <2>1. \/ e.n < job[i].attempt
        \/ e.n = job[i].attempt /\ job[i].status = "queued" /\ job[i].owner = None
    BY <1>1, <1>2 DEF RecoveredOnce
  <2>2. job[i].owner = None => \A t \in Tasks : ~Engaged(t, i)
    BY <1>1, TasksAssumption DEF Held, HeldBy
  <2> QED
    BY <1>0, <2>1, <2>2, AttemptStep
<1>3. CASE e \notin pending \cup sent
  <2> DEFINE again == [Unleased(job[i]) EXCEPT !.status = "queued"]
  <2>1. Recover /\ i \in Requeued /\ e.n = job[i].attempt
    BY <1>3, EventsCome DEF NewEvent
  <2>2. Unleased(job[i]) \in JobRow /\ Unleased(job[i]).attempt = job[i].attempt
    BY <1>0, RowTypes DEF Unleased, JobRow
  <2>3. job'[i] = again
    <3>1. job'[i] = Recovered(i) /\ ~job[i].cancel /\ job[i].attempt < MaxAttempts
      BY <2>1 DEF Recover, Requeued
    <3>2. Unleased(job[i]).cancel = job[i].cancel
      BY <1>0, RowTypes
    <3> QED
      BY <1>0, <2>2, <3>1, <3>2, BoundAssumption DEF Recovered
  <2>4. again.status = "queued" /\ again.owner = None /\ again.attempt = job[i].attempt
    BY <1>0, <2>2, RowTypes DEF JobRow
  <2> QED
    BY <2>1, <2>3, <2>4
<1> QED
  BY <1>2, <1>3

\* At first the request is in the outbox, and no key of a recovery or of a second phase.
LEMMA InitLed == Init => OnItsWay /\ RecoveredOnce
<1> SUFFICES ASSUME Init PROVE OnItsWay /\ RecoveredOnce
  OBVIOUS
<1>1. ASSUME NEW j \in Jobs
      PROVE  Carrier(j, IF Spent(j) THEN {"materials"} ELSE Queues)
  <2> DEFINE e == NewEvent(j, FirstQueue(j), RequestKey(j), 0)
  <2>1. e \in pending /\ e.job = j /\ e.queue = FirstQueue(j)
    BY <1>1 DEF Init, NewEvent
  <2>2. FirstQueue(j) \in Queues
    BY DEF FirstQueue, Queues
  <2>3. Spent(j) => FirstQueue(j) = "materials"
    BY DEF Spent, KeyTaken, Init, NewEvent, RequestKey, FirstQueue
  <2> QED
    BY <2>1, <2>2, <2>3 DEF Carrier
<1>2. \A e \in pending \cup sent : e.key # "recovered"
  BY DEF Init, NewEvent, RequestKey
<1> QED
  BY <1>1, <1>2 DEF OnItsWay, RecoveredOnce

\* Both hold of every state.
LEMMA LedHolds == Spec => [](OnItsWay /\ RecoveredOnce)
<1>1. IInv /\ IInv' /\ Held /\ OnItsWay /\ RecoveredOnce /\ [Next]_vars
        => OnItsWay' /\ RecoveredOnce'
  BY NextOnItsWay, NextRecoveredOnce
<1> QED
  BY <1>1, InitLed, FencingHolds, PTL DEF Spec

\* What carries a job in the sense of the proof does so in that of the model.
LEMMA CarriedByCarrier ==
    ASSUME NEW j \in Jobs, NEW Q, Carrier(j, Q)
    PROVE  Carried(j)
BY DEF Carrier, Carried, Holding

\* The dedup key a recovery needs is free.
LEMMA RecoveryGoesOn == Spec => []RecoveryUnblocked
<1>1. IInv /\ RecoveredOnce => RecoveryUnblocked
  <2> SUFFICES ASSUME IInv, RecoveredOnce, Beaten, NEW j \in Requeued, manuals[j] = 0,
                      NEW e \in pending \cup sent, e.job = j, e.key = "recovered",
                      e.n = job[j].attempt
               PROVE  FALSE
    BY DEF RecoveryUnblocked, KeyTaken
  <2>1. j \in Jobs /\ ~job[j].cancel /\ job[j].status \in {"running", "retrying"}
    BY DEF Requeued, Expired
  <2>2. job[j].attempt \in Nat
    BY <2>1 DEF IInv, TypeOK, JobRow
  <2> QED
    BY <2>1, <2>2 DEF RecoveredOnce, Watched
<1> QED
  BY <1>1, InvariantHolds, LedHolds, PTL

(* An active job nobody canceled or retried is never without something that leads to it,
   of either kind and however often its messages are duplicated and its workers die, as
   long as no execution is cut off and no transaction refused. *)
THEOREM UntouchedJobsAreLed ==
    Spec => [](\A j \in Jobs : Untouched(j) /\ job[j].status \in Active => Carried(j))
<1>1. OnItsWay => \A j \in Jobs : Untouched(j) /\ job[j].status \in Active => Carried(j)
  BY CarriedByCarrier DEF OnItsWay, Active, Terminal
<1> QED
  BY <1>1, LedHolds, PTL

\* Whatever an operator does to it, a job of one phase is led to until it is at rest.
AllLed == \A j \in Jobs : job[j].status \notin Terminal => Carrier(j, Queues)

\* A step that reopens a job is made by one that leads to it, or announces it.
LEMMA NextAllLed ==
    ASSUME \A j \in Jobs : Kind[j] = "materials",
           Faults \cap {"hard_limit", "db_error"} = {},
           TypeOK, AllLed, [Next]_vars
    PROVE  AllLed'
<1> SUFFICES ASSUME NEW i \in Jobs, job'[i].status \notin Terminal
             PROVE  Carrier(i, Queues)'
  BY DEF AllLed
<1>1. Spared
  BY DEF Spared, HardLimit, DatabaseError, Fault
<1>2. ASSUME NEW t \in Tasks, QueueMaterials(t) PROVE FALSE
  <2>1. task[t].job \in Jobs
    BY <1>2, BusyTask DEF QueueMaterials, At
  <2> QED
    BY <1>2, <2>1 DEF QueueMaterials, Transcribes
<1>3. CASE job[i].status \notin Terminal
  <2>1. Carrier(i, Queues)
    BY <1>3 DEF AllLed
  <2> QED
    BY <1>1, <1>2, <2>1, CarriersStay DEF Spared
<1>4. CASE RetryManually(i)
  <2> DEFINE e == NewEvent(i, job[i].queue, "manual", manuals[i])
  <2>1. e \in pending' /\ e.job = i /\ e.queue = job[i].queue
    BY <1>4 DEF RetryManually, NewEvent
  <2>2. job[i].queue \in Queues
    BY DEF TypeOK, JobRow
  <2> QED
    BY <2>1, <2>2 DEF Carrier
<1>5. ASSUME NEW t \in Tasks, Engaged(t, i), Start(t) \/ Fail(t) \/ RetryLater(t)
      PROVE  Carrier(i, Queues)'
  <2>1. task[t].pc \in {"start", "fail", "retry"} /\ task[t].job = i
    BY <1>5 DEF Start, Fail, RetryLater, At, Engaged
  <2>2. ~Ended(t)
    <3>1. ~ClaimTerminal(t) /\ ~ClaimCanceled(t) /\ ~Check(t) /\ ~Complete(t)
      BY <2>1 DEF ClaimTerminal, ClaimCanceled, Check, Complete, At
    <3>2. ~RetryEnds(t)
      <4> SUFFICES ASSUME RetryEnds(t) PROVE FALSE
        OBVIOUS
      <4>1. task'[t] = Idle
        BY DEF RetryEnds, Ack, TypeOK
      <4>2. RetryLater(t)
        BY <1>5 DEF RetryEnds, Start, Fail, At
      <4>3. task'[t].pc = "message"
        BY <2>1, <4>2, BusyTask DEF RetryLater, Goto, TypeOK, At, Busy
      <4> QED
        BY <4>1, <4>3 DEF Idle
    <3> QED
      BY <1>1, <1>2, <3>1, <3>2 DEF Ended, Spared
  <2>3. task[t].phase \in Queues
    BY <2>1, BusyTask DEF At, Busy
  <2> QED
    BY <2>1, <2>2, <2>3, TaskGoesOn DEF Carrier
<1> QED
  BY <1>2, <1>3, <1>4, <1>5, Reopened

(* No job of one phase is lost, whatever an operator cancels or retries, whichever worker
   dies and however often a message is duplicated; and no recovery is blocked by a spent
   key.  Excluded are executions cut off by the hard limit and refused transactions,
   which acknowledge a message whose job they leave as it is. *)
THEOREM NoJobIsLost ==
    ASSUME \A j \in Jobs : Kind[j] = "materials",
           Faults \cap {"hard_limit", "db_error"} = {}
    PROVE  Spec => []NothingIsLost
<1>1. Init => AllLed
  <2> SUFFICES ASSUME Init, NEW j \in Jobs PROVE Carrier(j, Queues)
    BY DEF AllLed
  <2> DEFINE e == NewEvent(j, FirstQueue(j), RequestKey(j), 0)
  <2>1. e \in pending /\ e.job = j /\ e.queue \in Queues
    BY DEF Init, NewEvent, FirstQueue, Queues
  <2> QED
    BY <2>1 DEF Carrier
<1>2. TypeOK /\ AllLed /\ [Next]_vars => AllLed'
  BY NextAllLed
<1>3. AllLed => NoOrphan
  BY CarriedByCarrier DEF AllLed, NoOrphan, Active, Terminal
<1>4. NoOrphan /\ RecoveryUnblocked => NothingIsLost
  BY DEF NothingIsLost
<1> QED
  BY <1>1, <1>2, <1>3, <1>4, TypeCorrect, RecoveryGoesOn, PTL DEF Spec
=============================================================================
