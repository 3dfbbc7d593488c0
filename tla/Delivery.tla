------------------------------ MODULE Delivery ------------------------------
(***************************************************************************)
(* Publication of a generation run and its delivery to the portal: the     *)
(* outbox events material.published and material.revoked, the dispatcher   *)
(* that claims them, the delivery messages and workers, and the portal     *)
(* handler that writes the delivery row and the notifications.             *)
(*                                                                         *)
(* All runs belong to one student with one recipient.  An event's due and  *)
(* stale columns say what the code's comparisons with the clock return.    *)
(***************************************************************************)
EXTENDS Naturals, FiniteSets

CONSTANTS
    Runs,           \* generation runs of one student
    Dispatchers,    \* concurrent tutor.dispatch_outbox tasks
    Workers,        \* delivery workers
    MaxAttempts,    \* outbox_max_attempts
    MaxClaims,      \* bound: lease tokens minted
    MaxResends,     \* bound: operator resends
    MaxFaults,      \* bound: crashes, lost messages and failing steps
    Prompt          \* whether workers take messages within the dispatch lease

ASSUME RunsAssumption == IsFiniteSet(Runs)
ASSUME BoundAssumption ==
    /\ MaxAttempts \in Nat \ {0} /\ MaxClaims \in Nat
    /\ MaxResends \in Nat /\ MaxFaults \in Nat
ASSUME PromptAssumption == Prompt \in BOOLEAN

VARIABLES
    run,        \* GenerationRun.status
    event,      \* the outbox row of each event
    held,       \* held[d]: what dispatcher d has claimed and not yet enqueued
    broker,     \* delivery messages waiting in Redis
    worker,     \* worker[w]: the message it holds and where it stands
    delivery,   \* MaterialDelivery.status of each run, "none" without a row
    notified,   \* notifications, by kind and run
    minted,     \* lease tokens minted so far
    resends,    \* operator resends so far
    faults      \* faults so far

vars == <<run, event, held, broker, worker, delivery, notified, minted, resends,
          faults>>

Topics == {"material.published", "material.revoked"}
Events == [run : Runs, topic : Topics]
EventStatuses == {"absent", "pending", "dispatching", "completed", "dead"}
NoToken == 0

Row == [status : EventStatuses, attempts : Nat, token : Nat, due : BOOLEAN,
        stale : BOOLEAN]
Messages == [event : Events, token : Nat]
DeliveryStatuses == {"none", "available", "revoked"}
Kinds == {"material_available", "material_replaced", "material_revoked"}
Free == [pc |-> "free"]
WorkerState == {Free} \cup
    [pc : {"handle", "commit", "complete", "release"}, msg : Messages,
     seen : DeliveryStatuses]

TypeOK ==
    /\ run \in [Runs -> {"approved", "published", "revoked"}]
    /\ event \in [Events -> Row]
    /\ held \in [Dispatchers -> SUBSET Messages]
    /\ broker \subseteq Messages
    /\ worker \in [Workers -> WorkerState]
    /\ delivery \in [Runs -> DeliveryStatuses]
    /\ notified \subseteq [kind : Kinds, run : Runs]
    /\ minted \in Nat /\ resends \in Nat /\ faults \in Nat

Published(r) == [run |-> r, topic |-> "material.published"]
Revoked(r) == [run |-> r, topic |-> "material.revoked"]

Fresh(status) == [status |-> status, attempts |-> 0, token |-> NoToken,
                  due |-> TRUE, stale |-> FALSE]

Init ==
    /\ run = [r \in Runs |-> "approved"]
    /\ event = [e \in Events |-> Fresh("absent")]
    /\ held = [d \in Dispatchers |-> {}]
    /\ broker = {}
    /\ worker = [w \in Workers |-> Free]
    /\ delivery = [r \in Runs |-> "none"]
    /\ notified = {}
    /\ minted = 0 /\ resends = 0 /\ faults = 0

Fault == faults < MaxFaults /\ faults' = faults + 1

-----------------------------------------------------------------------------
(* PublicationService: the run row is locked, status and event are committed
   together. *)

Publish(r) ==
    /\ run[r] = "approved"
    /\ run' = [run EXCEPT ![r] = "published"]
    /\ event' = [event EXCEPT ![Published(r)] = Fresh("pending")]
    /\ UNCHANGED <<held, broker, worker, delivery, notified, minted, resends, faults>>

Revoke(r) ==
    /\ run[r] = "published"
    /\ run' = [run EXCEPT ![r] = "revoked"]
    /\ event' = [event EXCEPT ![Revoked(r)] = Fresh("pending")]
    /\ UNCHANGED <<held, broker, worker, delivery, notified, minted, resends, faults>>

-----------------------------------------------------------------------------
(* OutboxService.dispatch_pending *)

\* Mutant: events whose delivery got lost are not claimed again.
ClaimableOnce ==
    {e \in Events : event[e].status = "pending" /\ event[e].due}

Claimable ==
    {e \in Events : \/ event[e].status = "pending" /\ event[e].due
                    \/ event[e].status = "dispatching" /\ event[e].stale}

\* _claim_batch claims the whole batch in one transaction; each event gets a
\* token of its own.
ClaimBatch(d) ==
    /\ held[d] = {}
    /\ Claimable # {}
    /\ minted + Cardinality(Claimable) <= MaxClaims
    /\ \E token \in [Claimable -> (minted + 1)..(minted + Cardinality(Claimable))] :
         /\ \A e, f \in Claimable : e # f => token[e] # token[f]
         /\ event' = [e \in Events |->
                        IF e \in Claimable
                        THEN [event[e] EXCEPT !.status = "dispatching",
                                !.token = token[e], !.stale = FALSE]
                        ELSE event[e]]
         /\ held' = [held EXCEPT ![d] =
                       {[event |-> e, token |-> token[e]] : e \in Claimable}]
    /\ minted' = minted + Cardinality(Claimable)
    /\ UNCHANGED <<run, broker, worker, delivery, notified, resends, faults>>

\* Mutant: an enqueued delivery counts as done, as an enqueued job does.
EnqueueCompletes(d, m) ==
    /\ m \in held[d]
    /\ held' = [held EXCEPT ![d] = @ \ {m}]
    /\ broker' = broker \cup {m}
    /\ event' = [event EXCEPT ![m.event].status = "completed"]
    /\ UNCHANGED <<run, worker, delivery, notified, minted, resends, faults>>

\* enqueue_outbox_delivery succeeds: the event stays dispatching.
Enqueue(d, m) ==
    /\ m \in held[d]
    /\ held' = [held EXCEPT ![d] = @ \ {m}]
    /\ broker' = broker \cup {m}
    /\ UNCHANGED <<run, event, worker, delivery, notified, minted, resends, faults>>

\* _release_failed: the failed row, back in the queue or dead.
Released(x) ==
    [x EXCEPT !.attempts = @ + 1, !.token = NoToken, !.due = FALSE, !.stale = FALSE,
              !.status = IF x.attempts + 1 >= MaxAttempts THEN "dead" ELSE "pending"]

\* Redis refuses the message: _release_failed without a token, whatever the row
\* has become meanwhile.
EnqueueFails(d, m) ==
    /\ m \in held[d]
    /\ Fault
    /\ held' = [held EXCEPT ![d] = @ \ {m}]
    /\ event' = [event EXCEPT ![m.event] = Released(@)]
    /\ UNCHANGED <<run, broker, worker, delivery, notified, minted, resends>>

\* The dispatcher stops; what it had not enqueued is forgotten.
DispatcherCrash(d) ==
    /\ held[d] # {}
    /\ Fault
    /\ held' = [held EXCEPT ![d] = {}]
    /\ UNCHANGED <<run, event, broker, worker, delivery, notified, minted, resends>>

-----------------------------------------------------------------------------
(* tutor.deliver_outbox *)

\* The row is read without a lock; a message that is out of date is dropped.
Current(m) ==
    event[m.event].token = m.token /\ event[m.event].status \notin {"completed", "dead"}

Receive(w, m) ==
    /\ worker[w] = Free
    /\ m \in broker
    /\ broker' = broker \ {m}
    /\ worker' = IF Current(m)
                 THEN [worker EXCEPT ![w] = [pc |-> "handle", msg |-> m, seen |-> "none"]]
                 ELSE worker
    /\ UNCHANGED <<run, event, held, delivery, notified, minted, resends, faults>>

AtMsg(w, pc, topic) == worker[w].pc = pc /\ worker[w].msg.event.topic = topic

Goto(w, pc) == worker' = [worker EXCEPT ![w].pc = pc]

\* Mutant: the run's status is not asked for.
LoadAnyRun(w) ==
    /\ AtMsg(w, "handle", "material.published")
    /\ worker' = [worker EXCEPT ![w].pc = "commit",
                                ![w].seen = delivery[worker[w].msg.event.run]]
    /\ UNCHANGED <<run, event, held, broker, delivery, notified, minted, resends, faults>>

\* PortalEventHandler._deliver begins: the run must be published; no lock is taken
\* on it or on the delivery it reads.
Load(w) ==
    LET r == worker[w].msg.event.run IN
    /\ AtMsg(w, "handle", "material.published")
    /\ worker' = IF run[r] = "published"
                 THEN [worker EXCEPT ![w].pc = "commit", ![w].seen = delivery[r]]
                 ELSE [worker EXCEPT ![w].pc = "release"]
    /\ UNCHANGED <<run, event, held, broker, delivery, notified, minted, resends, faults>>

Note(k, r) == notified' = notified \cup {[kind |-> k, run |-> r]}

\* _deliver commits.  Without a row it inserts one, and meets the unique
\* constraint if another worker was first; a status it read as available is no
\* change and is not written.  The kind of the notification, a part of its
\* dedup key, depends on the student's other deliveries.
DeliverCommit(w) ==
    LET r == worker[w].msg.event.run
        seen == worker[w].seen
        other == \E q \in Runs \ {r} : delivery[q] = "available"
    IN
    /\ AtMsg(w, "commit", "material.published")
    /\ \/ /\ seen = "none" /\ delivery[r] # "none"
          /\ Goto(w, "release")
          /\ UNCHANGED <<delivery, notified>>
       \/ /\ ~(seen = "none" /\ delivery[r] # "none")
          /\ delivery' = IF seen = "available" THEN delivery
                         ELSE [delivery EXCEPT ![r] = "available"]
          /\ Note(IF other THEN "material_replaced" ELSE "material_available", r)
          /\ Goto(w, "complete")
    /\ UNCHANGED <<run, event, held, broker, minted, resends, faults>>

\* PortalEventHandler._revoke: one transaction under a lock on the delivery; with
\* no delivery there is nothing to do.
HandleRevoked(w) ==
    LET r == worker[w].msg.event.run IN
    /\ AtMsg(w, "handle", "material.revoked")
    /\ \/ /\ delivery[r] = "none"
          /\ UNCHANGED <<delivery, notified>>
       \/ /\ delivery[r] # "none"
          /\ delivery' = [delivery EXCEPT ![r] = "revoked"]
          /\ Note("material_revoked", r)
    /\ Goto(w, "complete")
    /\ UNCHANGED <<run, event, held, broker, minted, resends, faults>>

\* Any other exception of the handler.
HandlerFails(w) ==
    /\ worker[w].pc \in {"handle", "commit"}
    /\ Fault
    /\ Goto(w, "release")
    /\ UNCHANGED <<run, event, held, broker, delivery, notified, minted, resends>>

\* _complete with the message's token.
Complete(w) ==
    LET m == worker[w].msg IN
    /\ worker[w].pc = "complete"
    /\ event' = IF event[m.event].token # m.token THEN event
                ELSE [event EXCEPT ![m.event].status = "completed",
                                   ![m.event].token = NoToken]
    /\ worker' = [worker EXCEPT ![w] = Free]
    /\ UNCHANGED <<run, held, broker, delivery, notified, minted, resends, faults>>

\* Mutant: a worker whose claim is out of date releases the row all the same.
ReleaseUnfenced(w) ==
    LET m == worker[w].msg IN
    /\ worker[w].pc = "release"
    /\ event' = [event EXCEPT ![m.event] = Released(@)]
    /\ worker' = [worker EXCEPT ![w] = Free]
    /\ UNCHANGED <<run, held, broker, delivery, notified, minted, resends, faults>>

\* _release_failed with the message's token.  The task then retries itself with
\* that token, which the row no longer bears.
Release(w) ==
    LET m == worker[w].msg IN
    /\ worker[w].pc = "release"
    /\ \/ /\ event[m.event].token # m.token            \* "stale"
          /\ UNCHANGED <<event, broker>>
       \/ /\ event[m.event].token = m.token
          /\ event' = [event EXCEPT ![m.event] = Released(@)]
          /\ broker' = IF event'[m.event].status = "dead" THEN broker
                       ELSE broker \cup {m}
    /\ worker' = [worker EXCEPT ![w] = Free]
    /\ UNCHANGED <<run, held, delivery, notified, minted, resends, faults>>

\* The worker is lost: its message returns to the queue, or is lost too.
WorkerCrash(w) ==
    /\ worker[w] # Free
    /\ Fault
    /\ \/ broker' = broker \cup {worker[w].msg}
       \/ UNCHANGED broker
    /\ worker' = [worker EXCEPT ![w] = Free]
    /\ UNCHANGED <<run, event, held, delivery, notified, minted, resends>>

-----------------------------------------------------------------------------
(* Time and the operator *)

ComesDue(e) ==
    /\ event[e].status = "pending" /\ ~event[e].due
    /\ event' = [event EXCEPT ![e].due = TRUE]
    /\ UNCHANGED <<run, held, broker, worker, delivery, notified, minted, resends,
                   faults>>

\* The messages in the queue or at a worker.
InFlight == broker \cup {worker[w].msg : w \in {x \in Workers : worker[x] # Free}}

\* A dispatcher is through with its batch long before the dispatch lease ends; a
\* queue or a delivery worker may be slower than that, unless Prompt.
GoesStale(e) ==
    /\ event[e].status = "dispatching" /\ ~event[e].stale
    /\ \A d \in Dispatchers : \A m \in held[d] : m.event # e
    /\ Prompt => [event |-> e, token |-> event[e].token] \notin InFlight
    /\ event' = [event EXCEPT ![e].stale = TRUE]
    /\ UNCHANGED <<run, held, broker, worker, delivery, notified, minted, resends,
                   faults>>

\* DurableJobService.resend_outbox.
Resend(e) ==
    /\ event[e].status # "absent"
    /\ resends < MaxResends
    /\ resends' = resends + 1
    /\ event' = [event EXCEPT ![e] = Fresh("pending")]
    /\ UNCHANGED <<run, held, broker, worker, delivery, notified, minted, faults>>

-----------------------------------------------------------------------------
Dispatch(d) == ClaimBatch(d) \/ \E m \in held[d] : Enqueue(d, m)

Deliver(w) ==
    \/ \E m \in broker : Receive(w, m)
    \/ Load(w) \/ DeliverCommit(w) \/ HandleRevoked(w) \/ Complete(w) \/ Release(w)

Next ==
    \/ \E r \in Runs : Publish(r) \/ Revoke(r)
    \/ \E d \in Dispatchers :
          \/ Dispatch(d) \/ DispatcherCrash(d)
          \/ \E m \in held[d] : EnqueueFails(d, m)
    \/ \E w \in Workers : Deliver(w) \/ HandlerFails(w) \/ WorkerCrash(w)
    \/ \E e \in Events : ComesDue(e) \/ GoesStale(e) \/ Resend(e)

Spec == Init /\ [][Next]_vars

\* Beat schedules the dispatcher, workers run, time passes.  Nobody is obliged to
\* publish, revoke or resend.
Fairness ==
    /\ \A d \in Dispatchers : WF_vars(Dispatch(d))
    /\ \A w \in Workers : WF_vars(Deliver(w))
    /\ \A e \in Events : WF_vars(ComesDue(e)) /\ WF_vars(GoesStale(e))

FairSpec == Spec /\ Fairness

-----------------------------------------------------------------------------
\* A published event is completed only when the delivery exists: a lost message, a
\* crash or a second claim never completes an event nobody handled.
CompletedWasDelivered ==
    \A r \in Runs : event[Published(r)].status = "completed" => delivery[r] # "none"

\* The rows are well formed and no event is lost.
DeliverySound == TypeOK /\ CompletedWasDelivered

\* A completed event stays completed, unless an operator resends one, although the
\* dispatcher releases a failed event without looking at its token.
CompletedStays ==
    [][\A e \in Events : event[e].status = "completed" /\ resends' = 0
         => event'[e].status = "completed"]_vars

\* The outbox, its messages and its workers keep the promise of Portal: whichever of
\* them are lost, late or doubled, the recipient is shown and told what the tutor
\* decided, and settled events stay settled (PublicationService, OutboxService,
\* PortalEventHandler).
Outcome(e) ==
    IF event[e].status \in {"pending", "dispatching"} THEN "open" ELSE event[e].status

Promise == INSTANCE Portal WITH
    decided <- run,
    outcome <- [e \in Events |-> Outcome(e)],
    shown <- delivery,
    told <- notified,
    resent <- resends > 0

PortalKept == Promise!Spec

\* Once the revocation has been handled and no worker is at the publication any
\* more, the recipient does not see the delivery.
AtPublication(r) ==
    \E w \in Workers : worker[w].pc \in {"handle", "commit"}
                       /\ worker[w].msg.event = Published(r)

RevokedIsWithdrawn ==
    \A r \in Runs : event[Revoked(r)].status = "completed" /\ ~AtPublication(r)
                      => delivery[r] # "available"

\* Every event is completed or dead in the end, whatever messages, workers and
\* dispatchers are lost on the way, if the workers keep up with the dispatch
\* lease: a message that waits longer is claimed anew, and its token dropped.
EventsSettle ==
    \A e \in Events :
        event[e].status = "pending" ~> event[e].status \in {"completed", "dead"}
=============================================================================
