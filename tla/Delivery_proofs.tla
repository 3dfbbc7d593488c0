-------------------------- MODULE Delivery_proofs --------------------------
(***************************************************************************)
(* What the outbox and the portal's handler keep, for every set of runs,   *)
(* dispatchers and workers: a completed publication has its delivery, a    *)
(* completed event stays completed, and, with a single delivery worker, a  *)
(* handled revocation leaves nothing to see.                               *)
(***************************************************************************)
EXTENDS Delivery, FiniteSetTheorems, TLAPS

-----------------------------------------------------------------------------
(* TYPES *)

\* There are finitely many events, so that a batch mints finitely many tokens.
LEMMA EventsAreFinite ==
    ASSUME NEW S \in SUBSET Events
    PROVE  Cardinality(S) \in Nat
<1> DEFINE f == [p \in Runs \X Topics |-> [run |-> p[1], topic |-> p[2]]]
<1>1. IsFiniteSet(Topics)
  <2>1. IsFiniteSet({"material.published"})
    BY FS_Singleton
  <2>2. Topics = {"material.published"} \cup {"material.revoked"}
    BY DEF Topics
  <2> QED
    BY <2>1, <2>2, FS_AddElement
<1>2. IsFiniteSet(Runs \X Topics)
  BY <1>1, RunsAssumption, FS_Product
<1>3. f \in Surjection(Runs \X Topics, Events)
  <2>1. f \in [Runs \X Topics -> Events]
    BY DEF Events
  <2>2. ASSUME NEW e \in Events PROVE \E p \in Runs \X Topics : f[p] = e
    <3>1. <<e.run, e.topic>> \in Runs \X Topics
      BY DEF Events
    <3>2. f[<<e.run, e.topic>>] = e
      BY <3>1 DEF Events
    <3> QED
      BY <3>1, <3>2
  <2> QED
    BY <2>1, <2>2 DEF Surjection
<1>4. IsFiniteSet(Events)
  BY <1>2, <1>3, FS_Surjection
<1> QED
  BY <1>4, FS_Subset, FS_CardinalityType

\* A worker that is not free has a message and what it saw of the delivery.
LEMMA WorkerFields ==
    ASSUME TypeOK, NEW w \in Workers
    PROVE  /\ worker[w] = Free <=> worker[w].pc = "free"
           /\ worker[w].pc # "free" =>
                /\ worker[w] \in [pc : {"handle", "commit", "complete", "release"},
                                  msg : Messages, seen : DeliveryStatuses]
                /\ worker[w].msg \in Messages
                /\ worker[w].msg.event \in Events
                /\ worker[w].msg.event.run \in Runs
                /\ worker[w].msg.token \in Nat
                /\ worker[w].seen \in DeliveryStatuses
<1>1. worker[w] \in WorkerState
  BY DEF TypeOK
<1>2. CASE worker[w] = Free
  BY <1>2 DEF Free
<1>3. CASE worker[w] # Free
  <2>1. worker[w] \in [pc : {"handle", "commit", "complete", "release"},
                       msg : Messages, seen : DeliveryStatuses]
    BY <1>1, <1>3 DEF WorkerState
  <2>2. worker[w].msg \in Messages /\ worker[w].seen \in DeliveryStatuses
        /\ worker[w].pc # "free"
    BY <2>1
  <2> QED
    BY <1>3, <2>1, <2>2 DEF Messages, Events
<1> QED
  BY <1>2, <1>3

\* A worker that moves on keeps its message.
LEMMA GotoTyped ==
    ASSUME TypeOK, NEW w \in Workers, worker[w].pc # "free",
           NEW pc \in {"handle", "commit", "complete", "release"}, Goto(w, pc)
    PROVE  worker' \in [Workers -> WorkerState]
<1>1. worker[w] \in [pc : {"handle", "commit", "complete", "release"},
                     msg : Messages, seen : DeliveryStatuses]
  BY WorkerFields
<1>2. [worker[w] EXCEPT !.pc = pc] \in WorkerState
  BY <1>1 DEF WorkerState
<1> QED
  BY <1>2 DEF Goto, TypeOK

\* A failed row is a row.
LEMMA ReleasedTyped ==
    ASSUME NEW x \in Row PROVE Released(x) \in Row
<1> DEFINE status == IF x.attempts + 1 >= MaxAttempts THEN "dead" ELSE "pending"
<1>1. /\ x.attempts + 1 \in Nat /\ status \in EventStatuses
      /\ x \in [status : EventStatuses, attempts : Nat, token : Nat, due : BOOLEAN,
                stale : BOOLEAN]
  BY DEF Row, EventStatuses
<1> HIDE DEF status
<1>2. [x EXCEPT !.attempts = @ + 1, !.token = 0, !.due = FALSE, !.stale = FALSE,
                !.status = status] \in Row
  BY <1>1 DEF Row
<1> QED
  BY <1>2 DEF Released, NoToken, status

\* A fresh row is a row.
LEMMA FreshTyped ==
    ASSUME NEW s \in EventStatuses PROVE Fresh(s) \in Row
BY DEF Fresh, Row, NoToken

\* What a batch leaves: each event it claims has a token of its own, minted for it,
\* and the dispatcher holds that event with that token.
LEMMA BatchRows ==
    ASSUME TypeOK, NEW d \in Dispatchers, ClaimBatch(d)
    PROVE  /\ minted' \in Nat /\ minted <= minted' /\ Claimable \subseteq Events
           /\ event' \in [Events -> Row]
           /\ \A e \in Claimable :
                /\ event'[e].status = "dispatching" /\ ~event'[e].stale
                /\ event'[e].token \in (minted + 1)..minted'
           /\ \A e \in Events \ Claimable : event'[e] = event[e]
           /\ held' \in [Dispatchers -> SUBSET Messages]
           /\ held'[d] = {[event |-> e, token |-> event'[e].token] : e \in Claimable}
           /\ \A c \in Dispatchers \ {d} : held'[c] = held[c]
<1> DEFINE n == Cardinality(Claimable)
<1>1. Claimable \subseteq Events
  BY DEF Claimable
<1>2. n \in Nat /\ minted \in Nat /\ minted' = minted + n
  BY <1>1, EventsAreFinite DEF ClaimBatch, TypeOK
<1>3. PICK token \in [Claimable -> (minted + 1)..(minted + n)] :
         /\ event' = [e \in Events |->
                        IF e \in Claimable
                        THEN [event[e] EXCEPT !.status = "dispatching",
                                !.token = token[e], !.stale = FALSE]
                        ELSE event[e]]
         /\ held' = [held EXCEPT ![d] =
                       {[event |-> e, token |-> token[e]] : e \in Claimable}]
  BY DEF ClaimBatch
<1> HIDE DEF n
<1>4. \A e \in Claimable : token[e] \in (minted + 1)..minted' /\ token[e] \in Nat
  <2>1. \A e \in Claimable : token[e] \in (minted + 1)..(minted + n)
    OBVIOUS
  <2> QED
    BY <1>2, <2>1
<1>5. \A e \in Events : event[e] \in Row
  BY DEF TypeOK
<1>6. ASSUME NEW e \in Claimable
      PROVE  /\ event'[e] \in Row /\ event'[e].token = token[e]
             /\ event'[e].status = "dispatching" /\ ~event'[e].stale
  <2>1. event'[e] = [event[e] EXCEPT !.status = "dispatching", !.token = token[e],
                                     !.stale = FALSE]
    BY <1>1, <1>3
  <2>2. token[e] \in Nat /\ event[e] \in Row
    BY <1>1, <1>4, <1>5
  <2> QED
    BY <2>1, <2>2 DEF Row, EventStatuses
<1>7. event' \in [Events -> Row]
  <2>1. \A e \in Events : event'[e] \in Row
    BY <1>3, <1>5, <1>6
  <2> QED
    BY <1>3, <2>1
<1>8. /\ held'[d] = {[event |-> e, token |-> event'[e].token] : e \in Claimable}
      /\ \A c \in Dispatchers \ {d} : held'[c] = held[c]
  <2>1. held'[d] = {[event |-> e, token |-> token[e]] : e \in Claimable}
        /\ \A c \in Dispatchers \ {d} : held'[c] = held[c]
    BY <1>3 DEF TypeOK
  <2>2. \A e \in Claimable : token[e] = event'[e].token
    BY <1>6
  <2> QED
    BY <2>1, <2>2
<1>9. {[event |-> e, token |-> token[e]] : e \in Claimable} \subseteq Messages
  BY <1>1, <1>4 DEF Messages
<1>10. held' \in [Dispatchers -> SUBSET Messages]
  BY <1>3, <1>9 DEF TypeOK
<1>11. \A e \in Claimable :
         /\ event'[e].status = "dispatching" /\ ~event'[e].stale
         /\ event'[e].token \in (minted + 1)..minted'
  BY <1>4, <1>6
<1>12. \A e \in Events \ Claimable : event'[e] = event[e]
  BY <1>3
<1>13. minted' \in Nat /\ minted <= minted'
  BY <1>2
<1> QED
  BY <1>1, <1>7, <1>8, <1>10, <1>11, <1>12, <1>13

\* Every step keeps the types.
LEMMA TypeStep == TypeOK /\ [Next]_vars => TypeOK'
<1> SUFFICES ASSUME TypeOK, [Next]_vars PROVE TypeOK'
  OBVIOUS
<1>1. ASSUME NEW r \in Runs, Publish(r) \/ Revoke(r) PROVE TypeOK'
  <2>1. Fresh("pending") \in Row
    BY FreshTyped DEF EventStatuses
  <2> QED
    BY <1>1, <2>1 DEF Publish, Revoke, TypeOK
<1>2. ASSUME NEW d \in Dispatchers, ClaimBatch(d) PROVE TypeOK'
  <2>1. /\ minted' \in Nat
        /\ event' \in [Events -> Row]
        /\ held' \in [Dispatchers -> SUBSET Messages]
    BY <1>2, BatchRows
  <2> QED
    BY <1>2, <2>1 DEF ClaimBatch, TypeOK
<1>3. ASSUME NEW d \in Dispatchers, NEW m \in held[d], Enqueue(d, m) PROVE TypeOK'
  BY <1>3 DEF Enqueue, TypeOK
<1>4. ASSUME NEW d \in Dispatchers, NEW m \in held[d], EnqueueFails(d, m) PROVE TypeOK'
  <2>1. m.event \in Events /\ event[m.event] \in Row
    BY DEF TypeOK, Messages
  <2>2. Released(event[m.event]) \in Row
    BY <2>1, ReleasedTyped
  <2> QED
    BY <1>4, <2>1, <2>2 DEF EnqueueFails, Fault, TypeOK
<1>5. ASSUME NEW d \in Dispatchers, DispatcherCrash(d) PROVE TypeOK'
  BY <1>5 DEF DispatcherCrash, Fault, TypeOK
<1>6. ASSUME NEW w \in Workers, NEW m \in broker, Receive(w, m) PROVE TypeOK'
  <2>1. [pc |-> "handle", msg |-> m, seen |-> "none"] \in WorkerState
    BY DEF TypeOK, WorkerState, DeliveryStatuses
  <2>2. worker' \in [Workers -> WorkerState]
    BY <1>6, <2>1 DEF Receive, TypeOK
  <2> QED
    BY <1>6, <2>2 DEF Receive, TypeOK
<1>7. ASSUME NEW w \in Workers, Load(w) PROVE TypeOK'
  <2> DEFINE r == worker[w].msg.event.run
  <2>1. worker[w].pc # "free"
    BY <1>7 DEF Load, AtMsg
  <2>2. /\ worker[w] \in [pc : {"handle", "commit", "complete", "release"},
                          msg : Messages, seen : DeliveryStatuses]
        /\ delivery[r] \in DeliveryStatuses
    BY <2>1, WorkerFields DEF TypeOK
  <2>3. /\ [worker[w] EXCEPT !.pc = "commit", !.seen = delivery[r]] \in WorkerState
        /\ [worker[w] EXCEPT !.pc = "release"] \in WorkerState
    BY <2>2 DEF WorkerState
  <2>4. worker' \in [Workers -> WorkerState]
    BY <1>7, <2>3 DEF Load, TypeOK
  <2> QED
    BY <1>7, <2>4 DEF Load, TypeOK
<1>8. ASSUME NEW w \in Workers, DeliverCommit(w) PROVE TypeOK'
  <2>1. worker[w].pc # "free"
    BY <1>8 DEF DeliverCommit, AtMsg
  <2>2. worker[w].msg.event.run \in Runs
    BY <2>1, WorkerFields
  <2>3. worker' \in [Workers -> WorkerState]
    BY <1>8, <2>1, GotoTyped DEF DeliverCommit
  <2>4. delivery' \in [Runs -> DeliveryStatuses]
    BY <1>8, <2>2 DEF DeliverCommit, TypeOK, DeliveryStatuses
  <2>5. notified' \subseteq [kind : Kinds, run : Runs]
    BY <1>8, <2>2 DEF DeliverCommit, TypeOK, Note, Kinds
  <2> QED
    BY <1>8, <2>3, <2>4, <2>5 DEF DeliverCommit, TypeOK
<1>9. ASSUME NEW w \in Workers, HandleRevoked(w) PROVE TypeOK'
  <2>1. worker[w].pc # "free"
    BY <1>9 DEF HandleRevoked, AtMsg
  <2>2. worker[w].msg.event.run \in Runs
    BY <2>1, WorkerFields
  <2>3. worker' \in [Workers -> WorkerState]
    BY <1>9, <2>1, GotoTyped DEF HandleRevoked
  <2>4. delivery' \in [Runs -> DeliveryStatuses]
    BY <1>9, <2>2 DEF HandleRevoked, TypeOK, DeliveryStatuses
  <2>5. notified' \subseteq [kind : Kinds, run : Runs]
    BY <1>9, <2>2 DEF HandleRevoked, TypeOK, Note, Kinds
  <2> QED
    BY <1>9, <2>3, <2>4, <2>5 DEF HandleRevoked, TypeOK
<1>10. ASSUME NEW w \in Workers, Complete(w) PROVE TypeOK'
  <2>1. worker[w].pc # "free"
    BY <1>10 DEF Complete
  <2>2. worker[w].msg.event \in Events
    BY <2>1, WorkerFields
  <2>3. event' \in [Events -> Row]
    BY <1>10, <2>2 DEF Complete, TypeOK, Row, EventStatuses, NoToken
  <2> QED
    BY <1>10, <2>3 DEF Complete, TypeOK, WorkerState
<1>11. ASSUME NEW w \in Workers, Release(w) PROVE TypeOK'
  <2>1. worker[w].pc # "free"
    BY <1>11 DEF Release
  <2>2. worker[w].msg \in Messages /\ worker[w].msg.event \in Events
    BY <2>1, WorkerFields
  <2>3. Released(event[worker[w].msg.event]) \in Row
    BY <2>2, ReleasedTyped DEF TypeOK
  <2>4. event' \in [Events -> Row] /\ broker' \subseteq Messages
    BY <1>11, <2>2, <2>3 DEF Release, TypeOK
  <2> QED
    BY <1>11, <2>4 DEF Release, TypeOK, WorkerState
<1>12. ASSUME NEW w \in Workers, HandlerFails(w) PROVE TypeOK'
  <2>1. worker' \in [Workers -> WorkerState]
    BY <1>12, GotoTyped DEF HandlerFails
  <2> QED
    BY <1>12, <2>1 DEF HandlerFails, Fault, TypeOK
<1>13. ASSUME NEW w \in Workers, WorkerCrash(w) PROVE TypeOK'
  <2>1. worker[w].msg \in Messages
    BY <1>13, WorkerFields DEF WorkerCrash
  <2> QED
    BY <1>13, <2>1 DEF WorkerCrash, Fault, TypeOK, WorkerState
<1>14. ASSUME NEW e \in Events, ComesDue(e) \/ GoesStale(e) PROVE TypeOK'
  <2>1. event' \in [Events -> Row]
    <3>1. CASE ComesDue(e)
      BY <3>1 DEF ComesDue, TypeOK, Row
    <3>2. CASE GoesStale(e)
      BY <3>2 DEF GoesStale, TypeOK, Row
    <3> QED
      BY <1>14, <3>1, <3>2
  <2> QED
    BY <1>14, <2>1 DEF ComesDue, GoesStale, TypeOK
<1>15. ASSUME NEW e \in Events, Resend(e) PROVE TypeOK'
  <2>1. Fresh("pending") \in Row
    BY FreshTyped DEF EventStatuses
  <2> QED
    BY <1>15, <2>1 DEF Resend, TypeOK
<1>16. CASE UNCHANGED vars
  BY <1>16 DEF vars, TypeOK
<1> QED
  BY <1>1, <1>2, <1>3, <1>4, <1>5, <1>6, <1>7, <1>8, <1>9, <1>10, <1>11, <1>12,
     <1>13, <1>14, <1>15, <1>16 DEF Next, Dispatch, Deliver

-----------------------------------------------------------------------------
(* ROWS AND MESSAGES *)

At(w, m) == worker[w].pc # "free" /\ worker[w].msg = m
Exists(e) == event[e].status # "absent"

\* A token stands in a row only between a claim and its end, and there is no
\* event of a run that was not published, or not revoked.
RowsInv ==
    /\ \A e \in Events : event[e].status # "dispatching" => event[e].token = NoToken
    /\ \A r \in Runs : run[r] = "approved" => ~Exists(Published(r))
    /\ \A r \in Runs : run[r] # "revoked" => ~Exists(Revoked(r))

\* Every message bears a token that was minted, and those a dispatcher or a worker
\* has in hand are about events that exist.
MessagesInv ==
    /\ \A d \in Dispatchers : \A m \in held[d] :
          m.token \in 1..minted /\ Exists(m.event)
    /\ \A m \in broker : m.token \in 1..minted
    /\ \A w \in Workers : worker[w].pc # "free" =>
          worker[w].msg.token \in 1..minted /\ Exists(worker[w].msg.event)

\* Where a message comes from: a claim, a dispatcher, the queue or a worker.
LEMMA MessagesMove ==
    ASSUME TypeOK, [Next]_vars
    PROVE  /\ \A d \in Dispatchers : \A m \in held'[d] :
                m \in held[d] \/ ( /\ ClaimBatch(d) /\ m.event \in Claimable
                                  /\ m = [event |-> m.event, token |-> event'[m.event].token])
           /\ \A m \in broker' : \/ m \in broker
                                 \/ \E d \in Dispatchers : m \in held[d] /\ Enqueue(d, m)
                                 \/ \E w \in Workers : At(w, m)
           /\ \A w \in Workers : worker'[w].pc # "free" =>
                \/ At(w, worker'[w].msg)
                \/ worker'[w].msg \in broker /\ Current(worker'[w].msg)
           /\ minted' \in Nat /\ minted <= minted'
<1> USE DEF At
<1>0. minted \in Nat
  BY DEF TypeOK
<1>1. ASSUME NEW d \in Dispatchers, ClaimBatch(d)
      PROVE  \A c \in Dispatchers : \A m \in held'[c] :
                m \in held[c] \/ ( /\ ClaimBatch(c) /\ m.event \in Claimable
                                  /\ m = [event |-> m.event, token |-> event'[m.event].token])
  <2>1. /\ held'[d] = {[event |-> e, token |-> event'[e].token] : e \in Claimable}
        /\ \A c \in Dispatchers \ {d} : held'[c] = held[c]
    BY <1>1, BatchRows
  <2>2. ASSUME NEW m \in held'[d]
        PROVE  m.event \in Claimable
               /\ m = [event |-> m.event, token |-> event'[m.event].token]
    BY <2>1
  <2> QED
    BY <1>1, <2>1, <2>2
<1>2. ASSUME NEW d \in Dispatchers, ClaimBatch(d)
      PROVE  /\ UNCHANGED <<broker, worker>>
             /\ minted' \in Nat /\ minted <= minted'
  BY <1>2, BatchRows DEF ClaimBatch
<1>3. ASSUME NEW d \in Dispatchers, NEW m \in held[d], Enqueue(d, m)
      PROVE  /\ \A c \in Dispatchers : held'[c] \subseteq held[c]
             /\ broker' = broker \cup {m}
             /\ UNCHANGED <<worker, minted>>
  BY <1>3 DEF Enqueue, TypeOK
<1>4. ASSUME NEW d \in Dispatchers, DispatcherCrash(d) \/ \E m \in held[d] : EnqueueFails(d, m)
      PROVE  /\ \A c \in Dispatchers : held'[c] \subseteq held[c]
             /\ UNCHANGED <<broker, worker, minted>>
  BY <1>4 DEF DispatcherCrash, EnqueueFails, TypeOK
<1>5. ASSUME NEW w \in Workers, Load(w) \/ DeliverCommit(w) \/ HandleRevoked(w) \/ HandlerFails(w)
      PROVE  /\ worker[w].pc # "free"
             /\ \A v \in Workers : worker'[v].msg = worker[v].msg
             /\ \A v \in Workers \ {w} : worker'[v] = worker[v]
             /\ UNCHANGED <<held, broker, minted>>
  <2>0. worker[w].pc # "free"
    BY <1>5 DEF Load, DeliverCommit, HandleRevoked, HandlerFails, AtMsg
  <2>1. worker[w] \in [pc : {"handle", "commit", "complete", "release"},
                       msg : Messages, seen : DeliveryStatuses]
    BY <2>0, WorkerFields
  <2>2. CASE Load(w)
    <3>1. /\ worker'[w].msg = worker[w].msg
          /\ \A v \in Workers \ {w} : worker'[v] = worker[v]
      BY <2>1, <2>2 DEF Load, TypeOK
    <3> QED
      BY <2>0, <2>2, <3>1 DEF Load
  <2>3. CASE \E pc \in {"complete", "release"} : Goto(w, pc)
    <3>1. /\ worker'[w].msg = worker[w].msg
          /\ \A v \in Workers \ {w} : worker'[v] = worker[v]
      BY <2>1, <2>3 DEF Goto, TypeOK
    <3>2. CASE Load(w)
      BY <2>2, <3>2
    <3> QED
      BY <1>5, <2>0, <3>1, <3>2 DEF DeliverCommit, HandleRevoked, HandlerFails
  <2> QED
    BY <1>5, <2>2, <2>3 DEF DeliverCommit, HandleRevoked, HandlerFails
<1>6. ASSUME NEW w \in Workers, Complete(w) \/ Release(w) \/ WorkerCrash(w)
      PROVE  /\ worker[w].pc # "free" /\ worker'[w].pc = "free"
             /\ \A v \in Workers \ {w} : worker'[v] = worker[v]
             /\ broker' \subseteq broker \cup {worker[w].msg}
             /\ UNCHANGED <<held, minted>>
  <2>1. worker[w].pc # "free"
    BY <1>6, WorkerFields DEF Complete, Release, WorkerCrash
  <2>2. worker' = [worker EXCEPT ![w] = Free] /\ UNCHANGED <<held, minted>>
    BY <1>6 DEF Complete, Release, WorkerCrash
  <2>3. broker' \subseteq broker \cup {worker[w].msg}
    BY <1>6 DEF Complete, Release, WorkerCrash
  <2> QED
    BY <2>1, <2>2, <2>3 DEF TypeOK, Free
<1>7. ASSUME NEW w \in Workers, NEW m \in broker, Receive(w, m)
      PROVE  /\ \A v \in Workers \ {w} : worker'[v] = worker[v]
             /\ worker'[w].pc # "free" => worker'[w].msg = m /\ Current(m)
             /\ broker' \subseteq broker
             /\ UNCHANGED <<held, minted>>
  BY <1>7 DEF Receive, TypeOK, Free
<1>8. ASSUME \/ \E r \in Runs : Publish(r) \/ Revoke(r)
             \/ \E e \in Events : ComesDue(e) \/ GoesStale(e) \/ Resend(e)
             \/ UNCHANGED vars
      PROVE  UNCHANGED <<held, broker, worker, minted>>
  BY <1>8 DEF Publish, Revoke, ComesDue, GoesStale, Resend, vars
<1>9. CASE \E d \in Dispatchers : ClaimBatch(d)
  BY <1>9, <1>1, <1>2
<1>10. CASE \E d \in Dispatchers : \E m \in held[d] : Enqueue(d, m)
  <2>1. PICK d \in Dispatchers : \E m \in held[d] : Enqueue(d, m)
    BY <1>10
  <2>2. PICK m \in held[d] : Enqueue(d, m)
    BY <2>1
  <2> QED
    BY <1>0, <1>3, <2>2
<1>11. CASE \E d \in Dispatchers :
               DispatcherCrash(d) \/ \E m \in held[d] : EnqueueFails(d, m)
  BY <1>0, <1>4, <1>11
<1>12. CASE \E w \in Workers :
               Load(w) \/ DeliverCommit(w) \/ HandleRevoked(w) \/ HandlerFails(w)
  <2>1. PICK w \in Workers :
               Load(w) \/ DeliverCommit(w) \/ HandleRevoked(w) \/ HandlerFails(w)
    BY <1>12
  <2> QED
    BY <1>0, <1>5, <2>1
<1>13. CASE \E w \in Workers : Complete(w) \/ Release(w) \/ WorkerCrash(w)
  BY <1>0, <1>6, <1>13
<1>14. CASE \E w \in Workers : \E m \in broker : Receive(w, m)
  BY <1>0, <1>7, <1>14
<1>15. CASE \/ \E r \in Runs : Publish(r) \/ Revoke(r)
            \/ \E e \in Events : ComesDue(e) \/ GoesStale(e) \/ Resend(e)
            \/ UNCHANGED vars
  BY <1>0, <1>8, <1>15
<1> QED
  BY <1>9, <1>10, <1>11, <1>12, <1>13, <1>14, <1>15 DEF Next, Dispatch, Deliver

\* A worker that ends with the token of the row it wrote to held a claim on it: the
\* row is dispatching.
LEMMA FenceHolds ==
    ASSUME TypeOK, RowsInv, MessagesInv, NEW w \in Workers, worker[w].pc # "free",
           event[worker[w].msg.event].token = worker[w].msg.token
    PROVE  event[worker[w].msg.event].status = "dispatching"
<1>1. worker[w].msg.event \in Events /\ worker[w].msg.token \in 1..minted
  BY WorkerFields DEF MessagesInv
<1> QED
  BY <1>1 DEF RowsInv, NoToken, TypeOK

\* What a step may do to the row of an event.
RowKept(e) == event'[e] = event[e]
RowWritten(e) ==
    \/ /\ ~Exists(e) /\ event'[e] = Fresh("pending")
       /\ \E r \in Runs : (Publish(r) /\ e = Published(r)) \/ (Revoke(r) /\ e = Revoked(r))
    \/ \E d \in Dispatchers :
          /\ ClaimBatch(d) /\ e \in Claimable
          /\ event'[e].status = "dispatching" /\ ~event'[e].stale
    \/ \E d \in Dispatchers : \E m \in held[d] :
          /\ EnqueueFails(d, m) /\ m.event = e /\ event'[e] = Released(event[e])
    \/ \E w \in Workers :
          /\ worker[w].pc = "complete" /\ Complete(w) /\ At(w, [event |-> e, token |-> event[e].token])
          /\ event'[e].status = "completed" /\ event'[e].token = NoToken
    \/ \E w \in Workers :
          /\ Release(w) /\ At(w, [event |-> e, token |-> event[e].token])
          /\ event'[e] = Released(event[e])
    \/ /\ event[e].status = "pending" /\ ComesDue(e)
       /\ event'[e].status = "pending" /\ event'[e].token = event[e].token
    \/ /\ event[e].status = "dispatching" /\ GoesStale(e)
       /\ event'[e].status = "dispatching" /\ event'[e].token = event[e].token
    \/ /\ Resend(e) /\ Exists(e) /\ event'[e] = Fresh("pending")

\* Every step leaves the row of an event as it is or writes it in one of these ways.
LEMMA RowsMove ==
    ASSUME TypeOK, RowsInv, [Next]_vars, NEW e \in Events
    PROVE  RowKept(e) \/ RowWritten(e)
<1>0. /\ event \in [Events -> Row] /\ event[e] \in Row
      /\ \A r \in Runs : Published(r) \in Events /\ Revoked(r) \in Events
  BY DEF TypeOK, Published, Revoked, Events, Topics
<1>1. ASSUME NEW r \in Runs, Publish(r) \/ Revoke(r) PROVE RowKept(e) \/ RowWritten(e)
  <2>1. CASE e = Published(r) /\ Publish(r)
    BY <1>0, <2>1 DEF Publish, RowsInv, RowWritten
  <2>2. CASE e = Revoked(r) /\ Revoke(r)
    <3>1. event'[e] = Fresh("pending") /\ run[r] = "published"
      BY <1>0, <2>2 DEF Revoke
    <3>2. ~Exists(e)
      BY <2>2, <3>1 DEF RowsInv
    <3> QED
      BY <2>2, <3>1, <3>2 DEF RowWritten
  <2>3. CASE ~(e = Published(r) /\ Publish(r)) /\ ~(e = Revoked(r) /\ Revoke(r))
    BY <1>0, <1>1, <2>3 DEF Publish, Revoke, RowKept
  <2> QED
    BY <2>1, <2>2, <2>3
<1>2. ASSUME NEW d \in Dispatchers, ClaimBatch(d) PROVE RowKept(e) \/ RowWritten(e)
  BY <1>2, BatchRows DEF RowKept, RowWritten
<1>3. ASSUME NEW d \in Dispatchers, NEW m \in held[d], EnqueueFails(d, m)
      PROVE  RowKept(e) \/ RowWritten(e)
  <2>1. CASE m.event = e
    <3>1. event'[e] = Released(event[e])
      BY <1>0, <1>3, <2>1 DEF EnqueueFails
    <3> QED
      BY <1>3, <2>1, <3>1 DEF RowWritten
  <2>2. CASE m.event # e
    BY <1>0, <1>3, <2>2 DEF EnqueueFails, RowKept
  <2> QED
    BY <2>1, <2>2
<1>4. ASSUME NEW w \in Workers, Complete(w) \/ Release(w)
      PROVE  RowKept(e) \/ RowWritten(e)
  <2> DEFINE m == worker[w].msg
  <2>0. worker[w].pc # "free" /\ m \in [event : Events, token : Nat]
    BY <1>4, WorkerFields DEF Complete, Release, Messages
  <2>1. CASE m.event = e /\ event[e].token = m.token
    <3>1. At(w, [event |-> e, token |-> event[e].token])
      BY <2>0, <2>1 DEF At
    <3>2. CASE Complete(w)
      <4>1. event'[e].status = "completed" /\ event'[e].token = NoToken
        BY <1>0, <2>1, <3>2 DEF Complete, Row
      <4> QED
        BY <3>1, <3>2, <4>1 DEF RowWritten, Complete
    <3>3. CASE Release(w)
      <4>1. event'[e] = Released(event[e])
        BY <1>0, <2>1, <3>3 DEF Release
      <4> QED
        BY <3>1, <3>3, <4>1 DEF RowWritten
    <3> QED
      BY <1>4, <3>2, <3>3
  <2>2. CASE ~(m.event = e /\ event[e].token = m.token)
    BY <1>0, <1>4, <2>0, <2>2 DEF Complete, Release, RowKept
  <2> QED
    BY <2>1, <2>2
<1>5. ASSUME NEW f \in Events, ComesDue(f) \/ GoesStale(f) \/ Resend(f)
      PROVE  RowKept(e) \/ RowWritten(e)
  <2>1. CASE f = e /\ ComesDue(f)
    <3>1. event'[e].status = "pending" /\ event'[e].token = event[e].token
      BY <1>0, <2>1 DEF ComesDue, Row
    <3> QED
      BY <2>1, <3>1 DEF ComesDue, RowWritten
  <2>2. CASE f = e /\ GoesStale(f)
    <3>1. event'[e].status = "dispatching" /\ event'[e].token = event[e].token
      BY <1>0, <2>2 DEF GoesStale, Row
    <3> QED
      BY <2>2, <3>1 DEF GoesStale, RowWritten
  <2>3. CASE f = e /\ Resend(f)
    <3>1. Exists(e) /\ event'[e] = Fresh("pending")
      BY <1>0, <2>3 DEF Resend, Exists
    <3> QED
      BY <2>3, <3>1 DEF RowWritten
  <2>4. CASE f # e
    BY <1>0, <1>5, <2>4 DEF ComesDue, GoesStale, Resend, RowKept
  <2> QED
    BY <1>5, <2>1, <2>2, <2>3, <2>4
<1>6. CASE UNCHANGED event
  BY <1>6 DEF RowKept
<1>7. ASSUME NEW w \in Workers,
             \/ \E m \in broker : Receive(w, m)
             \/ Load(w) \/ DeliverCommit(w) \/ HandleRevoked(w)
             \/ HandlerFails(w) \/ WorkerCrash(w)
      PROVE  UNCHANGED event
  BY <1>7 DEF Receive, Load, DeliverCommit, HandleRevoked, HandlerFails, WorkerCrash
<1>8. ASSUME NEW d \in Dispatchers, DispatcherCrash(d) \/ \E m \in held[d] : Enqueue(d, m)
      PROVE  UNCHANGED event
  BY <1>8 DEF DispatcherCrash, Enqueue
<1>9. UNCHANGED vars => UNCHANGED event
  BY DEF vars
<1> QED
  BY <1>1, <1>2, <1>3, <1>4, <1>5, <1>6, <1>7, <1>8, <1>9 DEF Next, Dispatch, Deliver

\* An event never disappears.
LEMMA EventsStay ==
    ASSUME TypeOK, RowsInv, [Next]_vars, NEW e \in Events, Exists(e)
    PROVE  Exists(e)'
<1>1. Released(event[e]).status \in {"dead", "pending"}
  <2>1. event[e] \in [status : EventStatuses, attempts : Nat, token : Nat,
                      due : BOOLEAN, stale : BOOLEAN]
    BY DEF TypeOK, Row
  <2> QED
    BY <2>1 DEF Released
<1>2. RowKept(e) \/ RowWritten(e)
  BY RowsMove
<1> QED
  BY <1>1, <1>2 DEF RowKept, RowWritten, Exists, Fresh

\* Every step keeps the rows and the messages in order.
LEMMA RowsStep ==
    ASSUME TypeOK, RowsInv, MessagesInv, [Next]_vars
    PROVE  RowsInv' /\ MessagesInv'
<1>0. /\ TypeOK'
      /\ \A r \in Runs : Published(r) \in Events /\ Revoked(r) \in Events
  BY TypeStep DEF Published, Revoked, Events, Topics
<1>1. ASSUME NEW e \in Events PROVE event'[e].status # "dispatching" => event'[e].token = NoToken
  <2>1. Released(event[e]).token = NoToken
    <3>1. event[e] \in [status : EventStatuses, attempts : Nat, token : Nat,
                        due : BOOLEAN, stale : BOOLEAN]
      BY DEF TypeOK, Row
    <3> QED
      BY <3>1 DEF Released, NoToken
  <2>2. RowKept(e) \/ RowWritten(e)
    BY RowsMove
  <2> QED
    BY <2>1, <2>2 DEF RowKept, RowWritten, RowsInv, Fresh
<1>2. ASSUME NEW e \in Events, ~Exists(e), Exists(e)'
      PROVE  \E r \in Runs : (Publish(r) /\ e = Published(r)) \/ (Revoke(r) /\ e = Revoked(r))
  <2>1. RowWritten(e)
    BY <1>2, RowsMove DEF RowKept, Exists
  <2>2. event[e].status = "absent" /\ event[e].token = NoToken
    BY <1>2 DEF Exists, RowsInv
  <2>3. ASSUME NEW d \in Dispatchers, NEW m \in held[d], m.event = e PROVE FALSE
    BY <1>2, <2>3 DEF MessagesInv
  <2>4. ASSUME NEW w \in Workers, At(w, [event |-> e, token |-> event[e].token]) PROVE FALSE
    <3>1. worker[w].pc # "free" /\ worker[w].msg.event = e
      BY <2>4 DEF At
    <3> QED
      BY <1>2, <3>1 DEF MessagesInv
  <2> QED
    BY <1>2, <2>1, <2>2, <2>3, <2>4 DEF RowWritten, Claimable, Exists
<1>3. ASSUME NEW r \in Runs
      PROVE  /\ run'[r] # run[r] => (Publish(r) /\ run'[r] = "published")
                                    \/ (Revoke(r) /\ run'[r] = "revoked")
             /\ Publish(r) => run[r] = "approved" /\ run'[r] = "published"
             /\ Revoke(r) => run[r] = "published" /\ run'[r] = "revoked"
  BY DEF Next, Dispatch, Deliver, Publish, Revoke, ClaimBatch, Enqueue, EnqueueFails,
         DispatcherCrash, Receive, Load, DeliverCommit, HandleRevoked, HandlerFails,
         Complete, Release, WorkerCrash, ComesDue, GoesStale, Resend, vars, TypeOK
<1>4. ASSUME NEW r \in Runs, run'[r] = "approved" PROVE ~Exists(Published(r))'
  <2>1. run[r] = "approved" /\ ~Publish(r)
    BY <1>3, <1>4
  <2>2. ~Exists(Published(r))
    BY <2>1 DEF RowsInv
  <2> QED
    BY <1>0, <1>2, <2>1, <2>2 DEF Published, Revoked
<1>5. ASSUME NEW r \in Runs, run'[r] # "revoked" PROVE ~Exists(Revoked(r))'
  <2>1. run[r] # "revoked" /\ ~Revoke(r)
    BY <1>3, <1>5 DEF TypeOK
  <2>2. ~Exists(Revoked(r))
    BY <2>1 DEF RowsInv
  <2> QED
    BY <1>0, <1>2, <2>1, <2>2 DEF Published, Revoked
<1>6. RowsInv'
  BY <1>1, <1>4, <1>5 DEF RowsInv
<1>7. ASSUME NEW d \in Dispatchers, NEW m \in held'[d]
      PROVE  m.token \in 1..minted' /\ Exists(m.event)'
  <2>0. m \in Messages /\ m.event \in Events /\ m.token \in Nat
        /\ minted \in Nat /\ minted' \in Nat /\ minted <= minted'
    BY <1>0, MessagesMove DEF TypeOK, Messages
  <2>1. CASE m \in held[d]
    <3>1. m.token \in 1..minted /\ Exists(m.event)
      BY <2>1 DEF MessagesInv
    <3> QED
      BY <2>0, <3>1, EventsStay
  <2>2. CASE m \notin held[d]
    <3>1. ClaimBatch(d) /\ m.event \in Claimable /\ m.token = event'[m.event].token
      BY <2>2, MessagesMove
    <3>2. event'[m.event].status = "dispatching" /\ event'[m.event].token \in (minted + 1)..minted'
      BY <3>1, BatchRows
    <3> QED
      BY <2>0, <3>1, <3>2 DEF Exists
  <2> QED
    BY <2>1, <2>2
<1>8. ASSUME NEW m \in broker' PROVE m.token \in 1..minted'
  <2>1. m.token \in 1..minted
    BY <1>8, MessagesMove DEF MessagesInv, At
  <2> QED
    BY <2>1, MessagesMove DEF TypeOK
<1>9. ASSUME NEW w \in Workers, worker'[w].pc # "free"
      PROVE  (worker[w].msg.token \in 1..minted /\ Exists(worker[w].msg.event))'
  <2> DEFINE m == worker'[w].msg
  <2>0. m \in Messages /\ m.event \in Events /\ m.token \in Nat
        /\ minted \in Nat /\ minted' \in Nat /\ minted <= minted'
    BY <1>0, <1>9, WorkerFields, MessagesMove DEF TypeOK, Messages, Free, WorkerState
  <2>1. m.token \in 1..minted /\ Exists(m.event)
    <3>1. CASE At(w, m)
      BY <3>1 DEF At, MessagesInv
    <3>2. CASE m \in broker /\ Current(m)
      <4>1. m.token \in 1..minted
        BY <3>2 DEF MessagesInv
      <4>2. event[m.event].token # NoToken
        BY <2>0, <3>2, <4>1 DEF Current, NoToken
      <4> QED
        BY <2>0, <4>1, <4>2 DEF RowsInv, Exists
    <3> QED
      BY <1>9, <3>1, <3>2, MessagesMove
  <2> HIDE DEF m
  <2>2. event'[m.event].status # "absent"
    BY <2>0, <2>1, EventsStay DEF Exists
  <2>3. m.token \in 1..minted'
    BY <2>0, <2>1
  <2> QED
    BY <2>2, <2>3 DEF m, Exists
<1>10. MessagesInv'
  BY <1>7, <1>8, <1>9 DEF MessagesInv
<1> QED
  BY <1>6, <1>10

-----------------------------------------------------------------------------
(* A COMPLETED EVENT STAYS COMPLETED *)

(* Why a dispatcher may release an event without its token.  Until an operator
   resends an event, what a dispatcher has in hand is claimed by nobody else: the
   row still bears that token, the lease has not run out, no message with the
   token has left, and no other dispatcher has the event in hand. *)
HeldIsOwn(d) ==
    \A m \in held[d] :
        /\ event[m.event].status = "dispatching" /\ event[m.event].token = m.token
        /\ ~event[m.event].stale
        /\ m \notin InFlight

HeldApart ==
    \A c, d \in Dispatchers : c # d =>
        \A m \in held[c] : \A n \in held[d] : m.event # n.event

HoldInv == resends = 0 => HeldApart /\ \A d \in Dispatchers : HeldIsOwn(d)

\* A message is in flight in the queue or at a worker.
LEMMA FlightOf ==
    ASSUME TypeOK, NEW m
    PROVE  m \in InFlight <=> m \in broker \/ \E w \in Workers : At(w, m)
<1>1. \A w \in Workers : worker[w] # Free <=> worker[w].pc # "free"
  BY WorkerFields
<1> QED
  BY <1>1 DEF InFlight, At

\* Nobody takes a resend back.
LEMMA ResendsCount ==
    ASSUME TypeOK, [Next]_vars, resends' = 0
    PROVE  resends = 0
<1>1. resends \in Nat /\ (resends' = resends \/ resends' = resends + 1)
  BY DEF TypeOK, Next, Dispatch, Deliver, Publish, Revoke, ClaimBatch, Enqueue,
         EnqueueFails, DispatcherCrash, Receive, Load, DeliverCommit, HandleRevoked,
         HandlerFails, Complete, Release, WorkerCrash, ComesDue, GoesStale, Resend, vars
<1> QED
  BY <1>1

\* While a dispatcher has an event in hand nothing else happens to its row.
LEMMA HeldRowKept ==
    ASSUME TypeOK, RowsInv, MessagesInv, HoldInv, [Next]_vars, resends' = 0,
           NEW d \in Dispatchers, NEW m \in held[d], m \in held'[d]
    PROVE  RowKept(m.event)
<1> DEFINE e == m.event
<1>1. resends = 0
  BY ResendsCount
<1>2. /\ event[e].status = "dispatching" /\ event[e].token = m.token
      /\ ~event[e].stale /\ m \notin InFlight /\ HeldApart
  BY <1>1 DEF HoldInv, HeldIsOwn
<1>3. m \in [event : Events, token : Nat] /\ e \in Events
  BY DEF TypeOK, Messages
<1>4. ASSUME NEW c \in Dispatchers, NEW n \in held[c], EnqueueFails(c, n), n.event = e
      PROVE  FALSE
  <2>1. c = d
    BY <1>2, <1>4 DEF HeldApart
  <2>2. event[n.event].token = n.token
    BY <1>1 DEF HoldInv, HeldIsOwn
  <2>3. n \in [event : Events, token : Nat]
    BY DEF TypeOK, Messages
  <2>4. n = m
    <3>1. n.event = m.event /\ n.token = m.token
      BY <1>2, <1>4, <2>2
    <3>2. /\ n = [event |-> n.event, token |-> n.token]
          /\ m = [event |-> m.event, token |-> m.token]
      BY <1>3, <2>3
    <3> QED
      BY <3>1, <3>2
  <2> QED
    BY <1>4, <2>1, <2>4 DEF EnqueueFails, TypeOK
<1>5. ASSUME NEW w \in Workers, At(w, [event |-> e, token |-> event[e].token]) PROVE FALSE
  <2>1. [event |-> e, token |-> event[e].token] = m
    BY <1>2, <1>3
  <2> QED
    BY <1>2, <1>5, <2>1, FlightOf
<1>6. ~Resend(e)
  BY <1>1 DEF Resend
<1>7. ~GoesStale(e)
  BY DEF GoesStale
<1>8. e \notin Claimable /\ Exists(e)
  BY <1>2 DEF Claimable, Exists
<1>9. RowKept(e) \/ RowWritten(e)
  BY <1>3, RowsMove
<1> HIDE DEF e
<1>10. ~RowWritten(e)
  BY <1>2, <1>4, <1>5, <1>6, <1>7, <1>8 DEF RowWritten
<1> QED
  BY <1>9, <1>10 DEF e

\* Every step keeps apart what the dispatchers have in hand.
LEMMA HoldStep ==
    ASSUME TypeOK, RowsInv, MessagesInv, HoldInv, [Next]_vars
    PROVE  HoldInv'
<1> SUFFICES ASSUME resends' = 0
             PROVE  HeldApart' /\ \A d \in Dispatchers : HeldIsOwn(d)'
  BY DEF HoldInv
<1>0. TypeOK' /\ resends = 0
  BY ResendsCount, TypeStep
<1>1. HeldApart /\ \A d \in Dispatchers : HeldIsOwn(d)
  BY <1>0 DEF HoldInv
<1>2. ASSUME NEW d \in Dispatchers, NEW m \in held'[d], m \notin held[d]
      PROVE  /\ ClaimBatch(d) /\ m.event \in Claimable
             /\ event'[m.event].status = "dispatching" /\ event'[m.event].token = m.token
             /\ ~event'[m.event].stale /\ m \notin broker
             /\ \A w \in Workers : ~At(w, m)
             /\ UNCHANGED <<broker, worker>>
  <2>1. /\ ClaimBatch(d) /\ m.event \in Claimable
        /\ m = [event |-> m.event, token |-> event'[m.event].token]
    BY <1>2, MessagesMove
  <2>2. /\ event'[m.event].status = "dispatching" /\ ~event'[m.event].stale
        /\ event'[m.event].token \in (minted + 1)..minted'
    BY <2>1, BatchRows
  <2>3. m.token = event'[m.event].token
    BY <2>1
  <2>4. minted \in Nat /\ minted' \in Nat /\ m.token \notin 1..minted
    BY <1>0, <2>2, <2>3 DEF TypeOK
  <2> QED
    BY <2>1, <2>2, <2>3, <2>4 DEF MessagesInv, At, ClaimBatch
<1>3. ASSUME NEW d \in Dispatchers, NEW m \in held[d], m \in held'[d]
      PROVE  /\ RowKept(m.event)
             /\ m \notin broker' /\ \A w \in Workers : ~(At(w, m)')
  <2>1. m \notin broker /\ \A w \in Workers : ~At(w, m)
    BY <1>1, FlightOf DEF HeldIsOwn
  <2>2. m \notin broker'
    <3>1. ASSUME NEW c \in Dispatchers, m \in held[c], Enqueue(c, m) PROVE FALSE
      <4>1. c = d
        BY <1>1, <3>1 DEF HeldApart
      <4> QED
        BY <1>3, <3>1, <4>1 DEF Enqueue, TypeOK
    <3> QED
      BY <2>1, <3>1, MessagesMove
  <2>3. \A w \in Workers : ~(worker'[w].pc # "free" /\ worker'[w].msg = m)
    BY <2>1, MessagesMove
  <2> QED
    BY <1>0, <1>3, <2>2, <2>3, HeldRowKept DEF At
<1>4. ASSUME NEW d \in Dispatchers PROVE HeldIsOwn(d)'
  <2> SUFFICES ASSUME NEW m \in held'[d]
               PROVE  /\ event'[m.event].status = "dispatching" /\ event'[m.event].token = m.token
                      /\ ~event'[m.event].stale
                      /\ m \notin InFlight'
    BY DEF HeldIsOwn
  <2>1. m \in InFlight' <=> m \in broker' \/ \E w \in Workers : At(w, m)'
    <3>1. \A w \in Workers : worker'[w] # Free <=> worker'[w].pc # "free"
      BY <1>0 DEF TypeOK, WorkerState, Free
    <3> QED
      BY <3>1 DEF InFlight, At
  <2>2. CASE m \in held[d]
    <3>1. event[m.event].status = "dispatching" /\ event[m.event].token = m.token
          /\ ~event[m.event].stale
      BY <1>1, <2>2 DEF HeldIsOwn
    <3>2. RowKept(m.event) /\ m \notin broker' /\ \A w \in Workers : ~(At(w, m)')
      BY <1>3, <2>2
    <3> QED
      BY <2>1, <3>1, <3>2 DEF RowKept
  <2>3. CASE m \notin held[d]
    BY <1>2, <2>1, <2>3 DEF At
  <2> QED
    BY <2>2, <2>3
<1>5. HeldApart'
  <2> SUFFICES ASSUME NEW c \in Dispatchers, NEW d \in Dispatchers, c # d,
                      NEW m \in held'[c], NEW n \in held'[d], m.event = n.event
               PROVE  FALSE
    BY DEF HeldApart
  <2>1. CASE m \in held[c] /\ n \in held[d]
    BY <1>1, <2>1 DEF HeldApart
  <2>2. ASSUME NEW a \in Dispatchers, NEW k \in held[a], k.event \in Claimable PROVE FALSE
    BY <1>1, <2>2 DEF HeldIsOwn, Claimable
  <2>3. CASE m \notin held[c] /\ n \in held[d]
    BY <1>2, <2>2, <2>3
  <2>4. CASE m \in held[c] /\ n \notin held[d]
    BY <1>2, <2>2, <2>4
  <2>5. CASE m \notin held[c] /\ n \notin held[d]
    <3>1. ClaimBatch(c) /\ n \in held'[d] /\ n \notin held[d]
      BY <1>2, <2>5
    <3>2. held'[d] = held[d]
      BY <3>1, BatchRows
    <3> QED
      BY <3>1, <3>2
  <2> QED
    BY <2>1, <2>3, <2>4, <2>5
<1> QED
  BY <1>4, <1>5

\* An event that is completed stays so in a step after which no event was resent.
LEMMA CompletedStep ==
    ASSUME TypeOK, RowsInv, MessagesInv, HoldInv, [Next]_vars, resends' = 0,
           NEW e \in Events, event[e].status = "completed"
    PROVE  event'[e].status = "completed"
<1>1. resends = 0 /\ event[e].token = NoToken
  BY ResendsCount DEF RowsInv
<1>2. ASSUME NEW d \in Dispatchers, NEW m \in held[d], m.event = e PROVE FALSE
  BY <1>1, <1>2 DEF HoldInv, HeldIsOwn
<1>3. ASSUME NEW w \in Workers, At(w, [event |-> e, token |-> event[e].token]) PROVE FALSE
  <2>1. worker[w].pc # "free" /\ worker[w].msg.token = NoToken
    BY <1>1, <1>3 DEF At
  <2> QED
    BY <2>1 DEF MessagesInv, NoToken, TypeOK
<1>4. ~Resend(e) /\ e \notin Claimable /\ Exists(e)
  BY <1>1 DEF Resend, Claimable, Exists
<1>5. ~RowWritten(e)
  BY <1>2, <1>3, <1>4 DEF RowWritten
<1> QED
  BY <1>5, RowsMove DEF RowKept

-----------------------------------------------------------------------------
(* WHAT A COMPLETED EVENT SAYS OF THE DELIVERY *)

\* Whoever has seen a delivery, or has committed one, leaves it in the table.
HandlerInv ==
    \A w \in Workers : worker[w].pc # "free" =>
        LET m == worker[w].msg IN
        /\ worker[w].pc = "commit" => m.event.topic = "material.published"
        /\ worker[w].pc = "commit" /\ worker[w].seen # "none" =>
              delivery[m.event.run] # "none"
        /\ worker[w].pc = "complete" /\ m.event.topic = "material.published" =>
              delivery[m.event.run] # "none"

\* No step takes a delivery out of the table.
LEMMA DeliveriesStay ==
    ASSUME TypeOK, [Next]_vars, NEW r \in Runs, delivery[r] # "none"
    PROVE  delivery'[r] # "none"
<1>1. UNCHANGED delivery \/ \E w \in Workers : DeliverCommit(w) \/ HandleRevoked(w)
  BY DEF Next, Dispatch, Deliver, Publish, Revoke, ClaimBatch, Enqueue,
         EnqueueFails, DispatcherCrash, Receive, Load, HandlerFails, Complete, Release,
         WorkerCrash, ComesDue, GoesStale, Resend, vars
<1>2. ASSUME NEW w \in Workers, DeliverCommit(w) \/ HandleRevoked(w)
      PROVE  delivery'[r] # "none"
  BY <1>2 DEF DeliverCommit, HandleRevoked, TypeOK
<1> QED
  BY <1>1, <1>2

\* How a worker comes to where it stands.
LEMMA WorkersMove ==
    ASSUME TypeOK, [Next]_vars, NEW w \in Workers, worker'[w].pc # "free"
    PROVE  \/ worker'[w] = worker[w]
           \/ \E m \in broker : Receive(w, m) /\ worker'[w].pc = "handle" /\ worker'[w].msg = m
           \/ /\ worker[w].pc # "free" /\ worker'[w].msg = worker[w].msg
              /\ \/ /\ Load(w) /\ worker'[w].pc \in {"commit", "release"}
                    /\ worker'[w].pc = "commit" =>
                         /\ worker'[w].seen = delivery[worker[w].msg.event.run]
                         /\ run[worker[w].msg.event.run] = "published"
                 \/ DeliverCommit(w) /\ worker'[w].pc \in {"complete", "release"}
                 \/ HandleRevoked(w) /\ worker'[w].pc = "complete"
                 \/ worker'[w].pc = "release"
<1>1. CASE worker'[w] = worker[w]
  BY <1>1
<1>2. CASE \E m \in broker : Receive(w, m)
  <2>1. PICK m \in broker : Receive(w, m)
    BY <1>2
  <2>2. \/ worker'[w] = worker[w]
        \/ worker'[w].pc = "handle" /\ worker'[w].msg = m
    BY <2>1 DEF Receive, TypeOK
  <2> QED
    BY <2>1, <2>2
<1>3. CASE Load(w) \/ DeliverCommit(w) \/ HandleRevoked(w) \/ HandlerFails(w)
  <2>1. worker[w].pc # "free"
    BY <1>3 DEF Load, DeliverCommit, HandleRevoked, HandlerFails, AtMsg
  <2>2. worker[w] \in [pc : {"handle", "commit", "complete", "release"},
                       msg : Messages, seen : DeliveryStatuses]
    BY <2>1, WorkerFields
  <2>3. CASE Load(w)
    BY <2>1, <2>2, <2>3 DEF Load, TypeOK
  <2>4. CASE DeliverCommit(w)
    BY <2>1, <2>2, <2>4 DEF DeliverCommit, Goto, TypeOK
  <2>5. CASE HandleRevoked(w)
    BY <2>1, <2>2, <2>5 DEF HandleRevoked, Goto, TypeOK
  <2>6. CASE HandlerFails(w)
    BY <2>1, <2>2, <2>6 DEF HandlerFails, Goto, TypeOK
  <2> QED
    BY <1>3, <2>3, <2>4, <2>5, <2>6
<1>4. CASE Complete(w) \/ Release(w) \/ WorkerCrash(w)
  <2>1. worker' = [worker EXCEPT ![w] = Free]
    BY <1>4 DEF Complete, Release, WorkerCrash
  <2> QED
    BY <2>1 DEF TypeOK, Free
<1>5. ASSUME NEW v \in Workers, v # w, Deliver(v) \/ HandlerFails(v) \/ WorkerCrash(v)
      PROVE  worker'[w] = worker[w]
  BY <1>5 DEF Deliver, Receive, Load, DeliverCommit, HandleRevoked, Complete, Release,
              HandlerFails, WorkerCrash, Goto, TypeOK
<1>6. ASSUME \/ \E r \in Runs : Publish(r) \/ Revoke(r)
             \/ \E d \in Dispatchers : \/ Dispatch(d) \/ DispatcherCrash(d)
                                        \/ \E m \in held[d] : EnqueueFails(d, m)
             \/ \E e \in Events : ComesDue(e) \/ GoesStale(e) \/ Resend(e)
             \/ UNCHANGED vars
      PROVE  worker'[w] = worker[w]
  BY <1>6 DEF Publish, Revoke, Dispatch, ClaimBatch, Enqueue, EnqueueFails,
              DispatcherCrash, ComesDue, GoesStale, Resend, vars
<1> QED
  BY <1>1, <1>2, <1>3, <1>4, <1>5, <1>6 DEF Next, Deliver

\* Every step keeps what the handlers rely on.
LEMMA HandlerStep ==
    ASSUME TypeOK, HandlerInv, [Next]_vars
    PROVE  HandlerInv'
<1> SUFFICES ASSUME NEW w \in Workers, worker'[w].pc # "free"
             PROVE  LET m == worker'[w].msg IN
                    /\ worker'[w].pc = "commit" => m.event.topic = "material.published"
                    /\ worker'[w].pc = "commit" /\ worker'[w].seen # "none" =>
                          delivery'[m.event.run] # "none"
                    /\ worker'[w].pc = "complete" /\ m.event.topic = "material.published" =>
                          delivery'[m.event.run] # "none"
  BY DEF HandlerInv
<1> DEFINE r == worker[w].msg.event.run
<1>1. worker[w].pc # "free" => r \in Runs
  BY WorkerFields
<1>2. r \in Runs /\ delivery[r] # "none" => delivery'[r] # "none"
  BY DeliveriesStay
<1>3. CASE worker'[w] = worker[w]
  BY <1>1, <1>2, <1>3 DEF HandlerInv
<1>4. CASE worker'[w].pc \in {"handle", "release"}
  BY <1>4
<1>5. CASE Load(w) /\ worker'[w].msg = worker[w].msg /\ worker'[w].pc = "commit"
           /\ worker'[w].seen = delivery[r]
  <2>1. worker[w].msg.event.topic = "material.published" /\ worker[w].pc # "free"
    BY <1>5 DEF Load, AtMsg
  <2> QED
    BY <1>1, <1>2, <1>5, <2>1
<1>6. CASE DeliverCommit(w) /\ worker'[w].msg = worker[w].msg /\ worker'[w].pc = "complete"
  <2>1. worker[w].pc = "commit" /\ r \in Runs
    BY <1>1, <1>6 DEF DeliverCommit, AtMsg
  <2>2. delivery'[r] # "none"
    <3>1. CASE worker[w].seen = "available"
      BY <1>2, <2>1, <3>1 DEF HandlerInv
    <3>2. CASE worker[w].seen # "available" /\ ~(worker[w].seen = "none" /\ delivery[r] # "none")
      BY <1>6, <2>1, <3>2 DEF DeliverCommit, TypeOK
    <3>3. CASE worker[w].seen = "none" /\ delivery[r] # "none"
      BY <1>2, <2>1, <3>3
    <3> QED
      BY <3>1, <3>2, <3>3
  <2> QED
    BY <1>6, <2>2
<1>7. CASE HandleRevoked(w) /\ worker'[w].msg = worker[w].msg /\ worker'[w].pc = "complete"
  <2>1. worker[w].msg.event.topic = "material.revoked"
    BY <1>7 DEF HandleRevoked, AtMsg
  <2> QED
    BY <1>7, <2>1
<1>8. \/ worker'[w] = worker[w]
      \/ worker'[w].pc \in {"handle", "release"}
      \/ Load(w) /\ worker'[w].msg = worker[w].msg /\ worker'[w].pc = "commit"
           /\ worker'[w].seen = delivery[r]
      \/ DeliverCommit(w) /\ worker'[w].msg = worker[w].msg /\ worker'[w].pc = "complete"
      \/ HandleRevoked(w) /\ worker'[w].msg = worker[w].msg /\ worker'[w].pc = "complete"
  <2>1. \/ worker'[w] = worker[w]
        \/ worker'[w].pc \in {"handle", "release"}
        \/ worker'[w].msg = worker[w].msg
             /\ \/ /\ Load(w) /\ worker'[w].pc \in {"commit", "release"}
                   /\ worker'[w].pc = "commit" => worker'[w].seen = delivery[r]
                \/ DeliverCommit(w) /\ worker'[w].pc \in {"complete", "release"}
                \/ HandleRevoked(w) /\ worker'[w].pc = "complete"
    BY WorkersMove
  <2> QED
    BY <2>1
<1> QED
  BY <1>3, <1>4, <1>5, <1>6, <1>7, <1>8

-----------------------------------------------------------------------------
(* A SINGLE WORKER WITHDRAWS WHAT WAS REVOKED *)

\* One process consumes the delivery queue.
OneWorker == \A v, w \in Workers : v = w

\* The revocation has been handled, whether the event says so yet or not.
Handled(r) ==
    \/ event[Revoked(r)].status = "completed"
    \/ \E w \in Workers : worker[w].pc = "complete" /\ worker[w].msg.event = Revoked(r)

\* From then on nobody is about to commit the delivery.
WithdrawnInv ==
    \A r \in Runs : Handled(r) =>
        /\ delivery[r] # "available"
        /\ \A w \in Workers : ~(worker[w].pc = "commit" /\ worker[w].msg.event = Published(r))

\* A worker's message is about the event its topic and its run name.
LEMMA WhichEvent ==
    ASSUME TypeOK, NEW w \in Workers, worker[w].pc # "free"
    PROVE  LET e == worker[w].msg.event IN
           /\ e.topic = "material.published" => e = Published(e.run)
           /\ e.topic = "material.revoked" => e = Revoked(e.run)
<1>1. worker[w].msg.event \in [run : Runs, topic : Topics]
  BY WorkerFields DEF Events
<1> QED
  BY <1>1 DEF Published, Revoked

\* A handled revocation is of a run that is revoked.
LEMMA HandledIsRevoked ==
    ASSUME TypeOK, RowsInv, MessagesInv, NEW r \in Runs, Handled(r)
    PROVE  run[r] = "revoked"
<1>1. Exists(Revoked(r))
  <2>1. ASSUME NEW w \in Workers, worker[w].pc = "complete", worker[w].msg.event = Revoked(r)
        PROVE  Exists(Revoked(r))
    BY <2>1 DEF MessagesInv
  <2> QED
    BY <2>1 DEF Handled, Exists
<1> QED
  BY <1>1 DEF RowsInv

\* With one worker every step keeps what was revoked withdrawn.
LEMMA WithdrawnStep ==
    ASSUME OneWorker, TypeOK, RowsInv, MessagesInv, WithdrawnInv, [Next]_vars
    PROVE  WithdrawnInv'
<1> SUFFICES ASSUME NEW r \in Runs, Handled(r)'
             PROVE  /\ delivery'[r] # "available"
                    /\ \A w \in Workers :
                         ~(worker'[w].pc = "commit" /\ worker'[w].msg.event = Published(r))
  BY DEF WithdrawnInv, Published
<1>1. CASE Handled(r)
  <2>1. /\ delivery[r] # "available" /\ run[r] = "revoked"
        /\ \A w \in Workers : ~(worker[w].pc = "commit" /\ worker[w].msg.event = Published(r))
    BY <1>1, HandledIsRevoked DEF WithdrawnInv
  <2>2. delivery'[r] # "available"
    <3>1. UNCHANGED delivery \/ \E w \in Workers : DeliverCommit(w) \/ HandleRevoked(w)
      BY DEF Next, Dispatch, Deliver, Publish, Revoke, ClaimBatch, Enqueue,
             EnqueueFails, DispatcherCrash, Receive, Load, HandlerFails, Complete, Release,
             WorkerCrash, ComesDue, GoesStale, Resend, vars
    <3>2. ASSUME NEW w \in Workers, DeliverCommit(w) PROVE delivery'[r] = delivery[r]
      <4>1. worker[w].pc = "commit" /\ worker[w].msg.event = Published(worker[w].msg.event.run)
        BY <3>2, WhichEvent DEF DeliverCommit, AtMsg
      <4>2. worker[w].msg.event.run # r
        BY <2>1, <4>1
      <4> QED
        BY <3>2, <4>2 DEF DeliverCommit, TypeOK
    <3>3. ASSUME NEW w \in Workers, HandleRevoked(w) PROVE delivery'[r] \in {delivery[r], "revoked"}
      BY <3>3 DEF HandleRevoked, TypeOK
    <3> QED
      BY <2>1, <3>1, <3>2, <3>3
  <2>3. ASSUME NEW w \in Workers, worker'[w].pc = "commit", worker'[w].msg.event = Published(r)
        PROVE  FALSE
    <3>1. worker'[w] = worker[w] \/ ( /\ worker'[w].msg = worker[w].msg
                                     /\ run[worker[w].msg.event.run] = "published")
      BY <2>3, WorkersMove
    <3>2. worker'[w] # worker[w]
      BY <2>1, <2>3
    <3>3. worker[w].msg.event.run = r
      BY <2>3, <3>1, <3>2 DEF Published
    <3> QED
      BY <2>1, <3>1, <3>2, <3>3
  <2> QED
    BY <2>2, <2>3
<1>2. CASE ~Handled(r)
  <2>1. event[Revoked(r)].status # "completed" /\ Revoked(r) \in Events
    BY <1>2 DEF Handled, Revoked, Events, Topics
  <2>2. event'[Revoked(r)].status # "completed"
    <3>1. Released(event[Revoked(r)]).status # "completed"
      <4>1. event[Revoked(r)] \in [status : EventStatuses, attempts : Nat, token : Nat,
                                   due : BOOLEAN, stale : BOOLEAN]
        BY <2>1 DEF TypeOK, Row
      <4> QED
        BY <4>1 DEF Released
    <3>2. ASSUME NEW w \in Workers, worker[w].pc = "complete",
                 At(w, [event |-> Revoked(r), token |-> event[Revoked(r)].token])
          PROVE  FALSE
      BY <1>2, <3>2 DEF Handled, At
    <3>3. RowKept(Revoked(r)) \/ RowWritten(Revoked(r))
      BY <2>1, RowsMove
    <3> QED
      BY <2>1, <3>1, <3>2, <3>3 DEF RowKept, RowWritten, Fresh
  <2>3. PICK w \in Workers : worker'[w].pc = "complete" /\ worker'[w].msg.event = Revoked(r)
    BY <2>2 DEF Handled, Revoked
  <2>4. HandleRevoked(w) /\ worker[w].msg.event = Revoked(r)
    <3>1. worker'[w] # worker[w]
      BY <1>2, <2>3 DEF Handled
    <3>2. /\ DeliverCommit(w) \/ HandleRevoked(w)
          /\ worker'[w].msg = worker[w].msg
      BY <2>3, <3>1, WorkersMove
    <3>3. ~DeliverCommit(w)
      BY <2>3, <3>2 DEF DeliverCommit, AtMsg, Revoked
    <3> QED
      BY <2>3, <3>2, <3>3
  <2>5. delivery'[r] # "available"
    <3>1. worker[w].msg.event.run = r
      BY <2>4 DEF Revoked
    <3> QED
      BY <2>4, <3>1 DEF HandleRevoked, TypeOK
  <2>6. \A v \in Workers : worker'[v].pc = "complete"
    BY <2>3 DEF OneWorker
  <2> QED
    BY <2>5, <2>6
<1> QED
  BY <1>1, <1>2

-----------------------------------------------------------------------------
(* THEOREMS *)

\* The inductive invariant: types, rows, messages, what dispatchers have in hand and
\* what handlers rely on.
IInv == TypeOK /\ RowsInv /\ MessagesInv /\ HoldInv /\ HandlerInv

\* It holds at first.
LEMMA IInvInit == Init => IInv
<1> SUFFICES ASSUME Init PROVE IInv
  OBVIOUS
<1>1. \A r \in Runs : Published(r) \in Events /\ Revoked(r) \in Events
  BY DEF Published, Revoked, Events, Topics
<1>2. Fresh("absent") \in Row
  BY FreshTyped DEF EventStatuses
<1>3. TypeOK
  BY <1>2 DEF Init, TypeOK, WorkerState, DeliveryStatuses
<1>4. RowsInv
  BY <1>1 DEF Init, RowsInv, Exists, Fresh
<1>5. MessagesInv
  BY DEF Init, MessagesInv, Free
<1>6. HoldInv
  BY DEF Init, HoldInv, HeldApart, HeldIsOwn
<1>7. HandlerInv
  BY DEF Init, HandlerInv, Free
<1> QED
  BY <1>3, <1>4, <1>5, <1>6, <1>7 DEF IInv

\* Every reachable state satisfies it.
LEMMA Invariant == Spec => []IInv
<1>1. IInv /\ [Next]_vars => IInv'
  BY TypeStep, RowsStep, HoldStep, HandlerStep DEF IInv
<1> QED
  BY <1>1, IInvInit, PTL DEF Spec

(* A published event is completed only when its delivery is in the table: a worker
   comes to OutboxService._complete only through PortalEventHandler._deliver, and
   what is in the table stays there; lost messages, crashes and second claims do
   not matter. *)
LEMMA CompletedInv ==
    ASSUME IInv, CompletedWasDelivered, [Next]_vars
    PROVE  CompletedWasDelivered'
<1> SUFFICES ASSUME NEW r \in Runs, event'[Published(r)].status = "completed"
             PROVE  delivery'[r] # "none"
  BY DEF CompletedWasDelivered, Published
<1>1. TypeOK /\ RowsInv /\ HandlerInv /\ Published(r) \in Events
  BY DEF IInv, Published, Events, Topics
<1>2. CASE event[Published(r)].status = "completed"
  BY <1>1, <1>2, DeliveriesStay DEF CompletedWasDelivered
<1>3. CASE event[Published(r)].status # "completed"
  <2>1. Released(event[Published(r)]).status # "completed"
    <3>1. event[Published(r)] \in [status : EventStatuses, attempts : Nat, token : Nat,
                                   due : BOOLEAN, stale : BOOLEAN]
      BY <1>1 DEF TypeOK, Row
    <3> QED
      BY <3>1 DEF Released
  <2>2. RowKept(Published(r)) \/ RowWritten(Published(r))
    BY <1>1, RowsMove
  <2>3. \E w \in Workers : /\ worker[w].pc = "complete"
                           /\ At(w, [event |-> Published(r), token |-> event[Published(r)].token])
    BY <1>3, <2>1, <2>2 DEF RowKept, RowWritten, Fresh
  <2>4. PICK w \in Workers : worker[w].pc = "complete" /\ worker[w].msg.event = Published(r)
    BY <2>3 DEF At
  <2>5. delivery[r] # "none"
    BY <1>1, <2>4 DEF HandlerInv, Published
  <2> QED
    BY <1>1, <2>5, DeliveriesStay
<1> QED
  BY <1>2, <1>3

(* Every row of the outbox and every message is well formed, and no event that was
   published is completed without its delivery. *)
THEOREM DeliveriesAreSound == Spec => []DeliverySound
<1>1. Init => CompletedWasDelivered
  <2>1. \A r \in Runs : Published(r) \in Events
    BY DEF Published, Events, Topics
  <2> QED
    BY <2>1 DEF Init, CompletedWasDelivered, Fresh
<1>2. IInv /\ CompletedWasDelivered /\ [Next]_vars => CompletedWasDelivered'
  BY CompletedInv
<1>3. IInv => TypeOK
  BY DEF IInv
<1>4. Spec => []CompletedWasDelivered
  BY <1>1, <1>2, Invariant, PTL DEF Spec
<1> QED
  BY <1>3, <1>4, Invariant, PTL DEF DeliverySound

(* A completed event stays completed until an operator resends one, although the
   dispatcher's _release_failed asks for no token: what it has in hand nobody else
   has claimed. *)
THEOREM CompletedEventsStay == Spec => CompletedStays
<1>1. ASSUME IInv, [Next]_vars
      PROVE  \A e \in Events : event[e].status = "completed" /\ resends' = 0
                                 => event'[e].status = "completed"
  BY <1>1, CompletedStep DEF IInv
<1> QED
  BY <1>1, Invariant, PTL DEF CompletedStays, Spec

-----------------------------------------------------------------------------
(* THE PROMISE OF THE PORTAL *)

\* The outcomes that the rows stand for.
Outcomes == [e \in Events |-> Outcome(e)]

\* The events are those of Portal.
LEMMA PromisedEvents ==
    /\ Promise!Events = Events
    /\ \A e \in Events : /\ e.run \in Runs
                         /\ e.topic \in {"material.published", "material.revoked"}
                         /\ e.topic = "material.published" <=> e = Published(e.run)
                         /\ e.topic = "material.revoked" <=> e = Revoked(e.run)
    /\ \A r \in Runs : Published(r) \in Events /\ Revoked(r) \in Events
<1>1. Promise!Events = Events
  BY DEF Promise!Events, Promise!Topics, Events, Topics
<1>2. ASSUME NEW e \in Events
      PROVE  /\ e.run \in Runs /\ e.topic \in {"material.published", "material.revoked"}
             /\ e.topic = "material.published" <=> e = Published(e.run)
             /\ e.topic = "material.revoked" <=> e = Revoked(e.run)
  BY DEF Events, Topics, Published, Revoked
<1>3. \A r \in Runs : Published(r) \in Events /\ Revoked(r) \in Events
  BY DEF Events, Topics, Published, Revoked
<1> QED
  BY <1>1, <1>2, <1>3

\* A step that writes one row moves one outcome.
LEMMA OneOutcome ==
    ASSUME NEW f \in Events, NEW x, Outcome(f)' = x,
           \A e \in Events : e # f => event'[e] = event[e]
    PROVE  Outcomes' = [Outcomes EXCEPT ![f] = x]
<1>1. \A e \in Events : e # f => Outcome(e)' = Outcome(e)
  BY DEF Outcome
<1> QED
  BY <1>1 DEF Outcomes

\* What is not written keeps its outcome.
LEMMA SameOutcomes ==
    ASSUME \A e \in Events : Outcome(e)' = Outcome(e)
    PROVE  Outcomes' = Outcomes
BY DEF Outcomes

\* A failed row that was waiting waits again or is dead.
LEMMA FailedOutcome ==
    ASSUME NEW e \in Events, event'[e] = Released(event[e]), TypeOK
    PROVE  Outcome(e)' \in {"open", "dead"}
<1>1. event[e] \in [status : EventStatuses, attempts : Nat, token : Nat,
                    due : BOOLEAN, stale : BOOLEAN]
  BY DEF TypeOK, Row
<1>2. event'[e].status \in {"pending", "dead"}
  BY <1>1 DEF Released
<1> QED
  BY <1>2 DEF Outcome

\* The tutor's decisions are those of Portal: no event is announced twice.
LEMMA DecisionsPromised ==
    ASSUME IInv, NEW r \in Runs, Publish(r) \/ Revoke(r)
    PROVE  Promise!Next
<1>0. /\ TypeOK /\ RowsInv /\ event \in [Events -> Row]
      /\ Published(r) \in Events /\ Revoked(r) \in Events
  BY PromisedEvents DEF IInv, TypeOK
<1>1. ASSUME NEW e \in Events, ~Exists(e), e.run = r,
             event' = [event EXCEPT ![e] = Fresh("pending")]
      PROVE  Outcomes[e] = "absent" /\ Outcomes' = [Outcomes EXCEPT ![e] = "open"]
  <2>1. Outcome(e) = "absent"
    BY <1>1 DEF Exists, Outcome
  <2>2. event'[e] = Fresh("pending")
    BY <1>0, <1>1
  <2>3. Outcome(e)' = "open"
    BY <2>2 DEF Outcome, Fresh
  <2>4. \A f \in Events : f # e => event'[f] = event[f]
    BY <1>0, <1>1
  <2>5. Outcomes' = [Outcomes EXCEPT ![e] = "open"]
    BY <2>3, <2>4, OneOutcome
  <2> QED
    BY <2>1, <2>5 DEF Outcomes
<1>2. CASE Publish(r)
  <2> DEFINE e == Published(r)
  <2>1. e.run = r /\ e.topic = "material.published"
    BY DEF Published
  <2>2. ~Exists(e)
    BY <1>0, <1>2 DEF Publish, RowsInv
  <2>3. Outcomes[e] = "absent" /\ Outcomes' = [Outcomes EXCEPT ![e] = "open"]
    BY <1>0, <1>1, <1>2, <2>1, <2>2 DEF Publish
  <2>4. Promise!Decide(e, "approved", "published")
    BY <1>2, <2>1, <2>3 DEF Publish, Promise!Decide, Outcomes
  <2>5. e \in Promise!Events
    BY <1>0, PromisedEvents
  <2> HIDE DEF e
  <2> QED
    BY <2>1, <2>4, <2>5 DEF Promise!Next
<1>3. CASE Revoke(r)
  <2> DEFINE e == Revoked(r)
  <2>1. e.run = r /\ e.topic = "material.revoked"
    BY DEF Revoked
  <2>2. ~Exists(e)
    BY <1>0, <1>3 DEF Revoke, RowsInv
  <2>3. Outcomes[e] = "absent" /\ Outcomes' = [Outcomes EXCEPT ![e] = "open"]
    BY <1>0, <1>1, <1>3, <2>1, <2>2 DEF Revoke
  <2>4. Promise!Decide(e, "published", "revoked")
    BY <1>3, <2>1, <2>3 DEF Revoke, Promise!Decide, Outcomes
  <2>5. e \in Promise!Events
    BY <1>0, PromisedEvents
  <2> HIDE DEF e
  <2> QED
    BY <2>1, <2>4, <2>5 DEF Promise!Next
<1> QED
  BY <1>2, <1>3

\* What a worker commits for the recipient is shown or withdrawn as Portal says: the
\* event it handles exists, and a delivery it has seen is still in the table.
LEMMA CommitsPromised ==
    ASSUME IInv, NEW w \in Workers, DeliverCommit(w) \/ HandleRevoked(w)
    PROVE  Promise!Next \/ UNCHANGED <<run, event, delivery, notified, resends>>
<1> DEFINE e == worker[w].msg.event
           r == e.run
<1>1. worker[w].pc # "free"
  BY DEF DeliverCommit, HandleRevoked, AtMsg
<1>2. /\ TypeOK /\ e \in Events /\ r \in Runs /\ Exists(e) /\ e \in Promise!Events
      /\ delivery \in [Runs -> DeliveryStatuses]
  BY <1>1, WorkerFields, PromisedEvents DEF IInv, TypeOK, MessagesInv
<1>3. Outcomes[e] # "absent"
  BY <1>2 DEF Exists, Outcome, Outcomes
<1>4. UNCHANGED <<run, event, resends>>
  BY DEF DeliverCommit, HandleRevoked
<1>5. Outcomes' = Outcomes
  BY <1>4, SameOutcomes DEF Outcome
<1>6. CASE DeliverCommit(w) /\ UNCHANGED <<delivery, notified>>
  BY <1>4, <1>6
<1>7. CASE DeliverCommit(w) /\ ~UNCHANGED <<delivery, notified>>
  <2> DEFINE seen == worker[w].seen
             other == \E q \in Runs \ {r} : delivery[q] = "available"
  <2>1. /\ e.topic = "material.published" /\ worker[w].pc = "commit"
        /\ delivery' = IF seen = "available" THEN delivery
                       ELSE [delivery EXCEPT ![r] = "available"]
        /\ notified' = notified \cup
              {[kind |-> IF other THEN "material_replaced" ELSE "material_available",
                run |-> r]}
    BY <1>7 DEF DeliverCommit, AtMsg, Note
  <2>2. seen = "available" => delivery[r] # "none"
    BY <1>1, <2>1 DEF IInv, HandlerInv
  <2>3. \/ delivery' = [delivery EXCEPT ![r] = "available"]
        \/ delivery[r] # "none" /\ delivery' = delivery
    BY <2>1, <2>2
  <2>4. Promise!Show(e)
    BY <1>3, <1>4, <1>5, <2>1, <2>3 DEF Promise!Show, Promise!Tell, Outcomes
  <2> HIDE DEF e
  <2> QED
    BY <1>2, <2>4 DEF Promise!Next
<1>8. CASE HandleRevoked(w)
  <2>1. e.topic = "material.revoked"
    BY <1>8 DEF HandleRevoked, AtMsg
  <2>2. CASE delivery[r] = "none"
    BY <1>4, <1>8, <2>2 DEF HandleRevoked
  <2>3. CASE delivery[r] # "none"
    <3>1. /\ delivery' = [delivery EXCEPT ![r] = "revoked"]
          /\ notified' = notified \cup {[kind |-> "material_revoked", run |-> r]}
      BY <1>8, <2>3 DEF HandleRevoked, Note
    <3>2. Promise!Withdraw(e)
      BY <1>3, <1>4, <1>5, <2>1, <2>3, <3>1 DEF Promise!Withdraw, Promise!Tell, Outcomes
    <3> HIDE DEF e
    <3> QED
      BY <1>2, <3>2 DEF Promise!Next
  <2> QED
    BY <2>2, <2>3
<1> QED
  BY <1>6, <1>7, <1>8

\* A worker that ends writes the row only under its claim: the event is open then,
\* and completed only with its delivery in the table.
LEMMA EndingsPromised ==
    ASSUME IInv, NEW w \in Workers, Complete(w) \/ Release(w)
    PROVE  Promise!Next \/ Outcomes' = Outcomes
<1> DEFINE m == worker[w].msg
<1>1. worker[w].pc # "free"
  BY DEF Complete, Release
<1> PICK e \in Events : e = m.event
  BY <1>1, WorkerFields DEF IInv
<1>2. /\ TypeOK /\ RowsInv /\ MessagesInv /\ event \in [Events -> Row] /\ event[e] \in Row
      /\ e \in Events /\ e.run \in Runs /\ e \in Promise!Events
  BY <1>1, WorkerFields, PromisedEvents DEF IInv, TypeOK
<1>3. UNCHANGED <<run, delivery, notified, resends>>
  BY DEF Complete, Release
<1>4. CASE event[e].token # m.token
  <2>1. event' = event
    BY <1>4 DEF Complete, Release
  <2> QED
    BY <2>1, SameOutcomes DEF Outcome
<1>5. CASE event[e].token = m.token
  <2>1. event[e].status = "dispatching"
    BY <1>1, <1>2, <1>5, FenceHolds
  <2>2. Outcome(e) = "open" /\ Outcomes[e] = "open"
    BY <1>2, <2>1 DEF Outcome, Outcomes
  <2>3. \A f \in Events : f # e => event'[f] = event[f]
    BY <1>2, <1>5 DEF Complete, Release
  <2>4. CASE Complete(w)
    <3>1. event'[e].status = "completed"
      BY <1>2, <1>5, <2>4 DEF Complete, Row
    <3>2. Outcome(e)' = "completed"
      BY <3>1 DEF Outcome
    <3>3. Outcomes' = [Outcomes EXCEPT ![e] = "completed"]
      BY <1>2, <2>3, <3>2, OneOutcome
    <3>4. e.topic = "material.published" => delivery[e.run] # "none"
      BY <1>1, <2>4 DEF Complete, IInv, HandlerInv
    <3>5. Promise!Complete(e)
      BY <1>3, <2>2, <3>3, <3>4 DEF Promise!Complete, Promise!Ends, Outcomes
    <3> QED
      BY <1>2, <3>5 DEF Promise!Next
  <2>5. CASE Release(w)
    <3>1. event'[e] = Released(event[e])
      BY <1>2, <1>5, <2>5 DEF Release
    <3>2. Outcome(e)' \in {"open", "dead"}
      BY <1>2, <3>1, FailedOutcome
    <3>3. Outcomes' = [Outcomes EXCEPT ![e] = Outcome(e)']
      BY <1>2, <2>3, OneOutcome
    <3>4. CASE Outcome(e)' = "open"
      <4>1. \A f \in Events : Outcome(f)' = Outcome(f)
        BY <2>2, <2>3, <3>4 DEF Outcome
      <4> QED
        BY <4>1, SameOutcomes
    <3>5. CASE Outcome(e)' = "dead"
      <4>1. Promise!GiveUp(e)
        BY <1>3, <2>2, <3>3, <3>5 DEF Promise!GiveUp, Promise!Ends, Outcomes
      <4> QED
        BY <1>2, <4>1 DEF Promise!Next
    <3> QED
      BY <3>2, <3>4, <3>5
  <2> QED
    BY <2>4, <2>5
<1> QED
  BY <1>4, <1>5

\* A dispatcher releases without a token what Redis refused.  Until an operator sends
\* an event again it still holds the claim; after that Portal allows for it.
LEMMA RefusalsPromised ==
    ASSUME IInv, NEW d \in Dispatchers, NEW m \in held[d], EnqueueFails(d, m)
    PROVE  Promise!Next \/ Outcomes' = Outcomes
<1> DEFINE e == m.event
<1>1. /\ TypeOK /\ event \in [Events -> Row] /\ event[e] \in Row
      /\ e \in Events /\ e \in Promise!Events /\ Exists(e) /\ resends \in Nat
  BY PromisedEvents DEF IInv, TypeOK, MessagesInv, Messages
<1>2. UNCHANGED <<run, delivery, notified, resends>>
  BY DEF EnqueueFails
<1>3. event'[e] = Released(event[e]) /\ \A f \in Events : f # e => event'[f] = event[f]
  BY <1>1 DEF EnqueueFails
<1>4. Outcome(e)' \in {"open", "dead"}
  BY <1>1, <1>3, FailedOutcome
<1>5. Outcomes' = [Outcomes EXCEPT ![e] = Outcome(e)']
  BY <1>1, <1>3, OneOutcome
<1>6. CASE resends = 0
  <2>1. event[e].status = "dispatching"
    BY <1>6 DEF IInv, HoldInv, HeldIsOwn
  <2>2. Outcome(e) = "open" /\ Outcomes[e] = "open"
    BY <1>1, <2>1 DEF Outcome, Outcomes
  <2>3. CASE Outcome(e)' = "open"
    <3>1. \A f \in Events : Outcome(f)' = Outcome(f)
      BY <1>3, <2>2, <2>3 DEF Outcome
    <3> QED
      BY <3>1, SameOutcomes
  <2>4. CASE Outcome(e)' = "dead"
    <3>1. Promise!GiveUp(e)
      BY <1>2, <1>5, <2>2, <2>4 DEF Promise!GiveUp, Promise!Ends, Outcomes
    <3> HIDE DEF e
    <3> QED
      BY <1>1, <3>1 DEF Promise!Next
  <2> QED
    BY <1>4, <2>3, <2>4
<1>7. CASE resends # 0
  <2>1. Outcomes[e] # "absent"
    BY <1>1 DEF Exists, Outcome, Outcomes
  <2>2. resends > 0
    BY <1>1, <1>7
  <2>3. Promise!TakeBack(e)
    BY <1>2, <1>4, <1>5, <2>1, <2>2 DEF Promise!TakeBack, Outcomes
  <2> HIDE DEF e
  <2> QED
    BY <1>1, <2>3 DEF Promise!Next
<1> QED
  BY <1>6, <1>7

\* An operator's resend opens the event once more.
LEMMA ResendsPromised ==
    ASSUME IInv, NEW e \in Events, Resend(e)
    PROVE  Promise!Next
<1>1. /\ TypeOK /\ event \in [Events -> Row] /\ e \in Promise!Events /\ resends \in Nat
  BY PromisedEvents DEF IInv, TypeOK
<1>2. event'[e] = Fresh("pending") /\ \A f \in Events : f # e => event'[f] = event[f]
  BY <1>1 DEF Resend
<1>3. Outcome(e)' = "open"
  BY <1>2 DEF Outcome, Fresh
<1>4. Outcomes' = [Outcomes EXCEPT ![e] = "open"]
  BY <1>2, <1>3, OneOutcome
<1>5. Outcomes[e] # "absent"
  BY DEF Resend, Outcome, Outcomes
<1>6. (resends' > 0) = TRUE
  BY <1>1 DEF Resend
<1>7. UNCHANGED <<run, delivery, notified>>
  BY DEF Resend
<1>8. Promise!Resend(e)
  BY <1>4, <1>5, <1>6, <1>7 DEF Promise!Resend, Outcomes
<1> QED
  BY <1>1, <1>8 DEF Promise!Next

\* Nothing else moves an outcome: a claim and the passing of time leave it open.
LEMMA ClaimsKeepOutcomes ==
    ASSUME IInv, \/ \E d \in Dispatchers : ClaimBatch(d)
                 \/ \E e \in Events : ComesDue(e) \/ GoesStale(e)
    PROVE  Outcomes' = Outcomes
<1>1. TypeOK /\ event \in [Events -> Row]
  BY DEF IInv, TypeOK
<1>2. ASSUME NEW d \in Dispatchers, ClaimBatch(d), NEW e \in Events
      PROVE  Outcome(e)' = Outcome(e)
  <2>1. CASE e \in Claimable
    <3>1. event'[e].status = "dispatching"
      BY <1>1, <1>2, <2>1, BatchRows
    <3>2. event[e].status \in {"pending", "dispatching"}
      BY <2>1 DEF Claimable
    <3> QED
      BY <3>1, <3>2 DEF Outcome
  <2>2. CASE e \notin Claimable
    BY <1>1, <1>2, <2>2, BatchRows DEF Outcome
  <2> QED
    BY <2>1, <2>2
<1>3. ASSUME NEW f \in Events, ComesDue(f) \/ GoesStale(f), NEW e \in Events
      PROVE  Outcome(e)' = Outcome(e)
  <2>1. event'[e].status = event[e].status
    BY <1>1, <1>3 DEF ComesDue, GoesStale, Row
  <2> QED
    BY <2>1 DEF Outcome
<1> QED
  BY <1>2, <1>3, SameOutcomes

\* Every step is one of Portal, or none.
LEMMA StepsPromised == IInv /\ [Next]_vars => [Promise!Next]_(Promise!vars)
<1> SUFFICES ASSUME IInv, [Next]_vars
             PROVE  Promise!Next \/ UNCHANGED Promise!vars
  OBVIOUS
<1>0. ASSUME UNCHANGED <<run, delivery, notified, resends>>, Outcomes' = Outcomes
      PROVE  UNCHANGED Promise!vars
  BY <1>0 DEF Promise!vars, Outcomes
<1>1. ASSUME UNCHANGED <<run, event, delivery, notified, resends>>
      PROVE  UNCHANGED Promise!vars
  <2>1. Outcomes' = Outcomes
    BY <1>1, SameOutcomes DEF Outcome
  <2> QED
    BY <1>0, <1>1, <2>1
<1>2. ASSUME NEW r \in Runs, Publish(r) \/ Revoke(r)
      PROVE  Promise!Next
  BY <1>2, DecisionsPromised
<1>3. ASSUME NEW w \in Workers, DeliverCommit(w) \/ HandleRevoked(w)
      PROVE  Promise!Next \/ UNCHANGED Promise!vars
  BY <1>1, <1>3, CommitsPromised
<1>4. ASSUME NEW w \in Workers, Complete(w) \/ Release(w)
      PROVE  Promise!Next \/ UNCHANGED Promise!vars
  <2>1. UNCHANGED <<run, delivery, notified, resends>>
    BY <1>4 DEF Complete, Release
  <2> QED
    BY <1>0, <1>4, <2>1, EndingsPromised
<1>5. ASSUME NEW d \in Dispatchers, NEW m \in held[d], EnqueueFails(d, m)
      PROVE  Promise!Next \/ UNCHANGED Promise!vars
  <2>1. UNCHANGED <<run, delivery, notified, resends>>
    BY <1>5 DEF EnqueueFails
  <2> QED
    BY <1>0, <1>5, <2>1, RefusalsPromised
<1>6. ASSUME NEW e \in Events, Resend(e)
      PROVE  Promise!Next
  BY <1>6, ResendsPromised
<1>7. ASSUME \/ \E d \in Dispatchers : ClaimBatch(d)
             \/ \E e \in Events : ComesDue(e) \/ GoesStale(e)
      PROVE  UNCHANGED Promise!vars
  <2>1. UNCHANGED <<run, delivery, notified, resends>>
    BY <1>7 DEF ClaimBatch, ComesDue, GoesStale
  <2> QED
    BY <1>0, <1>7, <2>1, ClaimsKeepOutcomes
<1>8. ASSUME \/ \E d \in Dispatchers : DispatcherCrash(d) \/ \E m \in held[d] : Enqueue(d, m)
             \/ \E w \in Workers : \/ \E m \in broker : Receive(w, m)
                                   \/ Load(w) \/ HandlerFails(w) \/ WorkerCrash(w)
             \/ UNCHANGED vars
      PROVE  UNCHANGED <<run, event, delivery, notified, resends>>
  BY <1>8 DEF DispatcherCrash, Enqueue, Receive, Load, HandlerFails, WorkerCrash, vars
<1> QED
  BY <1>1, <1>2, <1>3, <1>4, <1>5, <1>6, <1>7, <1>8 DEF Next, Dispatch, Deliver

\* It begins as Portal does.
LEMMA InitPromised == Init => Promise!Init
<1> SUFFICES ASSUME Init PROVE Promise!Init
  OBVIOUS
<1>1. \A e \in Events : Outcome(e) = "absent"
  BY DEF Init, Outcome, Fresh
<1>2. [e \in Events |-> Outcome(e)] = [e \in Promise!Events |-> "absent"]
  BY <1>1, PromisedEvents
<1>3. (resends > 0) = FALSE
  BY DEF Init
<1> QED
  BY <1>2, <1>3 DEF Init, Promise!Init

(* The outbox, its messages and the portal's handler implement Portal: whatever is
   lost, late or handled twice, the recipient is shown, told and denied only what the
   tutor published or revoked; a publication counts as completed only with its
   delivery; and a settled event is open again only after an operator's resend. *)
THEOREM DeliveryImplementsPortal == Spec => PortalKept
BY Invariant, InitPromised, StepsPromised, PTL DEF Spec, PortalKept, Promise!Spec

(* With one delivery worker, however many dispatchers, lost messages, crashes and
   resends there are: once a revocation is handled the recipient does not see the
   delivery.  With two workers the code does not promise it. *)
THEOREM RevocationsHold ==
    ASSUME OneWorker
    PROVE  Spec => []RevokedIsWithdrawn
<1>1. Init => WithdrawnInv
  <2>1. \A r \in Runs : Revoked(r) \in Events
    BY DEF Revoked, Events, Topics
  <2> QED
    BY <2>1 DEF Init, WithdrawnInv, Handled, Fresh, Free
<1>2. ASSUME IInv, WithdrawnInv, [Next]_vars PROVE WithdrawnInv'
  BY <1>2, OneWorker, WithdrawnStep DEF IInv
<1>3. WithdrawnInv => RevokedIsWithdrawn
  BY DEF WithdrawnInv, RevokedIsWithdrawn, Handled
<1> QED
  BY <1>1, <1>2, <1>3, Invariant, PTL DEF Spec
=============================================================================
