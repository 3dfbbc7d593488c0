-------------------------------- MODULE Lease --------------------------------
(***************************************************************************)
(* What a job lease promises, whatever moves the job: one holder at a      *)
(* time, a live lease is never taken from its holder by another worker,    *)
(* and nobody acquires a job whose cancellation has been requested.        *)
(***************************************************************************)
CONSTANTS Jobs, Tasks, None

VARIABLES holder, deadline, closed

vars == <<holder, deadline, closed>>

Init ==
    /\ holder = [j \in Jobs |-> None]
    /\ deadline = [j \in Jobs |-> "null"]
    /\ closed = [j \in Jobs |-> FALSE]

Keep(j) == holder'[j] = holder[j] /\ deadline'[j] = deadline[j]

Free(j) == holder'[j] = None /\ deadline'[j] = "null"

\* A worker takes a free or lapsed lease, or takes its own once more.
Acquire(j, t) ==
    /\ ~closed[j] /\ ~closed'[j]
    /\ holder[j] \in {None, t} \/ deadline[j] = "passed"
    /\ holder'[j] = t /\ deadline'[j] = "ahead"

Renew(j) ==
    /\ ~closed[j] /\ ~closed'[j]
    /\ holder[j] # None
    /\ holder'[j] = holder[j] /\ deadline'[j] = "ahead"

Lapse(j) ==
    /\ deadline[j] = "ahead"
    /\ holder'[j] = holder[j] /\ deadline'[j] = "passed"
    /\ closed'[j] = closed[j]

Drop(j) == Free(j) /\ closed'[j] = closed[j]

Close(j) == closed'[j] /\ (Keep(j) \/ Free(j))

Reopen(j) == ~closed'[j] /\ Free(j)

Stay(j) == Keep(j) /\ closed'[j] = closed[j]

Step(j) ==
    \/ \E t \in Tasks : Acquire(j, t)
    \/ Renew(j) \/ Lapse(j) \/ Drop(j) \/ Close(j) \/ Reopen(j) \/ Stay(j)

\* Recovery moves many jobs in one transaction, so a step moves each of them.
Next ==
    /\ holder' \in [Jobs -> Tasks \cup {None}]
    /\ deadline' \in [Jobs -> {"null", "ahead", "passed"}]
    /\ closed' \in [Jobs -> BOOLEAN]
    /\ \A j \in Jobs : Step(j)

Spec == Init /\ [][Next]_vars
=============================================================================
