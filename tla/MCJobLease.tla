----------------------------- MODULE MCJobLease -----------------------------
(* Instances of JobLease: one job row, two Celery task ids. *)
EXTENDS JobLease

CONSTANTS j1, t1, t2

Materials == [j \in Jobs |-> "materials"]
PostLesson == [j \in Jobs |-> "post_lesson"]

NoFaults == {}
\* Lost workers, duplicated messages.
RedeliveryFaults == {"crash", "duplicate"}
=============================================================================
