---------------------------- MODULE PracticeSync ----------------------------
(***************************************************************************)
(* Synchronisation of practice profiles with the devices of one account,   *)
(* which teachers may bind to another student: state updates with a base   *)
(* revision and batches of events.  A request reads without a lock and     *)
(* commits later, in one transaction at READ COMMITTED.  What the teacher  *)
(* is shown of a student is computed from the committed rows               *)
(* (PracticeReport).                                                       *)
(***************************************************************************)
EXTENDS PracticeReport

CONSTANTS
    Requests,       \* concurrent requests
    Students,
    Competencies,   \* natural numbers, in the order of their identifiers
    Events,         \* answers
    Batches,        \* sets of events that devices send together
    Plans,          \* what a device may have scheduled: a schedule for each competency
    Notes,          \* what a teacher may note: no or one mastery level for each
    MaxKept,        \* events kept in a state (200)
    MaxRevision     \* bound: revisions, of all profiles together

ASSUME RevisionAssumption == MaxRevision \in Nat
ASSUME KeptAssumption == MaxKept \in Nat \ {0}
ASSUME FinitenessAssumption ==
    /\ IsFiniteSet(Students)
    /\ Competencies \subseteq Nat /\ IsFiniteSet(Competencies)
ASSUME NotesAssumption ==
    \A levels \in Notes :
        /\ levels \in [Competencies -> SUBSET Nat]
        /\ \A c \in Competencies : Cardinality(levels[c]) <= 1
ASSUME PlansAssumption == Plans \subseteq [Competencies -> Schedules]
ASSUME EventsAssumption ==
    /\ Events \subseteq [id : Nat, competency : Competencies, day : Int, correct : BOOLEAN,
                         hints : Nat, retries : Nat, again : BOOLEAN]
    /\ \A e, f \in Events : e.id = f.id => e = f     \* ids are the devices' to choose
ASSUME BatchesAssumption ==
    \A batch \in Batches : batch \subseteq Events /\ IsFiniteSet(batch)

VARIABLES
    profile,    \* profile[s]: the PracticeProfile row, or Absent
    rows,       \* rows[s]: the PracticeEvent rows of s
    mastery,    \* mastery[s][c]: of the PracticeAnalyticsMetadata row
    bound,      \* the students the account has active StudentAccess rows for
    request     \* request[q]: what it brings and what it has read

practiceVars == <<profile, rows, mastery, bound, request>>

Unplanned == [c \in Competencies |-> NoSchedule]
Nothing == [c \in Competencies |-> {}]
\* No row: no committed row has revision 0.
Absent == [rev |-> 0, events |-> <<>>, plan |-> Unplanned]
NoRequest == [kind |-> "idle"]

PracticeTypeOK ==
    /\ \A s \in Students :
         /\ profile[s].rev \in 0..MaxRevision /\ profile[s].plan \in Plans \cup {Unplanned}
         /\ ToSet(profile[s].events) \subseteq Events
         /\ Len(profile[s].events) <= MaxKept
         /\ Cardinality(ToSet(profile[s].events)) = Len(profile[s].events)
    /\ rows \in [Students -> SUBSET Events]
    /\ mastery \in [Students -> Notes \cup {Nothing}]
    /\ bound \subseteq Students

PracticeInit ==
    /\ profile = [s \in Students |-> Absent]
    /\ rows = [s \in Students |-> {}]
    /\ mastery = [s \in Students |-> Nothing]
    /\ \E s \in Students : bound = {s}
    /\ request = [q \in Requests |-> NoRequest]

Earlier(e, f) == e.day < f.day \/ (e.day = f.day /\ e.id < f.id)
ByDay(es) == Ordered(es, Earlier)

\* _merge_events: what is new goes to the end, what is old is cut off the front.
MergeEvents(existing, incoming) ==
    LET merged == existing \o ByDay(incoming \ ToSet(existing))
    IN  SubSeq(merged, Len(merged) - Least(Len(merged), MaxKept) + 1, Len(merged))

\* The account must be bound to exactly one student (_student_id).
Takes(q, kind, s, brings, plan) ==
    /\ bound = {s}
    /\ request' = [request EXCEPT ![q] =
         [kind |-> kind, student |-> s, brings |-> brings, plan |-> plan,
          read |-> profile[s]]]

\* Mutant: the revision is counted on from the client's base, not compared.
ReadForAnyUpdate(q, s, base, brings, plan) ==
    /\ request[q] = NoRequest
    /\ bound = {s}
    /\ request' = [request EXCEPT ![q] =
         [kind |-> "update", student |-> s, brings |-> brings, plan |-> plan,
          read |-> [profile[s] EXCEPT !.rev = base]]]
    /\ UNCHANGED <<profile, rows, mastery, bound>>

\* update_state finds the base revision current; without a row it must be 0.
ReadForUpdate(q, s, base, brings, plan) ==
    /\ request[q] = NoRequest
    /\ base = profile[s].rev
    /\ Takes(q, "update", s, brings, plan)
    /\ UNCHANGED <<profile, rows, mastery, bound>>

\* ingest_events takes the events of its batch that have no row yet, whoever's;
\* with an id that is another student's it refuses the batch.
ReadForIngest(q, s, batch) ==
    LET mine == batch \ rows[s] IN
    /\ request[q] = NoRequest
    /\ profile[s] # Absent
    /\ mine # {} /\ \A t \in Students \ {s} : batch \cap rows[t] = {}
    /\ Takes(q, "ingest", s, mine, profile[s].plan)
    /\ UNCHANGED <<profile, rows, mastery, bound>>

Written(q) ==
    [rev |-> request[q].read.rev + 1, plan |-> request[q].plan,
     events |-> MergeEvents(request[q].read.events, request[q].brings)]

Revisions == FoldFunction(+, 0, [s \in Students |-> profile[s].rev])

Ends(q) == request' = [request EXCEPT ![q] = NoRequest]

\* Mutant: the state of the client replaces the events.
CommitUpdateReplacing(q) ==
    /\ request[q].kind = "update" /\ Revisions < MaxRevision
    /\ request[q].read = Absent => profile[request[q].student] = Absent
    /\ profile' = [profile EXCEPT ![request[q].student] =
                     [Written(q) EXCEPT !.events = ByDay(request[q].brings)]]
    /\ Ends(q) /\ UNCHANGED <<rows, mastery, bound>>

\* A first profile inserted meanwhile by another request meets the unique
\* constraint.
CommitUpdate(q) ==
    /\ request[q].kind = "update" /\ Revisions < MaxRevision
    /\ request[q].read = Absent => profile[request[q].student] = Absent
    /\ profile' = [profile EXCEPT ![request[q].student] = Written(q)]
    /\ Ends(q) /\ UNCHANGED <<rows, mastery, bound>>

\* The unique event_id refuses the batch if another request has inserted one of
\* its events.
CommitIngest(q) ==
    LET new == request[q].brings IN
    /\ request[q].kind = "ingest" /\ Revisions < MaxRevision
    /\ \A t \in Students : new \cap rows[t] = {}
    /\ profile' = [profile EXCEPT ![request[q].student] = Written(q)]
    /\ rows' = [rows EXCEPT ![request[q].student] = @ \cup new]
    /\ Ends(q) /\ UNCHANGED <<mastery, bound>>

\* An exception, the constraints' included, or a lost connection: rolled back.
RollBack(q) ==
    /\ request[q] # NoRequest
    /\ Ends(q) /\ UNCHANGED <<profile, rows, mastery, bound>>

\* upsert_analytics_metadata: the last document is the one that counts.
SaveMetadata(s, levels) ==
    /\ mastery' = [mastery EXCEPT ![s] = levels]
    /\ UNCHANGED <<profile, rows, bound, request>>

\* A teacher grants the account a student or takes one away.
Bind(students) ==
    /\ bound' = students
    /\ UNCHANGED <<profile, rows, mastery, request>>

PracticeNext ==
    \/ \E q \in Requests, s \in Students :
        \/ \E base \in 0..MaxRevision, brings \in Batches, plan \in Plans :
              ReadForUpdate(q, s, base, brings, plan)
        \/ \E batch \in Batches : ReadForIngest(q, s, batch)
    \/ \E q \in Requests : CommitUpdate(q) \/ CommitIngest(q) \/ RollBack(q)
    \/ \E s \in Students, levels \in Notes : SaveMetadata(s, levels)
    \/ \E students \in SUBSET Students : Bind(students)

PracticeSpec == PracticeInit /\ [][PracticeNext]_practiceVars

-----------------------------------------------------------------------------
(* The report *)

Attempts(s, c) == ByDay({e \in rows[s] : e.competency = c})

Index(s, c) == RetentionIndex(Attempts(s, c), profile[s].plan[c])

\* student_report: a competency appears with metadata, a schedule or events.
Report(s) ==
    {CompetencyReport(c, Attempts(s, c), profile[s].plan[c], mastery[s][c]) :
        c \in {d \in Competencies : \/ mastery[s][d] # {} \/ Attempts(s, d) # <<>>
                                    \/ profile[s].plan[d] # NoSchedule}}

-----------------------------------------------------------------------------
\* Optimistic locking: what is written follows the revision that is replaced, so a
\* writer whose base is out of date loses to nobody and replaces nothing.
RevisionFollows ==
    [][\A s \in Students :
         profile'[s] # profile[s] => profile'[s].rev = profile[s].rev + 1]_practiceVars

\* Every event taken into the event table is in the state that devices read back,
\* or was cut off it by later ones.
EventsInState ==
    \A s \in Students : rows[s] \subseteq ToSet(profile[s].events)
                        \/ Len(profile[s].events) = MaxKept

\* An event counts for one student, whichever student the device's account was
\* bound to when it sent it, and sent it again.
CountedOnce == \A s, t \in Students : s # t => rows[s] \cap rows[t] = {}

\* The brief names no skill twice, and leaves out one that is overdue or lapses again
\* and again only for a full list; the counts beside it are those of the skills that
\* its actions and due dates name, although they are computed apart.
BriefSound ==
    \A s \in Students :
        LET report == Report(s)
            warmup == Warmup(report)
            pressing == {c \in report : c.lapsed \/ c.overdue > 0}
        IN  /\ Cardinality(ToSet(warmup)) = Len(warmup)
            /\ (\A c \in pressing : c.id \in ToSet(warmup)) \/ Len(warmup) = BriefLength
            /\ Summary(report).repeated =
                 Cardinality({c \in report : "repeated-lapse" \in c.actions})
            /\ Summary(report).overdue =
                 Cardinality({c \in report : c.due = "overdue"})

PracticeSound == PracticeTypeOK /\ EventsInState /\ CountedOnce /\ BriefSound

\* A correct answer without help, later than all the others, never lowers the index,
\* although it pushes the oldest answer out of the window.
PracticeHelps ==
    [][\A s \in Students : \A e \in rows'[s] \ rows[s] :
         (/\ rows'[s] = rows[s] \cup {e}
          /\ e.correct /\ e.hints + e.retries = 0 /\ ~e.again
          /\ \A f \in rows[s] : f.competency = e.competency => f.day < e.day
          /\ Index(s, e.competency) # NoIndex)
         => Index(s, e.competency)' >= Index(s, e.competency)]_practiceVars
=============================================================================
