--------------------------- MODULE PracticeReport ---------------------------
(***************************************************************************)
(* What a teacher is shown of a student's practice: the retention index of *)
(* a competency, its category, the actions it calls for and the brief made *)
(* of them before a lesson.  Shares and weights are hundredths, computed   *)
(* exactly, and rounded half up, where the code uses floats (and rounds    *)
(* halves to even); the logarithm of the interval is the function Spacing. *)
(***************************************************************************)
EXTENDS Integers, FiniteSets, SequencesExt

CONSTANTS
    MaxWindow,      \* MAX_RETENTION_EVENTS: the latest events that count (8)
    BriefLength,    \* skills in a brief (3)
    Today,          \* the day of the report
    Spacing         \* Spacing[d]: strength of an interval of d days, 0..100

MinEvents == 3      \* MIN_RETENTION_EVENTS

ASSUME WindowAssumption == MaxWindow \in Nat /\ MaxWindow >= MinEvents
ASSUME BriefAssumption == BriefLength \in Nat \ {0}
ASSUME TodayAssumption == Today \in Int
ASSUME SpacingAssumption ==
    /\ 0 \in DOMAIN Spacing
    /\ \A d, e \in DOMAIN Spacing :
          Spacing[d] \in 0..100 /\ (d <= e => Spacing[d] <= Spacing[e])

NoDate == -1
NoIndex == 101      \* sorts after every index
NoSchedule == [interval |-> 0, lapses |-> 0, repeated |-> FALSE, due |-> NoDate]
Schedules == [interval : DOMAIN Spacing, lapses : Int, repeated : BOOLEAN, due : Int]

Least(x, y) == IF x < y THEN x ELSE y
Clamp(x) == IF x < 0 THEN 0 ELSE Least(x, 100)
Percent(b) == IF b THEN 100 ELSE 0

\* The elements of S, each after those that are before it.
Ordered(S, Before(_, _)) ==
    [i \in 1..Cardinality(S) |->
        CHOOSE x \in S : Cardinality({y \in S : Before(y, x)}) = i - 1]

-----------------------------------------------------------------------------
(* The index of a sequence of events, oldest first, under a schedule *)

Recent(es) == SubSeq(es, Len(es) - Least(Len(es), MaxWindow) + 1, Len(es))

\* Mutant: the oldest event weighs most.
WeightedReversed(vs) == FoldFunction(+, 0, [i \in DOMAIN vs |-> (Len(vs) + 1 - i) * vs[i]])

\* Numerator and denominator of _weighted_average: later events weigh more.
Weighted(vs) == FoldFunction(+, 0, [i \in DOMAIN vs |-> i * vs[i]])
Weights(vs) == (Len(vs) * (Len(vs) + 1)) \div 2

Independence(e) == Clamp(100 - 18 * e.hints - 12 * e.retries - (IF e.again THEN 15 ELSE 0))

OverdueDays(s) == IF s.due # NoDate /\ s.due < Today THEN Today - s.due ELSE 0

LapseAdjustment(s) ==
    Clamp(100 - Least(45, Clamp(9 * s.lapses)) - (IF s.repeated THEN 22 ELSE 0)
              - Least(28, 4 * OverdueDays(s)))

RetentionIndex(es, s) ==
    LET recent == Recent(es)
        success == [i \in DOMAIN recent |-> Percent(recent[i].correct)]
        alone == [i \in DOMAIN recent |-> Independence(recent[i])]
        weights == Weights(recent)
        raw == 45 * Weighted(success) + 25 * Weighted(alone)
               + weights * (20 * Spacing[s.interval] + 10 * LapseAdjustment(s))
    IN  IF Len(recent) < MinEvents THEN NoIndex
        ELSE (2 * raw + 100 * weights) \div (200 * weights)

Category(es, s) ==
    LET index == RetentionIndex(es, s) IN
    CASE index = NoIndex -> "insufficient-data"
      [] index # NoIndex /\ (s.repeated \/ index < 40) -> "rebuild"
      [] ~s.repeated /\ index \in 40..59 -> "fragile"
      [] ~s.repeated /\ index \in 60..74 -> "watch"
      [] OTHER -> "stable"

-----------------------------------------------------------------------------
(* What is made of it *)

Categories == {"rebuild", "fragile", "watch", "insufficient-data", "stable"}
Priority ==
    [category \in Categories |->
        CASE category = "rebuild" -> 0
          [] category = "fragile" -> 1
          [] category = "watch" -> 2
          [] category = "insufficient-data" -> 3
          [] category = "stable" -> 4]

HintDependent(es) ==
    es # <<>> /\ 2 * Cardinality({i \in DOMAIN es : es[i].hints > 0}) >= Len(es)

\* teacher_actions; mastery is {} where the metadata has none.
Actions(es, s, mastery) ==
    LET category == Category(es, s) IN
    {code \in {"repeated-lapse", "long-overdue", "mastery-retention-drop",
               "positive-reassessment", "hint-dependence"} :
        CASE code = "repeated-lapse" -> s.repeated \/ s.lapses >= 2
          [] code = "long-overdue" -> OverdueDays(s) >= 7
          [] code = "mastery-retention-drop" ->
                category \in {"fragile", "rebuild"} /\ \E m \in mastery : m >= 3
          [] code = "positive-reassessment" ->
                category = "stable" /\ \E m \in mastery : m <= 2
          [] code = "hint-dependence" -> HintDependent(es)}

DueStatus(s) ==
    CASE s.due = NoDate -> "unscheduled"
      [] s.due # NoDate /\ s.due < Today -> "overdue"
      [] s.due = Today -> "due-today"
      [] OTHER -> "scheduled"

CompetencyReport(id, es, s, mastery) ==
    [id |-> id, category |-> Category(es, s), index |-> RetentionIndex(es, s),
     overdue |-> OverdueDays(s), due |-> DueStatus(s), lapsed |-> s.repeated,
     lapses |-> s.lapses, actions |-> Actions(es, s, mastery)]

\* The counts of _student_aggregate that stand beside the list of skills.
Summary(report) ==
    [dueToday |-> Cardinality({c \in report : c.due = "due-today"}),
     overdue |-> Cardinality({c \in report : c.overdue > 0}),
     repeated |-> Cardinality({c \in report : c.lapsed \/ c.lapses >= 2}),
     fragile |-> Cardinality({c \in report : c.category \in {"fragile", "rebuild"}})]

\* The more urgent of two competencies, by category, delay, index and title.
MoreUrgent(a, b) ==
    \/ Priority[a.category] < Priority[b.category]
    \/ /\ Priority[a.category] = Priority[b.category]
       /\ \/ a.overdue > b.overdue
          \/ a.overdue = b.overdue /\ a.index < b.index
          \/ a.overdue = b.overdue /\ a.index = b.index /\ a.id < b.id

Attention(report) == Ordered({c \in report : c.actions # {}}, MoreUrgent)

First(seq) == SubSeq(seq, 1, Least(BriefLength, Len(seq)))
Ids(seq) == [i \in DOMAIN seq |-> seq[i].id]

\* Skills that call for an action, the most urgent first, filled up with those due.
Warmup(report) ==
    LET urgent == Ids(First(Attention(report)))
        due == {c.id : c \in {d \in report : d.due \in {"overdue", "due-today"}}}
    IN  First(urgent \o Ordered(due \ ToSet(urgent), <))
=============================================================================
