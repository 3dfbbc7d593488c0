---------------------------- MODULE Scheduling ----------------------------
(***************************************************************************)
(* When lessons are: what SchedulingService lets a tutor book, and the     *)
(* week it shows.  Times are instants; LocalDay is the day an instant has  *)
(* in the zone of the application and DayStart the instant of its local    *)
(* midnight, both functions of the zone.                                   *)
(***************************************************************************)
EXTENDS Integers

CONSTANT Tenants    \* organizations

Lessons ==
    [org : Tenants, starts : Int, ends : Int, status : {"scheduled", "live", "completed",
     "cancelled"}]

\* Half-open: a lesson may begin when another one ends.
Overlap(a, b) == a.starts < b.ends /\ a.ends > b.starts

Standing(lessons, org) == {l \in lessons : l.org = org /\ l.status # "cancelled"}

\* SchedulingService.create; nothing is locked between the look and the insert.
Bookable(lessons, new) ==
    /\ new.starts < new.ends
    /\ \A l \in Standing(lessons, new.org) : ~Overlap(l, new)

\* SchedulingService.week, from a Monday on
InWeek(lessons, org, monday, DayStart) ==
    {l \in lessons : /\ l.org = org
                     /\ DayStart[monday] <= l.starts /\ l.starts < DayStart[monday + 7]}
WeekDays(monday) == monday..(monday + 6)
OnDay(shown, day, LocalDay) == {l \in shown : LocalDay[l.starts] = day}

\* No two standing lessons of an organization at the same time.
NoClash(lessons) ==
    \A a, b \in lessons :
        a # b /\ a.org = b.org /\ "cancelled" \notin {a.status, b.status} => ~Overlap(a, b)

\* What ClassroomService does to a lesson; joining opens it again whatever it was.
JoinedByTutor(l) == [l EXCEPT !.status = "live"]
Ended(l) == [l EXCEPT !.status = "completed"]
StudentMayJoin(l) == l.status # "cancelled"
=============================================================================
