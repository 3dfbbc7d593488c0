--------------------------- MODULE MCPracticeSync ---------------------------
(* Instances of PracticeSync: four answers in one skill, one in another. *)
EXTENDS PracticeSync

CONSTANTS q1, s1, s2

Answer(id, competency, day, correct, hints, again) ==
    [id |-> id, competency |-> competency, day |-> day, correct |-> correct,
     hints |-> hints, retries |-> 0, again |-> again]

Answers ==
    {Answer(1, 1, 1, TRUE, 0, FALSE), Answer(2, 1, 2, FALSE, 1, TRUE),
     Answer(3, 1, 3, TRUE, 0, FALSE), Answer(4, 1, 4, TRUE, 0, FALSE)}

\* The answers one by one, the first three together, all of them.
Sent == {{}, {Answer(2, 1, 2, FALSE, 1, TRUE)}, {Answer(4, 1, 4, TRUE, 0, FALSE)},
         {e \in Answers : e.id < 4}, Answers}

Plan(interval, lapses, repeated, due) ==
    [interval |-> interval, lapses |-> lapses, repeated |-> repeated, due |-> due]

\* All goes well; or both skills are overdue, one of them lapsed again and again.
Planned ==
    {<<Plan(3, 0, FALSE, 12), NoSchedule>>,
     <<Plan(1, 2, TRUE, 1), Plan(3, 0, FALSE, 9)>>}

Noted == {<<{2}, {}>>}

\* log2(d + 1) / log2(121) in hundredths.
Strength == 0 :> 0 @@ 1 :> 14 @@ 3 :> 29

Symmetry == Permutations(Students)
=============================================================================
