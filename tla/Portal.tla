------------------------------- MODULE Portal -------------------------------
(***************************************************************************)
(* What publication promises, whoever delivers its events and however      *)
(* often: a recipient is shown and told only what was published, a         *)
(* publication counts as completed only when its delivery is there, and    *)
(* what is settled stays so until an operator sends an event once more.    *)
(***************************************************************************)
CONSTANT Runs

VARIABLES
    decided,    \* decided[r]: what the tutor decided of run r
    outcome,    \* outcome[e]: what became of event e
    shown,      \* shown[r]: what the recipient sees of run r
    told,       \* the notifications
    resent      \* whether an operator sent an event again

vars == <<decided, outcome, shown, told, resent>>

Topics == {"material.published", "material.revoked"}
Events == [run : Runs, topic : Topics]

Init ==
    /\ decided = [r \in Runs |-> "approved"]
    /\ outcome = [e \in Events |-> "absent"]
    /\ shown = [r \in Runs |-> "none"]
    /\ told = {}
    /\ resent = FALSE

\* The first decision of its kind announces its event.
Decide(e, before, after) ==
    /\ decided[e.run] = before /\ outcome[e] = "absent"
    /\ decided' = [decided EXCEPT ![e.run] = after]
    /\ outcome' = [outcome EXCEPT ![e] = "open"]
    /\ UNCHANGED <<shown, told, resent>>

Tell(kind, r) == told' = told \cup {[kind |-> kind, run |-> r]}

\* A published run is shown, or found to be.  It replaces what is shown already.
Show(e) ==
    LET r == e.run
        replaces == \E q \in Runs \ {r} : shown[q] = "available"
    IN
    /\ e.topic = "material.published" /\ outcome[e] # "absent"
    /\ \/ shown' = [shown EXCEPT ![r] = "available"]
       \/ shown[r] # "none" /\ shown' = shown
    /\ Tell(IF replaces THEN "material_replaced" ELSE "material_available", r)
    /\ UNCHANGED <<decided, outcome, resent>>

\* A revoked run is withdrawn where it was shown.
Withdraw(e) ==
    /\ e.topic = "material.revoked" /\ outcome[e] # "absent" /\ shown[e.run] # "none"
    /\ shown' = [shown EXCEPT ![e.run] = "revoked"]
    /\ Tell("material_revoked", e.run)
    /\ UNCHANGED <<decided, outcome, resent>>

Ends(e, as) ==
    /\ outcome[e] = "open"
    /\ outcome' = [outcome EXCEPT ![e] = as]
    /\ UNCHANGED <<decided, shown, told, resent>>

Complete(e) ==
    /\ e.topic = "material.published" => shown[e.run] # "none"
    /\ Ends(e, "completed")

GiveUp(e) == Ends(e, "dead")

Resend(e) ==
    /\ outcome[e] # "absent"
    /\ outcome' = [outcome EXCEPT ![e] = "open"]
    /\ resent' = TRUE
    /\ UNCHANGED <<decided, shown, told>>

\* After that, one who still holds an earlier claim may take an outcome back.
TakeBack(e) ==
    /\ resent /\ outcome[e] # "absent"
    /\ \E as \in {"open", "dead"} : outcome' = [outcome EXCEPT ![e] = as]
    /\ UNCHANGED <<decided, shown, told, resent>>

Next ==
    \E e \in Events :
        \/ e.topic = "material.published" /\ Decide(e, "approved", "published")
        \/ e.topic = "material.revoked" /\ Decide(e, "published", "revoked")
        \/ Show(e) \/ Withdraw(e)
        \/ Complete(e) \/ GiveUp(e) \/ Resend(e) \/ TakeBack(e)

Spec == Init /\ [][Next]_vars
=============================================================================
