--------------------------- MODULE CircuitBreaker ---------------------------
(***************************************************************************)
(* The circuit breaker that every thread of a process shares for one       *)
(* external provider.  A call passes before_call, waits for the provider   *)
(* outside the breaker's lock and reports success or failure; the breaker  *)
(* may have changed in the meantime.  The clock is kept as what            *)
(* before_call compares: whether recovery_seconds have passed.             *)
(***************************************************************************)
EXTENDS Naturals

CONSTANTS
    Calls,          \* concurrent calls of the provider
    Threshold       \* failure_threshold

ASSUME ThresholdAssumption == Threshold \in Nat \ {0}

VARIABLES
    failures,   \* _failures, no further than Threshold
    opened,     \* _opened_at: None, less than recovery_seconds ago, or longer
    probing,    \* _probe_in_progress
    call        \* call[c]: where call c stands, and whether it is a probe

vars == <<failures, opened, probing, call>>

TypeOK ==
    /\ failures \in 0..Threshold
    /\ opened \in {"None", "recent", "elapsed"}
    /\ probing \in BOOLEAN
    /\ call \in [Calls -> {"idle", "plain", "probe", "refused"}]

Init ==
    /\ failures = 0 /\ opened = "None" /\ probing = FALSE
    /\ call = [c \in Calls |-> "idle"]

\* Mutant: only a success closes the circuit, and no call is let through to see one.
AdmitsClosed == opened = "None"

\* before_call lets the call through.
Admits == opened = "None" \/ (opened = "elapsed" /\ ~probing)

Enter(c) ==
    /\ call[c] = "idle" /\ Admits
    /\ \/ opened = "None" /\ call' = [call EXCEPT ![c] = "plain"] /\ UNCHANGED probing
       \/ opened # "None" /\ call' = [call EXCEPT ![c] = "probe"] /\ probing' = TRUE
    /\ UNCHANGED <<failures, opened>>

\* Otherwise it raises CircuitOpenError, which guard does not take for a failure.
Refuse(c) ==
    /\ call[c] = "idle" /\ ~Admits
    /\ call' = [call EXCEPT ![c] = "refused"]
    /\ UNCHANGED <<failures, opened, probing>>

Returns(c) ==
    /\ call[c] = "refused"
    /\ call' = [call EXCEPT ![c] = "idle"]
    /\ UNCHANGED <<failures, opened, probing>>

Out(c) == call[c] \in {"plain", "probe"}

\* record_success
Succeeds(c) ==
    /\ Out(c)
    /\ failures' = 0 /\ opened' = "None" /\ probing' = FALSE
    /\ call' = [call EXCEPT ![c] = "idle"]

\* Mutant: the probe is given back only where the failure counts.
RejectedProbing(c) ==
    /\ Out(c)
    /\ call' = [call EXCEPT ![c] = "idle"]
    /\ UNCHANGED <<failures, opened, probing>>

\* record_failure of an error that is the caller's own.
Rejected(c) ==
    /\ Out(c)
    /\ probing' = FALSE
    /\ call' = [call EXCEPT ![c] = "idle"]
    /\ UNCHANGED <<failures, opened>>

\* record_failure of a transient error.
Fails(c) ==
    /\ Out(c)
    /\ probing' = FALSE
    /\ failures' = IF failures < Threshold THEN failures + 1 ELSE failures
    /\ opened' = IF failures + 1 >= Threshold THEN "recent" ELSE opened
    /\ call' = [call EXCEPT ![c] = "idle"]

Elapses == opened = "recent" /\ opened' = "elapsed" /\ UNCHANGED <<failures, probing, call>>

Answered(c) == Succeeds(c) \/ Rejected(c) \/ Fails(c)

Next == Elapses \/ \E c \in Calls : Enter(c) \/ Refuse(c) \/ Returns(c) \/ Answered(c)

Spec == Init /\ [][Next]_vars

\* Time passes, and every call has a timeout.
FairSpec == Spec /\ WF_vars(Elapses) /\ \A c \in Calls : WF_vars(Answered(c))

-----------------------------------------------------------------------------
\* A closed circuit has seen fewer failures in a row than opens it, whichever order
\* the answers of overlapping calls come in.
ClosedBelowThreshold == opened = "None" => failures < Threshold

\* The mark of a running probe is never left behind: somebody is at it, who will
\* take it away.
ProbeIsRunning == probing => \E c \in Calls : call[c] = "probe"

\* Both of these.
CircuitSound == ClosedBelowThreshold /\ ProbeIsRunning

\* A provider that fails is asked again, time after time.
AlwaysAsksAgain == []<>Admits
=============================================================================
