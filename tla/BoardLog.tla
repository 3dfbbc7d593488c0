------------------------------ MODULE BoardLog ------------------------------
(***************************************************************************)
(* What the command journal of a board promises: a log that grows by one   *)
(* entry at its end while the board is open, in which no idempotency key   *)
(* occurs twice and the Lamport numbers of an actor rise, and which is     *)
(* rewritten by nobody.  A closed board may be discarded as a whole.       *)
(***************************************************************************)
EXTENDS Naturals

CONSTANT Entries    \* records with a rev, a key, a maker and a lamport

VARIABLES
    log,    \* the entries
    open    \* whether the board takes entries

vars == <<log, open>>

Init == log = {} /\ open = TRUE

\* The first entry has revision 1, any other one the revision after the last.
Follows(e) ==
    /\ e.rev = 1 \/ \E f \in log : e.rev = f.rev + 1
    /\ \A f \in log : f.rev < e.rev
    /\ \A f \in log : e.key # f.key
    /\ \A f \in log : e.maker = f.maker /\ e.lamport # 0 => f.lamport < e.lamport

Append ==
    /\ open /\ open'
    /\ \E e \in Entries : Follows(e) /\ log' = log \cup {e}

OpenOrClose == log' = log /\ open' \in BOOLEAN

Discard == ~open /\ ~open' /\ log' = {}

Next == Append \/ OpenOrClose \/ Discard

Spec == Init /\ [][Next]_vars
=============================================================================
