------------------------- MODULE OperationLifecycle -------------------------
(***************************************************************************)
(* What the operation service promises of an accepted request, with no     *)
(* worker, clock, lease or restart in sight: one operation at a time, lego *)
(* started at most once for it, a verdict that never denies a start that   *)
(* happened, and a published verdict that stays.                           *)
(***************************************************************************)
EXTENDS Naturals

CONSTANTS Ops, NoOp

VARIABLES seen,     \* operations accepted so far
          current,  \* the operation the service shows
          stage,    \* where it is
          starts,   \* native starts per operation
          verdict   \* what its result claims

vars == <<seen, current, stage, starts, verdict>>

Stages == {"none", "accepted", "claimed", "uncertain", "published"}
Verdicts == {"none", "not_started", "may_have_changed", "succeeded"}

Init ==
    /\ seen = {}
    /\ current = NoOp
    /\ stage = "none"
    /\ starts = [o \in Ops |-> 0]
    /\ verdict = "none"

\* A request is accepted once the previous operation is published.
Accept(o) ==
    /\ stage \in {"none", "published"}
    /\ o \notin seen
    /\ seen' = seen \cup {o}
    /\ current' = o
    /\ stage' = "accepted"
    /\ verdict' = "none"
    /\ UNCHANGED starts

Claim ==
    /\ stage = "accepted"
    /\ stage' = "claimed"
    /\ UNCHANGED <<seen, current, starts, verdict>>

\* Lego is started, and never twice.
Start ==
    /\ stage = "claimed"
    /\ starts[current] = 0
    /\ starts' = [starts EXCEPT ![current] = 1]
    /\ UNCHANGED <<seen, current, stage, verdict>>

\* A verdict supported by what happened.
Conclude(v) ==
    /\ stage = "claimed"
    /\ v = "not_started" => starts[current] = 0
    /\ v = "succeeded" => starts[current] = 1
    /\ verdict' = v
    /\ stage' = "published"
    /\ UNCHANGED <<seen, current, starts>>

\* The service lost track of the run: the verdict is conservative and waits
\* for an inventory reconciliation.
Doubt ==
    /\ stage = "claimed"
    /\ stage' = "uncertain"
    /\ verdict' = "may_have_changed"
    /\ UNCHANGED <<seen, current, starts>>

Settle ==
    /\ stage = "uncertain"
    /\ stage' = "published"
    /\ UNCHANGED <<seen, current, starts, verdict>>

Next ==
    \/ \E o \in Ops : Accept(o)
    \/ Claim \/ Start \/ Doubt \/ Settle
    \/ \E v \in Verdicts \ {"none"} : Conclude(v)

Spec == Init /\ [][Next]_vars
=============================================================================
