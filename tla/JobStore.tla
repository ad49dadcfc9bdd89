------------------------------ MODULE JobStore ------------------------------
(***************************************************************************)
(* The singleton row of the durable operation store (internal/jobs).       *)
(*                                                                         *)
(* Every store method is one SQLite transaction.  It is given here as the  *)
(* row it would write; the caller commits it only when Validate holds of   *)
(* it, because every method but UpdatePhase reloads and validates the row  *)
(* inside its transaction and rolls back when that fails.  Reason codes,   *)
(* redacted output and report context are left out: no property reads      *)
(* them.  Instants are natural numbers; 0 is Go's zero time.               *)
(***************************************************************************)
EXTENDS Naturals

CONSTANTS Ops,    \* operation identifiers (random, never reused)
          Items,  \* certificates in the scope of a reviewed request
          NoOp    \* the identifier of no operation

ASSUME OpsAssumption == NoOp \notin Ops

Kinds == {"manual", "scheduled"}

ActiveStates == {"queued", "running"}
TerminalStates == {"succeeded", "failed", "partial", "not_attempted",
                   "timed_out", "interrupted", "incompatible", "ambiguous"}
UncertainStates == {"interrupted", "ambiguous"}

Phases == {"queued", "revalidating", "executing", "refreshing_inventory", ""}

InventoryStates == {"pending", "refreshed", "unavailable"}
ItemStates == {"completed", "failed", "not_attempted", "ambiguous"}

AllItems(state) == [i \in Items |-> state]
\* No item result has been inserted yet.
NoItems == AllItems("")

Rows == [id : Ops \cup {NoOp}, kind : Kinds,
         state : ActiveStates \cup TerminalStates \cup {"none"},
         phase : Phases, evidence : Nat,
         requested : Nat, started : Nat, finished : Nat, updated : Nat,
         mayHaveChanged : BOOLEAN, inventory : InventoryStates,
         items : [Items -> ItemStates \cup {""}]]

\* The table is empty.
NoRow == [id |-> NoOp, kind |-> "manual", state |-> "none", phase |-> "",
          evidence |-> 0, requested |-> 0, started |-> 0, finished |-> 0,
          updated |-> 0, mayHaveChanged |-> FALSE, inventory |-> "pending",
          items |-> NoItems]

Active(r) == r.state \in ActiveStates
Terminal(r) == r.state \in TerminalStates
Pending(r) == r.inventory = "pending"

(***************************************************************************)
(* validateOperation: what every reader demands of the persisted row.      *)
(***************************************************************************)
Validate(r) ==
    /\ r.updated >= r.requested
    /\ \/ /\ r.state = "queued"
          /\ r.phase = "queued"
          /\ r.started = 0 /\ r.finished = 0
          /\ ~r.mayHaveChanged /\ r.items = NoItems
          /\ Pending(r)
       \/ /\ r.state = "running"
          /\ r.phase \in {"revalidating", "executing", "refreshing_inventory"}
          /\ r.started # 0 /\ r.finished = 0
          /\ r.items = NoItems
          /\ Pending(r)
       \/ /\ Terminal(r)
          /\ r.phase = ""
          /\ r.started # 0 /\ r.finished # 0
          /\ \A i \in Items : r.items[i] \in ItemStates
          /\ Pending(r) => r.state \in UncertainStates
    /\ r.started # 0 => r.started >= r.requested
    /\ r.finished # 0 => r.finished >= r.started /\ r.updated >= r.finished

\* Mutant: an unreconciled predecessor may be replaced.
MayEnqueueUnreconciled(r) == ~Active(r)

\* EnqueueKind replaces nothing but a completed, reconciled predecessor.
MayEnqueue(r) == r.state = "none" \/ ~(Active(r) \/ Pending(r))

EnqueueKind(o, kind, evidence, t) ==
    [id |-> o, kind |-> kind, state |-> "queued", phase |-> "queued",
     evidence |-> evidence, requested |-> t, started |-> 0, finished |-> 0,
     updated |-> t, mayHaveChanged |-> FALSE, inventory |-> "pending",
     items |-> NoItems]

MayClaim(r) == r.state = "queued" /\ r.phase = "queued"

Claim(r, t) ==
    [r EXCEPT !.state = "running", !.phase = "revalidating",
              !.started = t, !.updated = t]

ValidPhaseTransition(from, to) ==
    \/ from = "revalidating" /\ to \in {"executing", "refreshing_inventory"}
    \/ from = "executing" /\ to = "refreshing_inventory"

MayUpdatePhase(r, o, to) ==
    r.id = o /\ r.state = "running" /\ ValidPhaseTransition(r.phase, to)

\* The one transaction that commits without reloading the row.
UpdatePhase(r, to, t) == [r EXCEPT !.phase = to, !.updated = t]

MayFinish(r, o) == r.id = o /\ r.state = "running"

\* Mutant: the update instant is not refreshed.
FinishStaleUpdate(r, res, t) ==
    [r EXCEPT !.state = res.state, !.phase = "", !.finished = t,
              !.mayHaveChanged = res.mayHaveChanged,
              !.inventory = res.inventory, !.items = res.items]

Finish(r, res, t) ==
    [r EXCEPT !.state = res.state, !.phase = "", !.finished = t, !.updated = t,
              !.mayHaveChanged = res.mayHaveChanged,
              !.inventory = res.inventory, !.items = res.items]

\* Mutant: an interrupted run is stored as one that changed nothing.
UncertainResultHarmless(state) ==
    [state |-> state, mayHaveChanged |-> FALSE, inventory |-> "pending",
     items |-> AllItems("ambiguous")]

UncertainResult(state) ==
    [state |-> state, mayHaveChanged |-> TRUE, inventory |-> "pending",
     items |-> AllItems("ambiguous")]

FinishUncertain(r, state, t) == Finish(r, UncertainResult(state), t)

\* Mutant: recovery puts the interrupted operation back in the queue.
RequeueRunning(r, t) ==
    [r EXCEPT !.state = "queued", !.phase = "queued", !.started = 0,
              !.updated = t]

InterruptRunning(r, t) == FinishUncertain(r, "interrupted", t)

\* Mutant: recovery looks for interrupted results only.
PendingInterruptedOnly(r) == Pending(r) /\ r.state = "interrupted"

PendingReconciliation(r) == Pending(r) /\ r.state \in UncertainStates

MayReconcile(r, o) == r.id = o /\ PendingReconciliation(r)

CompleteReconciliation(r, inventory, t) ==
    [r EXCEPT !.inventory = inventory, !.updated = t]

\* What Service.Latest shows: a terminal result whose inventory is settled.
Published(r) == Terminal(r) /\ ~Pending(r)
=============================================================================
