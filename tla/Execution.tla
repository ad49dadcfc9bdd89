----------------------------- MODULE Execution ------------------------------
(***************************************************************************)
(* How one native run is turned into a durable result (internal/operation, *)
(* executor.go), as operators over what the executor observed:             *)
(*   b       the broker's answer [err, started, outcome, changed,          *)
(*           attempts],                                                    *)
(*   inv     the inventory state after the run,                            *)
(*   intact  the reviewed evidence was still current afterwards.           *)
(* b.changed is the set of certificates whose native artifacts the run     *)
(* replaced (the preflight inventory against the final one); b.attempts    *)
(* numbers the renewal attempts in the order lego logged them, 0 for a     *)
(* certificate the retained output does not mention.                       *)
(***************************************************************************)
EXTENDS JobStore

CONSTANT NoItem

ASSUME NoItemAssumption == NoItem \notin Items

Outcomes == {"succeeded", "failed", "timed_out", "interrupted",
             "output_limit", "ambiguous"}

BrokerResults == [err : BOOLEAN, started : BOOLEAN, outcome : Outcomes,
                  changed : SUBSET Items, attempts : [Items -> Nat]]

Results == [state : TerminalStates, mayHaveChanged : BOOLEAN,
            inventory : {"refreshed", "unavailable"},
            items : [Items -> ItemStates]]

\* brokerErr without a start, or before any run: nothing was launched.
NotStarted == [err |-> TRUE, started |-> FALSE, outcome |-> "ambiguous",
               changed |-> {}, attempts |-> [i \in Items |-> 0]]

\* finishWithoutRun and the busy-workspace return of Execute.
WithoutRun(state, inv) ==
    [state |-> state, mayHaveChanged |-> FALSE, inventory |-> inv,
     items |-> AllItems("not_attempted")]

\* Mutant: certificates missing from an unread inventory count as replaced.
ChangedWhenUnread(b, inv) == IF inv = "refreshed" THEN b.changed ELSE Items

\* changedCertificateNames: an unread inventory proves no change.
Changed(b, inv) == IF inv = "refreshed" THEN b.changed ELSE {}

\* failedRenewalCertificate: the last unchanged certificate lego tried.
FailedRenewal(b, inv) ==
    LET known == {i \in Items \ b.changed : b.attempts[i] # 0}
    IN IF b.outcome = "failed" /\ inv = "refreshed" /\ known # {}
       THEN CHOOSE i \in known : \A j \in known : b.attempts[j] <= b.attempts[i]
       ELSE NoItem

ItemOutcome(b, inv, i) ==
    CASE b.outcome = "succeeded"   -> "completed"
      [] b.outcome # "succeeded" /\ i \in Changed(b, inv) -> "completed"
      [] b.outcome # "succeeded" /\ i \notin Changed(b, inv)
            /\ i = FailedRenewal(b, inv) -> "failed"
      [] OTHER -> "ambiguous"

RunState(b, inv) ==
    CASE b.outcome = "succeeded"   -> "succeeded"
      [] b.outcome = "failed"      ->
            IF Changed(b, inv) # {} /\ Changed(b, inv) # Items
            THEN "partial" ELSE "failed"
      [] b.outcome = "timed_out"   -> "timed_out"
      [] b.outcome = "interrupted" -> "interrupted"
      [] OTHER                     -> "ambiguous"

\* Mutant: a broker error is always taken for a run that never started.
ClassifyFailedRunDenied(b, inv) == WithoutRun("not_attempted", inv)

ClassifyFailedRun(b, inv) ==
    [state |-> IF b.started THEN "ambiguous" ELSE "not_attempted",
     mayHaveChanged |-> b.started, inventory |-> inv,
     items |-> [i \in Items |->
        IF ~b.started THEN "not_attempted"
        ELSE IF i \in Changed(b, inv) THEN "completed" ELSE "ambiguous"]]

\* Mutant: the evidence check after the run is dropped.
ClassifyCompletedRunUnchecked(b, inv, intact) ==
    [state |-> RunState(b, inv), mayHaveChanged |-> b.started,
     inventory |-> inv, items |-> [i \in Items |-> ItemOutcome(b, inv, i)]]

ClassifyCompletedRun(b, inv, intact) ==
    [state |-> IF intact THEN RunState(b, inv) ELSE "ambiguous",
     mayHaveChanged |-> b.started, inventory |-> inv,
     items |-> [i \in Items |->
        IF intact \/ ItemOutcome(b, inv, i) = "completed"
        THEN ItemOutcome(b, inv, i) ELSE "ambiguous"]]

ClassifyExecution(b, inv, intact) ==
    IF b.err THEN ClassifyFailedRun(b, inv)
             ELSE ClassifyCompletedRun(b, inv, intact)
=============================================================================
