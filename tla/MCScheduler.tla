----------------------------- MODULE MCScheduler -----------------------------
(***************************************************************************)
(* Instances of Scheduler for TLC.  Days have three minutes.               *)
(***************************************************************************)
EXTENDS Scheduler

MCHorizon == 18

\* "dst": minute 1 of day 0 is skipped, minute 1 of day 1 happens twice.
\* "west": after the first minute of day 1 the last minute of day 0 comes again.
MCLocalTime ==
    [z \in {"dst", "west"} |-> [t \in 0..MCHorizon |->
        IF z = "dst" THEN (IF t \in 1..3 THEN t + 1 ELSE t)
        ELSE IF t <= 2 THEN t + 1 ELSE t - 1]]

\* "nuuk": the last minute of day 1 is skipped (America/Nuuk, 23:00 to 24:00
\* on the last Saturday of March).
GapLocalTime ==
    [z \in {"nuuk"} |-> [t \in 0..MCHorizon |-> IF t <= 4 THEN t ELSE t + 1]]
=============================================================================
