------------------------------ MODULE Scheduler ------------------------------
(***************************************************************************)
(* The automatic schedule (internal/scheduler): one durable row, one       *)
(* evaluation loop, and the operation worker it feeds.                     *)
(*                                                                         *)
(* Time is an instant; a zone maps instants to local minutes, gaps and     *)
(* repetitions included.  service.mu is held from ClaimDue to the end of   *)
(* CompleteClaim or ReleaseClaim, so an update never falls in between, but *)
(* each of these is a transaction of its own and the process may end       *)
(* between any two.                                                        *)
(***************************************************************************)
EXTENDS Integers, Sequences, FiniteSets

CONSTANTS Zones,         \* time zones the administrator chooses from
          LocalTime,     \* LocalTime[z][t]: local minutes since day 0
          DayLength,     \* local minutes of a day
          MaxDays,       \* days the search for an occurrence looks ahead
          Minutes,       \* local times of day the administrator chooses from
          LastInstant,   \* the clock stops here
          Horizon,       \* last instant of the zone tables
          MaxUpdates,    \* saved schedule changes
          MaxUses,       \* manual operations and edits started
          MaxClockSteps, \* backward steps of the wall clock
          MaxFaults      \* crashes and failed calls

Instants == 0..Horizon

ASSUME ZonesAssumption ==
    /\ DayLength \in Nat \ {0} /\ MaxDays \in Nat /\ Horizon \in Nat
    /\ LastInstant \in Nat /\ LastInstant <= Horizon
    /\ LocalTime \in [Zones -> [Instants -> Nat]]
    /\ Minutes \subseteq 0..(DayLength - 1)
    /\ MaxUpdates \in Nat /\ MaxUses \in Nat
    /\ MaxClockSteps \in Nat /\ MaxFaults \in Nat
ASSUME SomeSchedule == Zones # {} /\ Minutes # {}

VARIABLES
    clock,        \* the wall clock
    row,          \* durable: the schedule
    operation,    \* durable: the worker's operation
    pc,           \* where the process is
    interrupted,  \* this start found a running operation
    claim,        \* evaluate: the claimed occurrence
    answer,       \* evaluate: what EnqueueScheduled returned
    editing,      \* somebody else holds the workspace lease
    broken,       \* preparation would refuse the current native files
    updates, uses, steps, faults,
    accepted      \* history: scheduled operations, in order of acceptance

process == <<pc, interrupted, claim, answer>>
counters == <<updates, uses, steps, faults>>
vars == <<clock, row, operation, pc, interrupted, claim, answer, editing,
          broken, updates, uses, steps, faults, accepted>>

-----------------------------------------------------------------------------
(* calculate.go                                                            *)

NoInstant == -1
NoDate == -1

Least(S) == CHOOSE t \in S : \A u \in S : t <= u

OccurrenceLocalDate(t, z) == LocalTime[z][t] \div DayLength

\* The first instant of the local date that is not before the local minute.
OccurrenceOnDate(date, z, minute) ==
    LET found == {t \in Instants :
                    /\ OccurrenceLocalDate(t, z) = date
                    /\ LocalTime[z][t] % DayLength >= minute}
    IN IF found = {} THEN NoInstant ELSE Least(found)

\* Mutant: an occurrence at this very instant counts as the next one.
SearchFromNow(after, z, minute) ==
    LET date == OccurrenceLocalDate(after, z)
        passes(d) == LET t == OccurrenceOnDate(d, z, minute)
                     IN t = NoInstant \/ t >= after
        stop == {d \in date..(date + MaxDays) : passes(d)}
    IN IF stop = {} THEN NoInstant ELSE OccurrenceOnDate(Least(stop), z, minute)

\* Dates are tried from the current one on; the first that fails stops the
\* search with an error, the first whose occurrence lies ahead is the result.
Search(after, z, minute) ==
    LET date == OccurrenceLocalDate(after, z)
        passes(d) == LET t == OccurrenceOnDate(d, z, minute)
                     IN t = NoInstant \/ t > after
        stop == {d \in date..(date + MaxDays) : passes(d)}
    IN IF stop = {} THEN NoInstant ELSE OccurrenceOnDate(Least(stop), z, minute)

\* Tabulated, so that TLC searches once per zone, minute and instant.
NextOccurrences ==
    [z \in Zones |-> [minute \in Minutes |-> [after \in Instants |->
        Search(after, z, minute)]]]

NextOccurrence(after, z, minute) == NextOccurrences[z][minute][after]

-----------------------------------------------------------------------------
Reasons == {"saved", "claimed", "coalesced", "triggered", "deferred", "blocked",
            "recovered"}
Answers == {"none", "accepted", "deferred", "blocked"}
Locations == {"down", "starting", "reconciling", "recover", "evaluate",
              "enqueue", "settle", "wait"}
Operations == {"none", "queued", "running", "reconciling"}

Init ==
    /\ clock = 0
    /\ row = [enabled |-> FALSE, zone |-> CHOOSE z \in Zones : TRUE,
              minute |-> CHOOSE m \in Minutes : TRUE, next |-> NoInstant,
              lastDate |-> NoDate, claiming |-> FALSE, claimed |-> NoInstant,
              reason |-> "saved"]
    /\ operation = "none"
    /\ pc = "starting" /\ interrupted = FALSE
    /\ claim = NoInstant /\ answer = "none"
    /\ editing = FALSE /\ broken = FALSE
    /\ updates = 0 /\ uses = 0 /\ steps = 0 /\ faults = 0
    /\ accepted = <<>>

Due == row.enabled /\ ~row.claiming /\ row.next <= clock

\* Run returns an error, or the process is killed: everything in memory goes,
\* and the lease of an edit with it.
Exit ==
    /\ pc' = "down" /\ interrupted' = FALSE
    /\ claim' = NoInstant /\ answer' = "none"
    /\ editing' = FALSE

Fault == faults < MaxFaults /\ faults' = faults + 1

\* The process ends because the next occurrence cannot be calculated.
CalculationFails ==
    /\ Exit
    /\ UNCHANGED <<clock, row, operation, broken, counters, accepted>>

-----------------------------------------------------------------------------
(* Start.                                                                  *)

Start ==
    /\ pc = "down"
    /\ pc' = "starting"
    /\ UNCHANGED <<clock, row, operation, interrupted, claim, answer, editing,
                   broken, counters, accepted>>

\* jobs: InterruptRunning, then the reconciliation, then Ready.
InterruptRunning ==
    /\ pc = "starting"
    /\ interrupted' = (operation = "running")
    /\ operation' = IF operation = "running" THEN "reconciling" ELSE operation
    /\ pc' = "reconciling"
    /\ UNCHANGED <<clock, row, claim, answer, editing, broken, counters, accepted>>

Ready ==
    /\ pc = "reconciling"
    /\ operation' = IF operation = "reconciling" THEN "none" ELSE operation
    /\ pc' = "recover"
    /\ UNCHANGED <<clock, row, interrupted, claim, answer, editing, broken,
                   counters, accepted>>

\* Mutant: a claim left by the earlier process is not cleared.
RecoverInterruptedOnly ==
    /\ pc = "recover"
    /\ IF row.enabled /\ interrupted /\ ~row.claiming
       THEN row' = [row EXCEPT !.next = NextOccurrence(clock, row.zone, row.minute)]
       ELSE UNCHANGED row
    /\ pc' = "evaluate"
    /\ UNCHANGED <<clock, operation, interrupted, claim, answer, editing, broken,
                   counters, accepted>>

\* Mutant: the claimed occurrence is tried again.
RecoverRetries ==
    /\ pc = "recover"
    /\ row' = IF row.enabled /\ row.claiming
              THEN [row EXCEPT !.next = row.claimed, !.claiming = FALSE,
                               !.claimed = NoInstant]
              ELSE row
    /\ pc' = "evaluate"
    /\ UNCHANGED <<clock, operation, interrupted, claim, answer, editing, broken,
                   counters, accepted>>

\* A claim without a process, or an interrupted operation: the next ordinary
\* occurrence, nothing is retried.
Recover ==
    /\ pc = "recover"
    /\ LET next == NextOccurrence(clock, row.zone, row.minute)
       IN \/ /\ row.enabled /\ (row.claiming \/ interrupted) /\ next # NoInstant
             /\ row' = [row EXCEPT !.next = next, !.claiming = FALSE,
                                   !.claimed = NoInstant, !.reason = "recovered"]
             /\ pc' = "evaluate"
             /\ UNCHANGED <<clock, operation, interrupted, claim, answer, editing,
                            broken, counters, accepted>>
          \/ /\ row.enabled /\ (row.claiming \/ interrupted) /\ next = NoInstant
             /\ CalculationFails
          \/ /\ ~(row.enabled /\ (row.claiming \/ interrupted))
             /\ pc' = "evaluate"
             /\ UNCHANGED <<clock, row, operation, interrupted, claim, answer,
                            editing, broken, counters, accepted>>

-----------------------------------------------------------------------------
(* The loop.                                                               *)

\* Mutant: the date of the last trigger is not looked at.
RepeatedDateIgnored(date) == FALSE

\* The local date ran already (the clock went back, or the schedule moved).
RepeatedDate(date) == row.lastDate # NoDate /\ date <= row.lastDate

ClaimDue ==
    /\ pc = "evaluate"
    /\ LET next == NextOccurrence(clock, row.zone, row.minute)
           repeated == RepeatedDate(OccurrenceLocalDate(row.next, row.zone))
       IN \/ /\ ~Due
             /\ pc' = "wait"
             /\ UNCHANGED <<clock, row, operation, interrupted, claim, answer,
                            editing, broken, counters, accepted>>
          \/ /\ Due /\ next = NoInstant
             /\ CalculationFails
          \/ /\ Due /\ next # NoInstant /\ repeated
             /\ row' = [row EXCEPT !.next = next, !.reason = "coalesced"]
             /\ pc' = "wait"
             /\ UNCHANGED <<clock, operation, interrupted, claim, answer, editing,
                            broken, counters, accepted>>
          \/ /\ Due /\ next # NoInstant /\ ~repeated
             /\ row' = [row EXCEPT !.next = next, !.claiming = TRUE,
                                   !.claimed = row.next, !.reason = "claimed"]
             /\ claim' = row.next
             /\ pc' = "enqueue"
             /\ UNCHANGED <<clock, operation, interrupted, answer, editing, broken,
                            counters, accepted>>

Busy == editing \/ operation \in {"running", "reconciling"}

\* TryAcquire, PrepareExecution, then the insert of the queued operation.
EnqueueScheduled ==
    /\ pc = "enqueue"
    /\ \/ /\ Busy \/ (~broken /\ operation # "none")
          /\ answer' = "deferred"
          /\ UNCHANGED <<operation, faults, accepted>>
       \/ /\ ~Busy /\ broken
          /\ answer' = "blocked"
          /\ UNCHANGED <<operation, faults, accepted>>
       \/ /\ Fault
          /\ answer' = "blocked"
          /\ UNCHANGED <<operation, accepted>>
       \/ /\ ~Busy /\ ~broken /\ operation = "none"
          /\ operation' = "queued"
          /\ answer' = "accepted"
          /\ accepted' = Append(accepted,
                [occurrence |-> claim, date |-> OccurrenceLocalDate(claim, row.zone),
                 recorded |-> FALSE])
          /\ UNCHANGED faults
    /\ pc' = "settle"
    /\ UNCHANGED <<clock, row, interrupted, claim, editing, broken, updates, uses,
                   steps>>

\* Both updates require the claim they settle.
Claimed == row.claiming /\ row.claimed = claim

CompleteClaim ==
    /\ pc = "settle" /\ answer = "accepted" /\ Claimed
    /\ row' = [row EXCEPT !.lastDate = OccurrenceLocalDate(claim, row.zone),
                          !.claiming = FALSE, !.claimed = NoInstant,
                          !.reason = "triggered"]
    /\ accepted' = [accepted EXCEPT ![Len(accepted)].recorded = TRUE]
    /\ pc' = "wait" /\ claim' = NoInstant /\ answer' = "none"
    /\ UNCHANGED <<clock, operation, interrupted, editing, broken, counters>>

\* A deferred occurrence is due again at once; a blocked one is given up.
ReleaseClaim ==
    /\ pc = "settle" /\ answer \in {"deferred", "blocked"} /\ Claimed
    /\ row' = [row EXCEPT !.next = IF answer = "deferred" THEN claim ELSE @,
                          !.claiming = FALSE, !.claimed = NoInstant,
                          !.reason = answer]
    /\ pc' = "wait" /\ claim' = NoInstant /\ answer' = "none"
    /\ UNCHANGED <<clock, operation, interrupted, editing, broken, counters,
                   accepted>>

\* The timer of at most a minute, or notify.
Wake ==
    /\ pc = "wait"
    /\ pc' = "evaluate"
    /\ UNCHANGED <<clock, row, operation, interrupted, claim, answer, editing,
                   broken, counters, accepted>>

\* A store call of the loop fails: Run returns and the process stops.
StoreFails ==
    /\ pc \in {"recover", "evaluate", "settle"} /\ Fault
    /\ Exit
    /\ UNCHANGED <<clock, row, operation, broken, updates, uses, steps, accepted>>

-----------------------------------------------------------------------------
(* The administrator.  HTTP is served before recovery has finished.        *)

\* Mutant: enabling keeps the stored evaluation.
UpdateWithoutNext(enabled, z, m) ==
    /\ pc \notin {"down", "enqueue", "settle"} /\ updates < MaxUpdates
    /\ row' = [row EXCEPT !.enabled = enabled, !.zone = z, !.minute = m,
                          !.claiming = FALSE, !.claimed = NoInstant,
                          !.reason = "saved"]
    /\ updates' = updates + 1
    /\ UNCHANGED <<clock, operation, process, editing, broken, uses, steps, faults,
                   accepted>>

Update(enabled, z, m) ==
    /\ pc \notin {"down", "enqueue", "settle"} /\ updates < MaxUpdates
    /\ LET next == IF enabled THEN NextOccurrence(clock, z, m) ELSE NoInstant
       IN /\ enabled => next # NoInstant
          /\ row' = [row EXCEPT !.enabled = enabled, !.zone = z, !.minute = m,
                                !.next = next, !.claiming = FALSE,
                                !.claimed = NoInstant, !.reason = "saved"]
    /\ updates' = updates + 1
    /\ UNCHANGED <<clock, operation, process, editing, broken, uses, steps, faults,
                   accepted>>

ManualEnqueue ==
    /\ pc # "down" /\ uses < MaxUses
    /\ ~Busy /\ ~broken /\ operation = "none"
    /\ operation' = "queued"
    /\ uses' = uses + 1
    /\ UNCHANGED <<clock, row, process, editing, broken, updates, steps, faults,
                   accepted>>

EditBegin ==
    /\ pc # "down" /\ uses < MaxUses
    /\ ~Busy
    /\ editing' = TRUE
    /\ uses' = uses + 1
    /\ UNCHANGED <<clock, row, operation, process, broken, updates, steps, faults,
                   accepted>>

\* An edit may leave files that preparation refuses, or repair them.
EditEnd ==
    /\ editing
    /\ editing' = FALSE
    /\ broken' \in BOOLEAN
    /\ UNCHANGED <<clock, row, operation, process, counters, accepted>>

-----------------------------------------------------------------------------
(* The operation worker, once it is ready.                                 *)

WorkerUp == pc \notin {"down", "starting", "reconciling"}

\* The executor tries the lease again and gives the operation up when busy.
RunOperation ==
    /\ WorkerUp /\ operation = "queued"
    /\ operation' = IF editing THEN "none" ELSE "running"
    /\ UNCHANGED <<clock, row, process, editing, broken, counters, accepted>>

FinishOperation ==
    /\ WorkerUp /\ operation = "running"
    /\ operation' = "none"
    /\ UNCHANGED <<clock, row, process, editing, broken, counters, accepted>>

Crash ==
    /\ pc # "down" /\ Fault
    /\ Exit
    /\ UNCHANGED <<clock, row, operation, broken, updates, uses, steps, accepted>>

Tick ==
    /\ clock < LastInstant
    /\ clock' = clock + 1
    /\ UNCHANGED <<row, operation, process, editing, broken, counters, accepted>>

ClockBack ==
    /\ steps < MaxClockSteps
    /\ \E t \in 0..(clock - 1) : clock' = t
    /\ steps' = steps + 1
    /\ UNCHANGED <<row, operation, process, editing, broken, updates, uses, faults,
                   accepted>>

-----------------------------------------------------------------------------
Boot == Start \/ InterruptRunning \/ Ready \/ Recover
Loop == ClaimDue \/ EnqueueScheduled \/ CompleteClaim \/ ReleaseClaim \/ Wake
Administrator ==
    \/ \E enabled \in BOOLEAN, z \in Zones, m \in Minutes : Update(enabled, z, m)
    \/ ManualEnqueue \/ EditBegin
Worker == RunOperation \/ FinishOperation

Next ==
    \/ Boot \/ Loop \/ StoreFails
    \/ Administrator \/ EditEnd \/ Worker
    \/ Crash \/ Tick \/ ClockBack

Spec == Init /\ [][Next]_vars

\* systemd restarts the service, its goroutines go on, operations and edits
\* end (both are bounded by a timeout).
Fairness ==
    /\ WF_vars(Boot) /\ WF_vars(Loop)
    /\ WF_vars(Worker) /\ WF_vars(EditEnd)

FairSpec == Spec /\ Fairness

-----------------------------------------------------------------------------
\* Shape of the state.
TypeOK ==
    /\ clock \in Instants
    /\ row \in [enabled : BOOLEAN, zone : Zones, minute : Minutes,
                next : Instants \cup {NoInstant}, lastDate : Nat \cup {NoDate},
                claiming : BOOLEAN, claimed : Instants \cup {NoInstant},
                reason : Reasons]
    /\ row.enabled => row.next # NoInstant
    /\ operation \in Operations
    /\ pc \in Locations /\ interrupted \in BOOLEAN
    /\ claim \in Instants \cup {NoInstant} /\ answer \in Answers
    /\ editing \in BOOLEAN /\ broken \in BOOLEAN
    /\ accepted \in Seq([occurrence : Instants, date : Nat, recorded : BOOLEAN])

\* A durable claim is only ever seen by the evaluation that holds it or by a
\* start that will clear it.  ClaimDue skips a claiming row, so a claim that
\* survived into the loop would silence the schedule for ever.
NoStuckClaim == row.claiming => pc \notin {"evaluate", "wait"}

\* A local date whose trigger was recorded never runs again, nor does an
\* earlier one, through clock steps, zone changes, updates and restarts.
OncePerLocalDate ==
    \A i, j \in 1..Len(accepted) :
        i < j /\ accepted[i].recorded => accepted[i].date < accepted[j].date

\* Without clock steps no occurrence is accepted twice, whatever crash falls
\* between the operation's commit and the schedule's.
NoOccurrenceTwice ==
    steps = 0 =>
        \A i, j \in 1..Len(accepted) :
            i < j => accepted[i].occurrence < accepted[j].occurrence

\* Reference for NextOccurrence: of all the days' occurrences the earliest
\* that lies ahead.
EarliestAfter(after, z, minute) ==
    LET days == {OccurrenceLocalDate(t, z) : t \in Instants}
    IN Least({t \in {OccurrenceOnDate(d, z, minute) : d \in days} : t > after})

\* Every newly calculated evaluation is the earliest daily occurrence ahead,
\* also where local dates repeat or a local time is skipped.
NextIsEarliest ==
    [][row'.next # row.next /\ row'.next \notin {NoInstant, row.claimed} =>
        row'.next = EarliestAfter(clock, row'.zone, row'.minute)]_vars

\* "If a local time does not exist because the clock moves forward, AcmeMux
\* uses the first valid time after the gap": an enabled schedule always has a
\* next evaluation.
GapIsBridged ==
    row.enabled => NextOccurrence(clock, row.zone, row.minute) # NoInstant

\* A due evaluation does not wait for ever, through deferrals, crashes and
\* restarts: it is accepted, given up for a reason the administrator sees, or
\* moved by an update.
Waiting == row.enabled /\ (row.claiming \/ row.next <= clock)
DueIsAnswered == Waiting ~> ~Waiting
=============================================================================
