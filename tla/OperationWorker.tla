--------------------------- MODULE OperationWorker --------------------------
(***************************************************************************)
(* Accepted native operations: the enqueue path of the operation service,  *)
(* the one durable worker, its executor and restart recovery, over the     *)
(* durable row of JobStore.  Volatile state is lost in a crash; the row    *)
(* and the workspace are not.                                              *)
(*                                                                         *)
(* evidence  is the version of everything a review digests (runtime,       *)
(* selection, source inodes with their ctime, intent); a change never      *)
(* restores an earlier version, because ctime is part of the digest.       *)
(***************************************************************************)
EXTENDS Execution, FiniteSets

CONSTANTS MaxTime,      \* last instant the wall clock shows
          MaxEvidence,  \* number of workspace versions
          MaxFaults     \* crashes, stops, failed writes, panics, clock steps

ASSUME BoundsAssumption ==
    /\ MaxTime \in Nat \ {0}
    /\ MaxEvidence \in Nat \ {0}
    /\ MaxFaults \in Nat

VARIABLES
    row,       \* durable: the singleton operation row
    now,       \* wall clock, which an administrator may set back
    evidence,  \* current workspace version
    lease,     \* holder of the workspace lease
    token,     \* version the administrator last previewed (0: none)
    enq,       \* the request inside enqueueMu
    pc,        \* where the worker goroutine is
    job,       \* the operation the worker holds
    phase,     \* execute: currentPhase
    failed,    \* execute: phaseFailure # nil, or the executor panicked
    broker,    \* what broker.Run returned
    res,       \* what the executor (or the inventory refresh) returned
    stopping,  \* the service context is cancelled
    faults,    \* faults so far
    accepted,  \* history: operations committed by EnqueueKind
    starts,    \* history: native starts per operation
    ranWith,   \* history: workspace version the row's run started with
    touched    \* history: certificates whose artifacts that run replaced

store == <<row, accepted>>
native == <<starts, ranWith, touched>>
local == <<job, phase, failed, broker, res>>
vars == <<row, now, evidence, lease, token, enq, pc, job, phase, failed,
          broker, res, stopping, faults, accepted, starts, ranWith, touched>>

NoEnq == [pc |-> "idle", kind |-> "manual", evidence |-> 0]
NoJob == [id |-> NoOp, evidence |-> 0]
NoResult == WithoutRun("not_attempted", "unavailable")

Executing == {"acquire", "prepare", "confirm", "report_executing", "run",
              "report_refreshing", "refresh", "skip_report", "skip_refresh"}
Locations == Executing \cup {"down", "recover", "pending", "idle", "running",
                             "finish", "reconcile", "reconciling",
                             "reconciled"}
Holders == {"free", "worker", "enqueue", "other"}

Fault == faults < MaxFaults /\ faults' = faults + 1

Init ==
    /\ row = NoRow
    /\ now = 1
    /\ evidence = 1
    /\ lease = "free"
    /\ token = 0
    /\ enq = NoEnq
    /\ pc = "down"
    /\ job = NoJob /\ phase = "" /\ failed = FALSE
    /\ broker = NotStarted /\ res = NoResult
    /\ stopping = FALSE
    /\ faults = 0
    /\ accepted = {}
    /\ starts = [o \in Ops |-> 0]
    /\ ranWith = 0
    /\ touched = {}

-----------------------------------------------------------------------------
(* The environment: clock, administrator, other lease holders.             *)

Tick ==
    /\ now < MaxTime
    /\ now' = now + 1
    /\ UNCHANGED <<store, evidence, lease, token, enq, pc, local, stopping,
                   faults, native>>

\* The wall clock is stepped back (instants are stored without the
\* monotonic reading, so nothing compensates).
ClockBack ==
    /\ Fault
    /\ now' \in 1..(now - 1)
    /\ UNCHANGED <<store, evidence, lease, token, enq, pc, local, stopping,
                   native>>

\* Another request of the service (preview, edit, inventory) takes the lease.
OtherAcquire ==
    /\ pc # "down" /\ lease = "free"
    /\ lease' = "other"
    /\ UNCHANGED <<store, now, evidence, token, enq, pc, local, stopping,
                   faults, native>>

\* It releases it, having saved an edit or not.
OtherRelease ==
    /\ lease = "other"
    /\ lease' = "free"
    /\ evidence' \in {evidence, evidence + 1} \cap 1..MaxEvidence
    /\ UNCHANGED <<store, now, token, enq, pc, local, stopping, faults, native>>

\* A host process that knows nothing of the lease changes a reviewed source.
ExternalChange ==
    /\ evidence < MaxEvidence
    /\ evidence' = evidence + 1
    /\ UNCHANGED <<store, now, lease, token, enq, pc, local, stopping, faults,
                   native>>

-----------------------------------------------------------------------------
(* operation.Service: Preview, Enqueue and EnqueueScheduled.               *)

Preview ==
    /\ pc # "down" /\ lease = "free"
    /\ token' = evidence
    /\ UNCHANGED <<store, now, evidence, lease, enq, pc, local, stopping,
                   faults, native>>

\* enqueueMu is taken, then TryAcquire; a busy workspace refuses the request.
EnqueueBegin(kind) ==
    /\ pc # "down" /\ enq.pc = "idle" /\ lease = "free"
    /\ kind = "manual" => token # 0
    /\ lease' = "enqueue"
    /\ enq' = [pc |-> "holding", kind |-> kind, evidence |-> 0]
    /\ UNCHANGED <<store, now, evidence, token, pc, local, stopping, faults,
                   native>>

\* PrepareExecution under the lease, the manual token comparison, Release.
EnqueuePrepare ==
    /\ enq.pc = "holding"
    /\ lease' = "free"
    /\ \/ /\ enq.kind = "manual" => token = evidence
          /\ enq' = [pc |-> "prepared", kind |-> enq.kind, evidence |-> evidence]
       \/ enq' = NoEnq
    /\ UNCHANGED <<store, now, evidence, token, pc, local, stopping, faults,
                   native>>

\* The session guard runs after Release; then EnqueueKind commits or refuses.
EnqueueCommit ==
    /\ enq.pc = "prepared"
    /\ enq' = NoEnq
    /\ \/ /\ MayEnqueue(row)
          /\ \E o \in Ops \ accepted :
                /\ row' = EnqueueKind(o, enq.kind, enq.evidence, now)
                /\ accepted' = accepted \cup {o}
          /\ ranWith' = 0 /\ touched' = {}
       \/ UNCHANGED <<store, ranWith, touched>>
    /\ UNCHANGED <<now, evidence, lease, token, pc, local, stopping, faults,
                   starts>>

-----------------------------------------------------------------------------
(* Process lifetime.                                                       *)

\* execute and reconcile have returned: their variables are gone.
NoLocals ==
    /\ job' = NoJob /\ phase' = "" /\ failed' = FALSE
    /\ broker' = NotStarted /\ res' = NoResult

\* What the end of the process leaves: the row, the clock, the workspace.
Exit ==
    /\ pc' = "down"
    /\ lease' = "free"
    /\ enq' = NoEnq
    /\ NoLocals
    /\ token' = 0
    /\ stopping' = FALSE

\* Killed at any point; the guarded lego process tree dies with the service.
Crash ==
    /\ pc # "down" /\ Fault
    /\ Exit
    /\ UNCHANGED <<store, now, evidence, native>>

\* Run returned an error: main stops every component and exits.
Fatal ==
    /\ Exit
    /\ UNCHANGED <<store, now, evidence, faults, native>>

Restart ==
    /\ pc = "down"
    /\ pc' = "recover"
    /\ UNCHANGED <<store, now, evidence, lease, token, enq, local, stopping,
                   faults, native>>

\* The service context is cancelled (SIGTERM, or another component failed).
StopRequested ==
    /\ pc # "down" /\ ~stopping /\ Fault
    /\ stopping' = TRUE
    /\ UNCHANGED <<store, now, evidence, lease, token, enq, pc, local, native>>

\* Run returns nil at its next look at the context.
WorkerStops ==
    /\ stopping /\ pc \in {"recover", "pending", "idle"}
    /\ Exit
    /\ UNCHANGED <<store, now, evidence, faults, native>>

-----------------------------------------------------------------------------
(* jobs.Service.Run: recover, then the claim loop.                         *)

Goto(location) ==
    /\ pc' = location
    /\ UNCHANGED <<now, evidence, token, enq, stopping>>

\* The transaction commits and the worker goes on.
Persist(r, location) ==
    /\ Validate(r)
    /\ row' = r
    /\ Goto(location)
    /\ UNCHANGED <<accepted, faults, lease>>

\* The reloaded row is invalid: the transaction rolls back, Run returns.
Rejected(r) == ~Validate(r) /\ Fatal

\* A store call fails (disk, locked database, five-second persistence limit).
StoreFails ==
    /\ pc \in {"recover", "pending", "idle", "finish", "reconciled"}
    /\ Fault
    /\ Exit
    /\ UNCHANGED <<store, now, evidence, native>>

RecoverInterrupt ==
    /\ pc = "recover" /\ ~stopping
    /\ \/ /\ row.state = "running"
          /\ Persist(InterruptRunning(row, now), "pending")
          /\ UNCHANGED local
       \/ /\ row.state = "running"
          /\ Rejected(InterruptRunning(row, now))
       \/ /\ row.state # "running"
          /\ Goto("pending") /\ UNCHANGED <<store, faults, lease, local>>
    /\ UNCHANGED native

RecoverPending ==
    /\ pc = "pending" /\ ~stopping
    /\ \/ /\ row.state = "none"
          /\ Goto("idle") /\ UNCHANGED <<store, faults, lease, local>>
       \/ /\ row.state # "none" /\ ~Validate(row)
          /\ Fatal
       \/ /\ row.state # "none" /\ Validate(row)
          /\ PendingReconciliation(row)
          /\ Goto("reconcile")
          /\ job' = [id |-> row.id, evidence |-> row.evidence]
          /\ UNCHANGED <<store, faults, lease, phase, failed, broker, res>>
       \/ /\ row.state # "none" /\ Validate(row)
          /\ ~PendingReconciliation(row)
          /\ Goto("idle") /\ UNCHANGED <<store, faults, lease, local>>
    /\ UNCHANGED native

ClaimQueued ==
    /\ pc = "idle" /\ ~stopping /\ MayClaim(row)
    /\ \/ /\ Persist(Claim(row, now), "acquire")
          /\ job' = [id |-> row.id, evidence |-> row.evidence]
          /\ phase' = "revalidating" /\ failed' = FALSE
          /\ broker' = NotStarted /\ res' = NoResult
       \/ Rejected(Claim(row, now))
    /\ UNCHANGED native

-----------------------------------------------------------------------------
(* executor.Execute, under reportPhase.                                    *)

\* reportPhase: the first failure is sticky and every later call returns it.
ReportOk(to) ==
    /\ ~failed
    /\ ValidPhaseTransition(phase, to)
    /\ MayUpdatePhase(row, job.id, to)
    /\ row' = UpdatePhase(row, to, now)
    /\ phase' = to
    /\ UNCHANGED <<failed, faults>>

ReportFails(to) ==
    /\ \/ failed /\ UNCHANGED faults
       \/ ~(ValidPhaseTransition(phase, to) /\ MayUpdatePhase(row, job.id, to))
            /\ UNCHANGED faults
       \/ Fault
    /\ failed' = TRUE
    /\ UNCHANGED <<row, phase>>

\* TryAcquire: a workspace someone else holds is never waited for.
AcquireLease ==
    /\ pc = "acquire"
    /\ \/ lease = "free" /\ lease' = "worker" /\ Goto("prepare")
       \/ UNCHANGED lease /\ Goto("skip_report")
    /\ res' = NoResult
    /\ UNCHANGED <<store, job, phase, failed, broker, faults, native>>

\* Leave for finishWithoutRun with the state its code implies.
Abandon(states) ==
    /\ \E s \in states : res' = WithoutRun(s, "unavailable")
    /\ Goto("skip_report")

\* PrepareExecution, the digest comparison, the preflight inventory.
PrepareExecution ==
    /\ pc = "prepare"
    /\ \/ evidence = job.evidence /\ Goto("confirm") /\ UNCHANGED res
       \/ Abandon({"not_attempted", "incompatible"})
    /\ UNCHANGED <<store, lease, job, phase, failed, broker, faults, native>>

\* The second PrepareExecution, compared with the first; prepareRuntime.
ConfirmExecution ==
    /\ pc = "confirm"
    /\ \/ evidence = job.evidence /\ Goto("report_executing") /\ UNCHANGED res
       \/ Abandon({"not_attempted", "incompatible"})
    /\ UNCHANGED <<store, lease, job, phase, failed, broker, faults, native>>

\* finishWithoutRun (and the busy return): report, refresh, no broker.
SkipReport ==
    /\ pc = "skip_report"
    /\ ReportOk("refreshing_inventory") \/ ReportFails("refreshing_inventory")
    /\ Goto("skip_refresh")
    /\ UNCHANGED <<accepted, lease, job, broker, res, native>>

SkipRefresh ==
    /\ pc = "skip_refresh"
    /\ \E inv \in {"refreshed", "unavailable"} :
          /\ inv = "refreshed" => lease = "worker"
          /\ res' = [res EXCEPT !.inventory = inv]
    /\ lease' = IF lease = "worker" THEN "free" ELSE lease
    /\ Goto("finish")
    /\ UNCHANGED <<store, job, phase, failed, broker, faults, native>>

\* Mutant: the run goes ahead although the phase could not be stored.
ReportExecutingIgnored ==
    /\ pc = "report_executing"
    /\ ReportOk("executing") \/ ReportFails("executing")
    /\ Goto("run")
    /\ UNCHANGED <<accepted, lease, job, broker, res, native>>

\* The executing phase is durable before the broker may run.
ReportExecuting ==
    /\ pc = "report_executing"
    /\ \/ /\ ReportOk("executing")
          /\ Goto("run") /\ UNCHANGED <<lease, res>>
       \/ /\ ReportFails("executing")
          /\ lease' = "free"
          /\ res' = WithoutRun("ambiguous", "unavailable")
          /\ Goto("finish")
    /\ UNCHANGED <<accepted, job, broker, native>>

\* broker.Run refuses the request before any process exists.
BrokerRefuses ==
    /\ pc = "run"
    /\ broker' = NotStarted
    /\ Goto("report_refreshing")
    /\ UNCHANGED <<store, lease, job, phase, failed, res, faults, native>>

Started ==
    /\ starts' = [starts EXCEPT ![job.id] = @ + 1]
    /\ ranWith' = evidence

\* StartContext succeeds; lego runs in its own process group.
BrokerStarts ==
    /\ pc = "run"
    /\ Started
    /\ Goto("running")
    /\ UNCHANGED <<store, lease, local, faults, touched>>

\* StartContext reports an error that may have followed a successful start.
BrokerStartUncertain ==
    /\ pc = "run"
    /\ Started
    /\ \E changed \in SUBSET Items :
          /\ touched' = changed
          /\ broker' = [err |-> TRUE, started |-> TRUE, outcome |-> "ambiguous",
                        changed |-> changed, attempts |-> NotStarted.attempts]
    /\ Goto("report_refreshing")
    /\ UNCHANGED <<store, lease, job, phase, failed, res, faults>>

\* Orders in which lego may have logged renewal attempts (only the output of
\* a failed run is read for them).
Logs(outcome) ==
    {f \in [Items -> 0..Cardinality(Items)] :
        /\ outcome # "failed" => f = NotStarted.attempts
        /\ \A i, j \in Items : f[i] = f[j] /\ i # j => f[i] = 0}

\* Wait and process-tree cleanup; closing the prepared handle may still fail.
BrokerEnds ==
    /\ pc = "running"
    /\ \E changed \in SUBSET Items, outcome \in Outcomes, err \in BOOLEAN :
       \E attempts \in Logs(outcome) :
          /\ touched' = changed
          /\ broker' = [err |-> err, started |-> TRUE, outcome |-> outcome,
                        changed |-> changed, attempts |-> attempts]
    /\ Goto("report_refreshing")
    /\ UNCHANGED <<store, lease, job, phase, failed, res, faults, starts,
                   ranWith>>

ReportRefreshing ==
    /\ pc = "report_refreshing"
    /\ ReportOk("refreshing_inventory") \/ ReportFails("refreshing_inventory")
    /\ Goto("refresh")
    /\ UNCHANGED <<accepted, lease, job, broker, res, native>>

\* refreshInventory, the third PrepareExecution, classifyExecution, Release.
RefreshAndClassify ==
    /\ pc = "refresh"
    /\ \E inv \in {"refreshed", "unavailable"}, intact \in BOOLEAN :
          /\ intact => evidence = job.evidence
          /\ res' = ClassifyExecution(broker, inv, intact)
    /\ lease' = "free"
    /\ Goto("finish")
    /\ UNCHANGED <<store, job, phase, failed, broker, faults, native>>

\* callExecute recovers a panic; the deferred Release runs.
ExecutorPanics ==
    /\ pc \in Executing /\ Fault
    /\ failed' = TRUE
    /\ lease' = IF lease = "worker" THEN "free" ELSE lease
    /\ Goto("finish")
    /\ UNCHANGED <<store, job, phase, broker, res, native>>

\* FinishUncertain when the phases cannot be trusted, otherwise Finish.
Untrusted == failed \/ phase # "refreshing_inventory"

PersistResult ==
    /\ pc = "finish"
    /\ LET final == IF Untrusted THEN FinishUncertain(row, "ambiguous", now)
                                 ELSE Finish(row, res, now)
       IN \/ /\ MayFinish(row, job.id) /\ Untrusted
             /\ Persist(final, "reconcile")
             /\ UNCHANGED local
          \/ /\ MayFinish(row, job.id) /\ ~Untrusted
             /\ Persist(final, "idle")
             /\ NoLocals
          \/ MayFinish(row, job.id) /\ Rejected(final)
          \/ ~MayFinish(row, job.id) /\ Fatal
    /\ UNCHANGED native

-----------------------------------------------------------------------------
(* reconcile: inventory only, never another native run.                    *)

\* Executor.Reconcile waits for the lease; a cancelled context ends the wait.
ReconcileAcquire ==
    /\ pc = "reconcile"
    /\ \/ lease = "free" /\ lease' = "worker" /\ Goto("reconciling")
          /\ UNCHANGED res
       \/ /\ stopping /\ UNCHANGED lease
          /\ res' = NoResult
          /\ Goto("reconciled")
    /\ UNCHANGED <<store, job, phase, failed, broker, faults, native>>

\* Mutant: the invalid answer of a panicked reconciliation is passed on.
ReconcileRefreshUnchecked ==
    /\ pc = "reconciling"
    /\ \E inv \in InventoryStates :
          res' = [NoResult EXCEPT !.inventory = inv]
    /\ lease' = "free"
    /\ Goto("reconciled")
    /\ UNCHANGED <<store, job, phase, failed, broker, faults, native>>

\* A panic or an invalid answer counts as unavailable.
ReconcileRefresh ==
    /\ pc = "reconciling"
    /\ \E inv \in {"refreshed", "unavailable"} :
          res' = [NoResult EXCEPT !.inventory = inv]
    /\ lease' = "free"
    /\ Goto("reconciled")
    /\ UNCHANGED <<store, job, phase, failed, broker, faults, native>>

ReconcilePersist ==
    /\ pc = "reconciled"
    /\ LET final == CompleteReconciliation(row, res.inventory, now)
       IN \/ /\ MayReconcile(row, job.id)
             /\ Persist(final, "idle")
             /\ NoLocals
          \/ MayReconcile(row, job.id) /\ Rejected(final)
          \/ ~MayReconcile(row, job.id) /\ Fatal
    /\ UNCHANGED native

-----------------------------------------------------------------------------
Execute ==
    \/ AcquireLease \/ PrepareExecution \/ ConfirmExecution
    \/ SkipReport \/ SkipRefresh \/ ReportExecuting
    \/ BrokerRefuses \/ BrokerStarts \/ BrokerStartUncertain \/ BrokerEnds
    \/ ReportRefreshing \/ RefreshAndClassify \/ PersistResult

Reconcile == ReconcileAcquire \/ ReconcileRefresh \/ ReconcilePersist

Worker ==
    \/ RecoverInterrupt \/ RecoverPending \/ ClaimQueued \/ WorkerStops
    \/ Execute \/ Reconcile

Requests ==
    \/ Preview \/ (\E kind \in Kinds : EnqueueBegin(kind))
    \/ EnqueuePrepare \/ EnqueueCommit

Environment ==
    \/ Tick \/ ClockBack \/ OtherAcquire \/ OtherRelease \/ ExternalChange

Failures == Crash \/ StopRequested \/ StoreFails \/ ExecutorPanics

Next == Environment \/ Requests \/ Restart \/ Worker \/ Failures

Spec == Init /\ [][Next]_vars

(***************************************************************************)
(* Fairness.  Goroutines run, systemd restarts the unit, the clock moves   *)
(* and requests end.  The lease is a one-slot channel whose blocked senders*)
(* the Go runtime serves in order, so a waiting Reconcile is not starved.  *)
(***************************************************************************)
Fairness ==
    /\ WF_vars(Worker) /\ WF_vars(Restart) /\ WF_vars(Tick)
    /\ WF_vars(OtherRelease) /\ WF_vars(EnqueuePrepare)
    /\ SF_vars(ReconcileAcquire)

FairSpec == Spec /\ Fairness

-----------------------------------------------------------------------------
\* Shape of the state; the volatile worker state exists only while it is up.
TypeOK ==
    /\ row \in Rows
    /\ now \in 1..MaxTime
    /\ evidence \in 1..MaxEvidence
    /\ lease \in Holders
    /\ token \in 0..MaxEvidence
    /\ enq \in [pc : {"idle", "holding", "prepared"}, kind : Kinds,
                evidence : 0..MaxEvidence]
    /\ pc \in Locations
    /\ job \in [id : Ops \cup {NoOp}, evidence : Nat]
    /\ phase \in Phases
    /\ failed \in BOOLEAN
    /\ broker \in BrokerResults
    /\ res \in Results
    /\ stopping \in BOOLEAN
    /\ faults \in 0..MaxFaults
    /\ accepted \in SUBSET Ops
    /\ starts \in [Ops -> Nat]
    /\ ranWith \in 0..MaxEvidence
    /\ touched \in SUBSET Items

\* docs/manual-operations.md: an operation that had started is "never replayed
\* automatically".  Whatever crashes, stops, failed writes and clock steps
\* fall between Claim and recovery, lego starts at most once per operation.
AtMostOneStart == \A o \in Ops : starts[o] <= 1

\* A stored result that denies a start (not attempted, incompatible, no
\* possible change, or an item that was not attempted) is true: the broker
\* never started lego for that operation, in this or an earlier lifetime.
DenialIsTrue ==
    Terminal(row) /\ (\/ ~row.mayHaveChanged
                     \/ row.state \in {"not_attempted", "incompatible"}
                     \/ \E i \in Items : row.items[i] = "not_attempted")
        => starts[row.id] = 0

\* A stored success means that lego ran, and ran against exactly the workspace
\* version that was reviewed, even though host processes ignore the lease.
SuccessRanReviewed ==
    row.state = "succeeded" =>
        starts[row.id] = 1 /\ ranWith = row.evidence

\* Certificate rows follow native evidence: a "failed" row was not replaced by
\* this run, and a "completed" row was, unless lego exited successfully, when
\* every row is completed (in a success, or in an ambiguous result that
\* followed a changed workspace).
ItemsFollowEvidence ==
    Terminal(row) =>
        \A i \in Items :
            /\ row.items[i] = "failed" => i \notin touched
            /\ row.items[i] = "completed" =>
                  \/ i \in touched
                  \/ /\ row.state \in {"succeeded", "ambiguous"}
                     /\ row.items = AllItems("completed")

\* While lego runs, its operation is durably in the executing phase and the
\* worker holds the lease, so a crash at any instant of the run is recognised
\* at restart and no edit of the service overlaps it.
NativeCovered ==
    pc = "running" =>
        /\ lease = "worker"
        /\ row.id = job.id /\ row.state = "running" /\ row.phase = "executing"

\* A clock step can make a transaction fail, and UpdatePhase can even commit a
\* row that readers reject; but once the clock has passed every stored instant
\* the next recovery transaction is accepted again: no permanent wedge.
ClockHeals ==
    LET Passed(t) == /\ t >= row.requested /\ t >= row.started
                     /\ t >= row.finished /\ t >= row.updated
    IN Passed(MaxTime) =>
        /\ MayClaim(row) => Validate(Claim(row, MaxTime))
        /\ row.state = "running" => Validate(InterruptRunning(row, MaxTime))
        /\ PendingReconciliation(row) =>
              Validate(CompleteReconciliation(row, "refreshed", MaxTime))

\* The row leaves the store only as a published result, and a published result
\* never changes: recovery, late finishes and reconciliation leave it alone.
PublishedIsFinal ==
    [][/\ row'.id # row.id => row.state = "none" \/ Published(row)
       /\ Published(row) /\ row'.id = row.id => row' = row]_vars

\* What a reader of the service sees of the row.
StageOf(r) ==
    IF Terminal(r) THEN IF Pending(r) THEN "uncertain" ELSE "published"
    ELSE IF r.state = "running" THEN "claimed"
    ELSE IF r.state = "queued" THEN "accepted" ELSE "none"

VerdictOf(r) ==
    IF ~Terminal(r) THEN "none"
    ELSE IF r.state = "succeeded" THEN "succeeded"
    ELSE IF r.mayHaveChanged THEN "may_have_changed" ELSE "not_started"

Lifecycle == INSTANCE OperationLifecycle WITH
    seen <- accepted, current <- row.id, stage <- StageOf(row),
    verdict <- VerdictOf(row)

\* The durable worker, with its crashes, late writes and clock steps,
\* implements the lifecycle the service promises.
RefinesLifecycle == Lifecycle!Spec

\* Every accepted operation ends as a published result, through restarts.
AcceptedIsPublished ==
    \A o \in Ops : row.id = o ~> row.id = o /\ Published(row)

-----------------------------------------------------------------------------
(* The inductive invariant behind the theorems, in named parts.            *)

\* The stored operation was accepted.
RowShape ==
    /\ row.state = "none" <=> row.id = NoOp
    /\ row.id # NoOp => row.id \in accepted

\* Nothing was started for an operation nobody accepted or nobody claimed.
StartsShape ==
    /\ \A o \in Ops : o \notin accepted => starts[o] = 0
    /\ \A o \in Ops : starts[o] <= 1
    /\ row.state = "queued" => starts[row.id] = 0
    /\ row.state = "none" \/ starts[row.id] = 0 => ranWith = 0 /\ touched = {}

\* The worker inside execute owns the running row, in the phase it reported;
\* the worker inside reconcile owns the uncertain one.
Owning == Executing \cup {"running", "finish"}
OwnsRow ==
    /\ pc \in Owning =>
          /\ job.id = row.id /\ job.evidence = row.evidence
          /\ row.state = "running" /\ row.phase = phase
    /\ pc \in {"reconcile", "reconciling", "reconciled"} =>
          job.id = row.id /\ PendingReconciliation(row)

\* How far the executor is, and what can have happened by then.
Progress ==
    /\ pc \in {"acquire", "prepare", "confirm", "report_executing", "run",
               "skip_report", "skip_refresh"} => starts[job.id] = 0
    /\ pc \in {"skip_report", "skip_refresh"} =>
          /\ res.state \in {"not_attempted", "incompatible"}
          /\ ~res.mayHaveChanged /\ res.items = AllItems("not_attempted")
    /\ pc \in {"report_executing", "run"} => job.evidence <= evidence
    /\ pc \in {"run", "running"} => phase = "executing"
    /\ pc = "running" => starts[job.id] = 1
    /\ pc \in {"report_refreshing", "refresh"} =>
          /\ broker.started <=> starts[job.id] = 1
          /\ ~broker.started => broker.err
          /\ broker.changed = touched
    /\ ranWith <= evidence
    /\ pc \in {"running", "report_refreshing", "refresh"}
         /\ starts[job.id] = 1 => job.evidence <= ranWith

\* A lease the worker or the enqueuer relies on is its own.
LeaseShape ==
    /\ pc \in {"prepare", "confirm", "report_executing", "run", "running",
               "report_refreshing", "refresh", "reconciling"} => lease = "worker"
    /\ enq.pc = "holding" => lease = "enqueue"

\* A result the executor hands over unchallenged is supported by what happened.
Honest(state, mayHaveChanged, items, o, reviewed) ==
    /\ (\/ ~mayHaveChanged
        \/ state \in {"not_attempted", "incompatible"}
        \/ \E i \in Items : items[i] = "not_attempted") => starts[o] = 0
    /\ state = "succeeded" =>
          starts[o] = 1 /\ ranWith = reviewed /\ mayHaveChanged
    /\ \A i \in Items :
          /\ items[i] = "failed" => i \notin touched
          /\ items[i] = "completed" =>
                \/ i \in touched
                \/ state \in {"succeeded", "ambiguous"}
                     /\ items = AllItems("completed")

HonestResult ==
    pc = "finish" /\ ~Untrusted =>
        Honest(res.state, res.mayHaveChanged, res.items, job.id, job.evidence)

HonestRow ==
    Terminal(row) =>
        Honest(row.state, row.mayHaveChanged, row.items, row.id, row.evidence)

IInv == /\ TypeOK /\ RowShape /\ StartsShape /\ OwnsRow
        /\ Progress /\ LeaseShape /\ HonestResult /\ HonestRow

\* Every stored row but a running one is valid, and a running one is valid but
\* for the update instant UpdatePhase gave it.
RowReadable ==
    /\ row.state \notin {"none", "running"} => Validate(row)
    /\ row.state = "running" =>
          /\ row.started # 0 /\ row.finished = 0
          /\ row.started >= row.requested
          /\ row.items = NoItems /\ Pending(row)
    /\ row.requested <= MaxTime /\ row.started <= MaxTime
    /\ row.finished <= MaxTime /\ row.updated <= MaxTime
=============================================================================
