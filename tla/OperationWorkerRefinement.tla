---------------------- MODULE OperationWorkerRefinement ---------------------
(***************************************************************************)
(* The operation worker implements OperationLifecycle, and a clock step    *)
(* cannot wedge its durable row, for every value of the constants.         *)
(***************************************************************************)
EXTENDS OperationWorkerProofs

\* What the mapping shows of a row, state by state.
LEMMA Shown ==
    ASSUME NEW r \in Rows
    PROVE  /\ r.state = "none" => StageOf(r) = "none" /\ VerdictOf(r) = "none"
           /\ r.state = "queued" => StageOf(r) = "accepted" /\ VerdictOf(r) = "none"
           /\ r.state = "running" => StageOf(r) = "claimed" /\ VerdictOf(r) = "none"
           /\ Terminal(r) =>
                /\ StageOf(r) = IF Pending(r) THEN "uncertain" ELSE "published"
                /\ VerdictOf(r) \in {"not_started", "may_have_changed", "succeeded"}
                /\ VerdictOf(r) = "not_started" => ~r.mayHaveChanged
                /\ VerdictOf(r) = "succeeded" => r.state = "succeeded"
                /\ r.state # "succeeded" /\ r.mayHaveChanged =>
                      VerdictOf(r) = "may_have_changed"
<1>1. r.state \in {"none", "queued", "running"} => ~Terminal(r)
  BY DEF Terminal, TerminalStates
<1>q. QED BY <1>1 DEF StageOf, VerdictOf

\* The empty store maps to the abstract initial state.
LEMMA InitRefines == Init => Lifecycle!Init
<1> SUFFICES ASSUME Init PROVE Lifecycle!Init
  OBVIOUS
<1>1. row \in Rows
  BY InitType DEF TypeOK
<1>2. row.state = "none" /\ row.id = NoOp
  BY DEF Init, NoRow
<1>3. StageOf(row) = "none" /\ VerdictOf(row) = "none"
  BY <1>1, <1>2, Shown
<1>q. QED BY <1>2, <1>3 DEF Init, Lifecycle!Init

\* A step that writes neither the row nor a start shows as stuttering.
LEMMA Stutters ==
    ASSUME UNCHANGED <<row, accepted, starts>>
    PROVE  UNCHANGED Lifecycle!vars
<1>1. StageOf(row') = StageOf(row) /\ VerdictOf(row') = VerdictOf(row)
  OBVIOUS
<1>q. QED BY <1>1 DEF Lifecycle!vars

\* A step that gives the running row an uncertain result shows as Doubt.
LEMMA Doubts ==
    ASSUME IInv, IInv', row.state = "running", NEW s \in UncertainStates,
           row' = FinishUncertain(row, s, now), UNCHANGED <<accepted, starts>>
    PROVE  Lifecycle!Doubt
<1>0. row \in Rows /\ row' \in Rows /\ now \in Nat
  BY BoundsAssumption DEF IInv, TypeOK
<1>1. /\ row'.id = row.id /\ row'.state = s /\ row'.mayHaveChanged = TRUE
      /\ row'.inventory = "pending"
  BY <1>0, FinishUncertainFields
<1>2. Terminal(row') /\ Pending(row') /\ row'.state # "succeeded"
  BY <1>1 DEF Terminal, TerminalStates, UncertainStates, Pending
<1>3. StageOf(row) = "claimed"
  BY <1>0, Shown
<1>4. StageOf(row') = "uncertain" /\ VerdictOf(row') = "may_have_changed"
  BY <1>0, <1>1, <1>2, Shown
<1>q. QED BY <1>1, <1>3, <1>4 DEF Lifecycle!Doubt

\* Every step is a step of the lifecycle or stutters.
LEMMA StepRefines ==
    ASSUME IInv, IInv', [Next]_vars
    PROVE  [Lifecycle!Next]_Lifecycle!vars
<1>0. /\ row \in Rows /\ row' \in Rows /\ now \in Nat /\ res \in Results
      /\ starts \in [Ops -> Nat]
  BY BoundsAssumption DEF IInv, TypeOK
<1>1. CASE UNCHANGED <<row, accepted, starts>>
  BY <1>1, Stutters
<1>2. CASE Environment \/ Preview \/ EnqueuePrepare \/ \E k \in Kinds : EnqueueBegin(k)
  BY <1>1, <1>2 DEF Environment, Tick, ClockBack, OtherAcquire, OtherRelease,
              ExternalChange, Preview, EnqueuePrepare, EnqueueBegin, store, native
<1>3. CASE EnqueueCommit
  <2>1. CASE UNCHANGED <<store, ranWith, touched>>
    BY <1>1, <1>3, <2>1 DEF EnqueueCommit, store
  <2>2. ASSUME NEW o \in Ops \ accepted, MayEnqueue(row),
               row' = EnqueueKind(o, enq.kind, enq.evidence, now),
               accepted' = accepted \cup {o}
        PROVE  Lifecycle!Accept(o)
    <3>1. row'.id = o /\ row'.state = "queued" /\ starts' = starts
      BY <1>3, <2>2 DEF EnqueueCommit, EnqueueKind
    <3>2. StageOf(row') = "accepted" /\ VerdictOf(row') = "none"
      BY <1>0, <3>1, Shown
    <3>3. CASE row.state = "none"
      BY <1>0, <2>2, <3>1, <3>2, <3>3, Shown DEF Lifecycle!Accept
    <3>4. CASE row.state # "none"
      <4>1. Terminal(row) /\ ~Pending(row)
        BY <1>0, <2>2, <3>4 DEF MayEnqueue, Active, Terminal, Rows
      <4>2. StageOf(row) = "published"
        BY <1>0, <4>1, Shown
      <4>q. QED BY <2>2, <3>1, <3>2, <4>2 DEF Lifecycle!Accept
    <3>q. QED BY <3>3, <3>4
  <2>q. QED BY <1>3, <2>1, <2>2 DEF EnqueueCommit, Lifecycle!Next
<1>4. CASE Restart \/ Failures \/ WorkerStops \/ RecoverPending
  BY <1>1, <1>4 DEF Restart, Failures, Crash, StopRequested, StoreFails,
              ExecutorPanics, WorkerStops, RecoverPending, Fatal, store, native
<1>5. CASE RecoverInterrupt
  <2>1. CASE row.state = "running" /\ Persist(InterruptRunning(row, now), "pending")
    <3>1. /\ row' = FinishUncertain(row, "interrupted", now)
          /\ UNCHANGED <<accepted, starts>>
      BY <1>5, <2>1 DEF RecoverInterrupt, Persist, InterruptRunning, native
    <3>2. Lifecycle!Doubt
      BY <2>1, <3>1, Doubts DEF UncertainStates
    <3>q. QED BY <3>2 DEF Lifecycle!Next
  <2>2. CASE UNCHANGED store
    BY <1>1, <1>5, <2>2 DEF RecoverInterrupt, store, native
  <2>q. QED BY <1>5, <2>1, <2>2 DEF RecoverInterrupt, Rejected, Fatal
<1>6. CASE ClaimQueued
  <2>1. CASE Persist(Claim(row, now), "acquire")
    <3>1. row' = Claim(row, now) /\ row.state = "queued" /\ UNCHANGED <<accepted, starts>>
      BY <1>6, <2>1 DEF ClaimQueued, MayClaim, Persist, native
    <3>2. row'.id = row.id /\ row'.state = "running"
      BY <1>0, <3>1, ClaimFields
    <3>3. StageOf(row) = "accepted" /\ VerdictOf(row) = "none"
      BY <1>0, <3>1, Shown
    <3>4. StageOf(row') = "claimed" /\ VerdictOf(row') = "none"
      BY <1>0, <3>2, Shown
    <3>5. Lifecycle!Claim
      BY <3>1, <3>2, <3>3, <3>4 DEF Lifecycle!Claim
    <3>q. QED BY <3>5 DEF Lifecycle!Next
  <2>2. CASE UNCHANGED store
    BY <1>1, <1>6, <2>2 DEF ClaimQueued, store, native
  <2>q. QED BY <1>6, <2>1, <2>2 DEF ClaimQueued, Rejected, Fatal
<1>7. CASE SkipReport \/ ReportExecuting \/ ReportRefreshing
  <2>1. PICK p \in Phases : ReportOk(p) \/ ReportFails(p)
    BY <1>7 DEF SkipReport, ReportExecuting, ReportRefreshing, Phases
  <2>2. UNCHANGED <<accepted, starts>>
    BY <1>7 DEF SkipReport, ReportExecuting, ReportRefreshing, native
  <2>3. CASE ReportFails(p)
    BY <1>1, <2>2, <2>3 DEF ReportFails
  <2>4. CASE ReportOk(p)
    <3>1. row' = UpdatePhase(row, p, now) /\ row.state = "running"
      BY <2>4 DEF ReportOk, MayUpdatePhase
    <3>2. row'.id = row.id /\ row'.state = "running"
      BY <1>0, <3>1, UpdatePhaseFields
    <3>3. StageOf(row) = "claimed" /\ VerdictOf(row) = "none" /\ StageOf(row') = "claimed" /\ VerdictOf(row') = "none"
      BY <1>0, <3>1, <3>2, Shown
    <3>q. QED BY <2>2, <3>2, <3>3 DEF Lifecycle!vars
  <2>q. QED BY <2>1, <2>3, <2>4
<1>8. CASE BrokerStarts \/ BrokerStartUncertain
  <2>1. pc = "run" /\ Started /\ UNCHANGED <<row, accepted>>
    BY <1>8 DEF BrokerStarts, BrokerStartUncertain, store
  <2>2. starts[job.id] = 0 /\ job.id = row.id /\ row.state = "running"
    BY <2>1 DEF IInv, Progress, OwnsRow, Owning, Executing
  <2>3. row.id \in Ops
    BY <1>0, <2>2 DEF IInv, RowShape, Rows
  <2>4. starts' = [starts EXCEPT ![row.id] = 1]
    BY <1>0, <2>1, <2>2, <2>3 DEF Started
  <2>5. StageOf(row) = "claimed" /\ StageOf(row') = StageOf(row) /\ VerdictOf(row') = VerdictOf(row)
    <3>1. StageOf(row') = StageOf(row) /\ VerdictOf(row') = VerdictOf(row)
      BY <2>1
    <3>q. QED BY <1>0, <2>2, <3>1, Shown
  <2>6. Lifecycle!Start
    BY <2>1, <2>2, <2>4, <2>5 DEF Lifecycle!Start
  <2>q. QED BY <2>6 DEF Lifecycle!Next
<1>9. CASE PersistResult
  <2>0. UNCHANGED starts
    BY <1>9 DEF PersistResult, native
  <2>1. CASE /\ MayFinish(row, job.id)
             /\ Persist(FinishUncertain(row, "ambiguous", now), "reconcile")
    <3>1. Lifecycle!Doubt
      BY <2>0, <2>1, Doubts DEF Persist, MayFinish, UncertainStates
    <3>q. QED BY <3>1 DEF Lifecycle!Next
  <2>2. CASE /\ MayFinish(row, job.id)
             /\ Persist(Finish(row, res, now), "idle")
    <3>1. row' = Finish(row, res, now) /\ row.state = "running" /\ UNCHANGED accepted
      BY <2>2 DEF MayFinish, Persist
    <3>2. /\ row'.id = row.id /\ row'.state = res.state
          /\ row'.inventory = res.inventory
      BY <1>0, <3>1, FinishFields
    <3>3. Terminal(row') /\ ~Pending(row')
      BY <1>0, <3>2 DEF Terminal, Pending, Results
    <3>4. StageOf(row) = "claimed" /\ StageOf(row') = "published"
      BY <1>0, <3>1, <3>3, Shown
    <3>5. /\ VerdictOf(row') \in {"not_started", "may_have_changed", "succeeded"}
          /\ VerdictOf(row') = "not_started" => ~row'.mayHaveChanged
          /\ VerdictOf(row') = "succeeded" => row'.state = "succeeded"
      BY <1>0, <3>3, Shown
    <3>6. /\ VerdictOf(row') = "not_started" => starts[row.id] = 0
          /\ VerdictOf(row') = "succeeded" => starts[row.id] = 1
      BY <2>0, <3>2, <3>3, <3>5 DEF IInv, HonestRow, Honest
    <3>7. Lifecycle!Conclude(VerdictOf(row'))
      BY <2>0, <3>1, <3>2, <3>4, <3>6 DEF Lifecycle!Conclude
    <3>8. VerdictOf(row') \in Lifecycle!Verdicts \ {"none"}
      BY <3>5 DEF Lifecycle!Verdicts
    <3>q. QED BY <3>7, <3>8 DEF Lifecycle!Next
  <2>3. CASE UNCHANGED store
    BY <1>1, <2>0, <2>3 DEF store
  <2>q. QED BY <1>9, <2>1, <2>2, <2>3 DEF PersistResult, Rejected, Fatal
<1>10. CASE ReconcilePersist
  <2>1. CASE /\ PendingReconciliation(row)
             /\ Persist(CompleteReconciliation(row, res.inventory, now), "idle")
    <3>1. /\ row' = CompleteReconciliation(row, res.inventory, now)
          /\ UNCHANGED <<accepted, starts>>
      BY <1>10, <2>1 DEF ReconcilePersist, Persist, native
    <3>2. /\ row'.id = row.id /\ row'.state = row.state
          /\ row'.mayHaveChanged = row.mayHaveChanged
          /\ row'.inventory = res.inventory
      BY <1>0, <3>1, CompleteReconciliationFields DEF Results, InventoryStates
    <3>3. /\ Terminal(row) /\ Pending(row) /\ Terminal(row') /\ ~Pending(row')
          /\ res.inventory # "pending"
      BY <1>0, <2>1, <3>2 DEF PendingReconciliation, Terminal, TerminalStates,
                              UncertainStates, Pending, Results
    <3>4. StageOf(row) = "uncertain" /\ StageOf(row') = "published"
      BY <1>0, <3>3, Shown
    <3>5. VerdictOf(row') = VerdictOf(row)
      BY <3>2 DEF VerdictOf, Terminal
    <3>6. Lifecycle!Settle
      BY <3>1, <3>2, <3>4, <3>5 DEF Lifecycle!Settle
    <3>q. QED BY <3>6 DEF Lifecycle!Next
  <2>2. CASE UNCHANGED store
    BY <1>1, <1>10, <2>2 DEF ReconcilePersist, store, native
  <2>q. QED BY <1>10, <2>1, <2>2 DEF ReconcilePersist, MayReconcile, Rejected, Fatal
<1>11. CASE AcquireLease \/ PrepareExecution \/ ConfirmExecution \/ SkipRefresh
            \/ BrokerRefuses \/ BrokerEnds \/ RefreshAndClassify
            \/ ReconcileAcquire \/ ReconcileRefresh
  BY <1>1, <1>11 DEF AcquireLease, PrepareExecution, ConfirmExecution, SkipRefresh,
               BrokerRefuses, BrokerEnds, RefreshAndClassify, ReconcileAcquire,
               ReconcileRefresh, store, native
<1>12. CASE UNCHANGED vars
  BY <1>1, <1>12 DEF vars
<1>q. QED
  BY <1>2, <1>3, <1>4, <1>5, <1>6, <1>7, <1>8, <1>9, <1>10, <1>11, <1>12
     DEF Next, Requests, Worker, Execute, Reconcile

\* The durable worker, with its crashes, late writes, lost leases and clock
\* steps, implements the lifecycle the service promises.
THEOREM ImplementsLifecycle == Spec => RefinesLifecycle
BY InitRefines, StepRefines, Invariance, PTL
   DEF Spec, RefinesLifecycle, Lifecycle!Spec

(* The clock: no stored row can wedge recovery for good.                   *)

\* Everything that is stored is readable, up to the update instant of a
\* running row.
LEMMA ReadableStep ==
    ASSUME IInv, RowReadable, [Next]_vars
    PROVE  RowReadable'
<1>0. /\ row \in Rows /\ now \in Nat /\ now <= MaxTime /\ res \in Results
      /\ enq.kind \in Kinds /\ enq.evidence \in Nat
  BY BoundsAssumption DEF IInv, TypeOK
<1>1. CASE row' = row
  BY <1>1 DEF RowReadable, Validate, Pending, Terminal
<1>2. CASE Environment \/ Preview \/ EnqueuePrepare \/ \E k \in Kinds : EnqueueBegin(k)
  BY <1>1, <1>2 DEF Environment, Tick, ClockBack, OtherAcquire, OtherRelease,
              ExternalChange, Preview, EnqueuePrepare, EnqueueBegin, store
<1>3. CASE EnqueueCommit
  <2>1. CASE UNCHANGED store
    BY <1>1, <2>1 DEF store
  <2>2. ASSUME NEW o \in Ops, row' = EnqueueKind(o, enq.kind, enq.evidence, now)
        PROVE  RowReadable'
    <3>1. /\ row'.state = "queued" /\ row'.phase = "queued"
          /\ row'.started = 0 /\ row'.finished = 0 /\ row'.requested = now
          /\ row'.updated = now /\ row'.mayHaveChanged = FALSE
          /\ row'.items = NoItems /\ row'.inventory = "pending"
      BY <2>2 DEF EnqueueKind
    <3>2. Validate(row')
      BY <1>0, <3>1 DEF Validate, Pending
    <3>q. QED BY <1>0, <3>1, <3>2, BoundsAssumption DEF RowReadable
  <2>q. QED BY <1>3, <2>1, <2>2 DEF EnqueueCommit
<1>4. CASE Restart \/ Failures \/ WorkerStops \/ RecoverPending
  BY <1>1, <1>4 DEF Restart, Failures, Crash, StopRequested, StoreFails,
              ExecutorPanics, WorkerStops, RecoverPending, Fatal, store
<1>f. ASSUME row.state = "running", NEW x,
             row' = Finish(row, x, now), Validate(row'),
             x.state \in TerminalStates
      PROVE  RowReadable'
  <2>1. /\ row'.state = x.state /\ row'.requested = row.requested
        /\ row'.started = row.started /\ row'.finished = now /\ row'.updated = now
    BY <1>0, <1>f DEF Finish, Rows
  <2>2. row'.state \notin {"none", "running"}
    BY <1>f, <2>1 DEF TerminalStates
  <2>q. QED BY <1>0, <1>f, <2>1, <2>2 DEF RowReadable
<1>5. CASE RecoverInterrupt
  <2>1. CASE row.state = "running" /\ Persist(InterruptRunning(row, now), "pending")
    BY <1>f, <2>1 DEF Persist, InterruptRunning, FinishUncertain, UncertainResult,
                      TerminalStates
  <2>q. QED BY <1>1, <1>5, <2>1 DEF RecoverInterrupt, Rejected, Fatal, store
<1>6. CASE ClaimQueued
  <2>1. CASE Persist(Claim(row, now), "acquire")
    <3>1. row' = Claim(row, now) /\ Validate(row') /\ row.state = "queued"
      BY <1>6, <2>1 DEF ClaimQueued, MayClaim, Persist
    <3>2. /\ row'.state = "running" /\ row'.requested = row.requested
          /\ row'.started = now /\ row'.finished = row.finished
          /\ row'.updated = now
      BY <1>0, <3>1 DEF Claim, Rows
    <3>3. /\ row'.started # 0 /\ row'.finished = 0 /\ row'.items = NoItems
          /\ Pending(row') /\ row'.started >= row'.requested
      BY <3>1, <3>2 DEF Validate, Terminal, TerminalStates
    <3>q. QED BY <1>0, <3>2, <3>3 DEF RowReadable
  <2>q. QED BY <1>1, <1>6, <2>1 DEF ClaimQueued, Rejected, Fatal, store
<1>7. CASE SkipReport \/ ReportExecuting \/ ReportRefreshing
  <2>1. PICK p \in Phases : ReportOk(p) \/ ReportFails(p)
    BY <1>7 DEF SkipReport, ReportExecuting, ReportRefreshing, Phases
  <2>2. CASE ReportOk(p)
    <3>1. row' = UpdatePhase(row, p, now) /\ row.state = "running"
      BY <2>2 DEF ReportOk, MayUpdatePhase
    <3>2. /\ row'.state = row.state /\ row'.requested = row.requested
          /\ row'.started = row.started /\ row'.finished = row.finished
          /\ row'.updated = now /\ row'.items = row.items
          /\ row'.inventory = row.inventory
      BY <1>0, <3>1 DEF UpdatePhase, Rows
    <3>q. QED BY <1>0, <3>1, <3>2 DEF RowReadable, Pending
  <2>q. QED BY <1>1, <2>1, <2>2 DEF ReportFails
<1>8. CASE PersistResult
  <2>1. CASE /\ MayFinish(row, job.id)
             /\ Persist(FinishUncertain(row, "ambiguous", now), "reconcile")
    BY <1>f, <2>1 DEF Persist, MayFinish, FinishUncertain, UncertainResult,
                      TerminalStates
  <2>2. CASE /\ MayFinish(row, job.id)
             /\ Persist(Finish(row, res, now), "idle")
    BY <1>0, <1>f, <2>2 DEF Persist, MayFinish, Results
  <2>q. QED BY <1>1, <1>8, <2>1, <2>2 DEF PersistResult, Rejected, Fatal, store
<1>9. CASE ReconcilePersist
  <2>1. CASE /\ PendingReconciliation(row)
             /\ Persist(CompleteReconciliation(row, res.inventory, now), "idle")
    <3>1. row' = CompleteReconciliation(row, res.inventory, now) /\ Validate(row')
      BY <2>1 DEF Persist
    <3>2. /\ row'.state = row.state /\ row'.requested = row.requested
          /\ row'.started = row.started /\ row'.finished = row.finished
          /\ row'.updated = now
      BY <1>0, <3>1 DEF CompleteReconciliation, Rows
    <3>3. row.state \notin {"none", "running"}
      BY <2>1 DEF PendingReconciliation, UncertainStates
    <3>q. QED BY <1>0, <3>1, <3>2, <3>3 DEF RowReadable
  <2>q. QED
    BY <1>1, <1>9, <2>1 DEF ReconcilePersist, MayReconcile, Rejected, Fatal, store
<1>10. CASE AcquireLease \/ PrepareExecution \/ ConfirmExecution \/ SkipRefresh
            \/ BrokerRefuses \/ BrokerStarts \/ BrokerStartUncertain \/ BrokerEnds
            \/ RefreshAndClassify \/ ReconcileAcquire \/ ReconcileRefresh
  BY <1>1, <1>10 DEF AcquireLease, PrepareExecution, ConfirmExecution, SkipRefresh,
               BrokerRefuses, BrokerStarts, BrokerStartUncertain, BrokerEnds,
               RefreshAndClassify, ReconcileAcquire, ReconcileRefresh, store
<1>11. CASE UNCHANGED vars
  BY <1>1, <1>11 DEF vars
<1>q. QED
  BY <1>2, <1>3, <1>4, <1>5, <1>6, <1>7, <1>8, <1>9, <1>10, <1>11
     DEF Next, Requests, Worker, Execute, Reconcile

\* A readable row has a recovery transaction that a healed clock accepts.
LEMMA ReadableHeals ==
    ASSUME TypeOK, RowReadable
    PROVE  ClockHeals
<1>0. row \in Rows /\ MaxTime \in Nat \ {0}
  BY BoundsAssumption DEF TypeOK
<1>m. MaxTime \in Nat
  BY <1>0
<1>n. /\ row.requested \in Nat /\ row.started \in Nat /\ row.finished \in Nat
      /\ row.updated \in Nat
  BY <1>0 DEF Rows
<1> SUFFICES ASSUME MaxTime >= row.requested, MaxTime >= row.started,
                    MaxTime >= row.finished, MaxTime >= row.updated
             PROVE  /\ MayClaim(row) => Validate(Claim(row, MaxTime))
                    /\ row.state = "running" => Validate(InterruptRunning(row, MaxTime))
                    /\ PendingReconciliation(row) =>
                         Validate(CompleteReconciliation(row, "refreshed", MaxTime))
  BY DEF ClockHeals
<1>1. ASSUME MayClaim(row) PROVE Validate(Claim(row, MaxTime))
  <2> DEFINE c == Claim(row, MaxTime)
  <2>1. /\ c.state = "running" /\ c.phase = "revalidating"
        /\ c.started = MaxTime /\ c.updated = MaxTime
        /\ c.requested = row.requested /\ c.finished = row.finished
        /\ c.items = row.items /\ c.inventory = row.inventory
    BY <1>0 DEF Claim, Rows
  <2>2. row.finished = 0 /\ row.items = NoItems /\ Pending(row)
    BY <1>1 DEF RowReadable, Validate, MayClaim, Terminal, TerminalStates
  <2>q. QED BY <1>0, <1>n, <2>1, <2>2 DEF Validate, Pending
<1>2. ASSUME row.state = "running" PROVE Validate(InterruptRunning(row, MaxTime))
  <2> DEFINE c == InterruptRunning(row, MaxTime)
  <2>1. /\ c.state = "interrupted" /\ c.phase = "" /\ c.finished = MaxTime
        /\ c.updated = MaxTime /\ c.requested = row.requested
        /\ c.started = row.started /\ c.inventory = "pending"
        /\ c.items = AllItems("ambiguous")
    BY <1>0 DEF InterruptRunning, FinishUncertain, Finish, UncertainResult, Rows
  <2>2. row.started # 0 /\ row.started >= row.requested
    BY <1>2 DEF RowReadable
  <2>3. Terminal(c) /\ \A i \in Items : c.items[i] \in ItemStates
    BY <2>1 DEF Terminal, TerminalStates, AllItems, ItemStates
  <2> HIDE DEF c
  <2>4. c.updated >= c.requested /\ c.started >= c.requested
        /\ c.finished >= c.started /\ c.updated >= c.finished
    <3>1. MaxTime >= row.requested /\ row.started >= row.requested
          /\ MaxTime >= row.started /\ MaxTime >= MaxTime
      BY <1>m, <1>n, <2>2
    <3>q. QED BY <2>1, <3>1
  <2>5. c.started # 0 /\ c.finished # 0 /\ c.state \in UncertainStates
    BY <1>0, <2>1, <2>2 DEF UncertainStates
  <2>6. Validate(c)
    BY <2>1, <2>3, <2>4, <2>5 DEF Validate, Pending
  <2>q. QED BY <2>6 DEF c
<1>3. ASSUME PendingReconciliation(row)
      PROVE  Validate(CompleteReconciliation(row, "refreshed", MaxTime))
  <2> DEFINE c == CompleteReconciliation(row, "refreshed", MaxTime)
  <2>1. /\ c.state = row.state /\ c.phase = row.phase /\ c.finished = row.finished
        /\ c.updated = MaxTime /\ c.requested = row.requested
        /\ c.started = row.started /\ c.inventory = "refreshed"
        /\ c.items = row.items
    BY <1>0 DEF CompleteReconciliation, Rows
  <2>2. Validate(row) /\ Terminal(row)
    BY <1>3 DEF RowReadable, PendingReconciliation, UncertainStates, Terminal,
                TerminalStates
  <2>3. /\ row.phase = "" /\ row.started # 0 /\ row.finished # 0
        /\ \A i \in Items : row.items[i] \in ItemStates
        /\ row.started >= row.requested /\ row.finished >= row.started
    BY <2>2 DEF Validate, Terminal, TerminalStates
  <2>q. QED BY <1>0, <1>n, <2>1, <2>2, <2>3 DEF Validate, Pending, Terminal
<1>q. QED BY <1>1, <1>2, <1>3

\* No stored row wedges recovery: a clock that has caught up is accepted.
THEOREM ClockHealsAlways == Spec => []ClockHeals
<1>1. Init => RowReadable
  <2> SUFFICES ASSUME Init PROVE RowReadable
    OBVIOUS
  <2>1. /\ row.state = "none" /\ row.requested = 0 /\ row.started = 0
        /\ row.finished = 0 /\ row.updated = 0
    BY DEF Init, NoRow
  <2>2. MaxTime \in Nat
    BY BoundsAssumption
  <2>q. QED BY <2>1, <2>2 DEF RowReadable
<1>2. IInv /\ RowReadable /\ [Next]_vars => RowReadable'
  BY ReadableStep
<1>3. IInv /\ RowReadable => ClockHeals
  BY ReadableHeals DEF IInv
<1>q. QED BY <1>1, <1>2, <1>3, Invariance, PTL DEF Spec
=============================================================================
