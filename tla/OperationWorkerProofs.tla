------------------------ MODULE OperationWorkerProofs -----------------------
(***************************************************************************)
(* Proofs about OperationWorker for every set of operations and            *)
(* certificates and every bound.                                           *)
(***************************************************************************)
EXTENDS OperationWorker, TLAPS

(* The writers of JobStore produce rows.                                   *)

\* The value of an item map that gives every certificate one state.
LEMMA AllItemsType ==
    ASSUME NEW s \in ItemStates \cup {""}
    PROVE  AllItems(s) \in [Items -> ItemStates \cup {""}]
BY DEF AllItems

\* The empty table is a row of its own shape.
LEMMA NoRowType == NoRow \in Rows
BY AllItemsType DEF NoRow, Rows, Kinds, Phases, InventoryStates, NoItems

\* EnqueueKind writes a row.
LEMMA EnqueueKindType ==
    ASSUME NEW o \in Ops, NEW k \in Kinds, NEW e \in Nat, NEW t \in Nat
    PROVE  EnqueueKind(o, k, e, t) \in Rows
BY AllItemsType DEF EnqueueKind, Rows, ActiveStates, Phases, InventoryStates, NoItems

\* Claim and UpdatePhase write rows.
LEMMA ActiveWritesType ==
    ASSUME NEW r \in Rows, NEW t \in Nat, NEW p \in Phases
    PROVE  Claim(r, t) \in Rows /\ UpdatePhase(r, p, t) \in Rows
BY DEF Claim, UpdatePhase, Rows, ActiveStates, Phases

\* The uncertain result can be stored.
LEMMA FinishUncertainType ==
    ASSUME NEW r \in Rows, NEW t \in Nat, NEW s \in UncertainStates
    PROVE  FinishUncertain(r, s, t) \in Rows
BY AllItemsType DEF FinishUncertain, Finish, UncertainResult, Rows, UncertainStates,
   TerminalStates, Phases, InventoryStates, ItemStates

\* An executor result can be stored.
LEMMA FinishType ==
    ASSUME NEW r \in Rows, NEW t \in Nat, NEW x \in Results
    PROVE  Finish(r, x, t) \in Rows
BY DEF Finish, Results, Rows, Phases, InventoryStates

\* A reconciliation can be stored.
LEMMA CompleteReconciliationType ==
    ASSUME NEW r \in Rows, NEW t \in Nat, NEW i \in InventoryStates
    PROVE  CompleteReconciliation(r, i, t) \in Rows
BY DEF CompleteReconciliation, Rows

(* The executor produces results.                                          *)

\* A result without a run is a result.
LEMMA WithoutRunType ==
    ASSUME NEW s \in TerminalStates, NEW i \in {"refreshed", "unavailable"}
    PROVE  WithoutRun(s, i) \in Results
BY DEF WithoutRun, Results, AllItems, ItemStates

\* The broker's refusal is a broker result.
LEMMA NotStartedType == NotStarted \in BrokerResults
BY DEF NotStarted, BrokerResults, Outcomes

\* An item outcome is an item state.
LEMMA ItemOutcomeType ==
    ASSUME NEW b \in BrokerResults, NEW inv, NEW i \in Items
    PROVE  ItemOutcome(b, inv, i) \in {"completed", "failed", "ambiguous"}
BY DEF ItemOutcome

\* A run state is a terminal state.
LEMMA RunStateType ==
    ASSUME NEW b \in BrokerResults, NEW inv
    PROVE  RunState(b, inv) \in TerminalStates
BY DEF RunState, TerminalStates

\* Classification produces a result.
LEMMA ClassifyExecutionType ==
    ASSUME NEW b \in BrokerResults, NEW i \in {"refreshed", "unavailable"},
           NEW intact \in BOOLEAN
    PROVE  ClassifyExecution(b, i, intact) \in Results
<1>1. ClassifyFailedRun(b, i) \in Results
  BY DEF ClassifyFailedRun, Results, BrokerResults, ItemStates, TerminalStates
<1>2. ClassifyCompletedRun(b, i, intact) \in Results
  BY ItemOutcomeType, RunStateType
     DEF ClassifyCompletedRun, Results, BrokerResults, ItemStates, TerminalStates
<1>q. QED BY <1>1, <1>2 DEF ClassifyExecution

(* Type correctness, one step per action.                                  *)

\* The volatile state a process exit leaves has its type.
LEMMA ResetType ==
    /\ NoEnq \in [pc : {"idle", "holding", "prepared"}, kind : Kinds,
                  evidence : 0..MaxEvidence]
    /\ NoJob \in [id : Ops \cup {NoOp}, evidence : Nat]
    /\ NoResult \in Results
    /\ NotStarted \in BrokerResults
<1>1. NoResult \in Results
  BY WithoutRunType DEF NoResult, TerminalStates
<1>q. QED
  BY <1>1, NotStartedType, BoundsAssumption DEF NoEnq, NoJob, Kinds

\* Clock, other lease holders, previews and enqueueing keep TypeOK.
LEMMA RequestsType ==
    ASSUME TypeOK, Environment \/ Requests
    PROVE  TypeOK'
<1> USE BoundsAssumption
<1>1. CASE Tick
  BY <1>1 DEF TypeOK, Tick, store, local, native
<1>2. CASE ClockBack
  BY <1>2 DEF TypeOK, ClockBack, Fault, store, local, native
<1>3. CASE OtherAcquire
  BY <1>3 DEF TypeOK, OtherAcquire, Holders, store, local, native
<1>4. CASE OtherRelease
  BY <1>4 DEF TypeOK, OtherRelease, Holders, store, local, native
<1>5. CASE ExternalChange
  BY <1>5 DEF TypeOK, ExternalChange, store, local, native
<1>6. CASE Preview
  BY <1>6 DEF TypeOK, Preview, store, local, native
<1>7. ASSUME NEW kind \in Kinds, EnqueueBegin(kind) PROVE TypeOK'
  BY <1>7, ResetType DEF TypeOK, EnqueueBegin, Holders, store, local, native
<1>8. CASE EnqueuePrepare
  <2>1. enq' \in [pc : {"idle", "holding", "prepared"}, kind : Kinds,
                  evidence : 0..MaxEvidence]
    BY <1>8, ResetType DEF TypeOK, EnqueuePrepare
  <2>q. QED
    BY <1>8, <2>1 DEF TypeOK, EnqueuePrepare, Holders, store, local, native
<1>9. CASE EnqueueCommit
  <2>1. row' \in Rows
    <3>1. CASE UNCHANGED store
      BY <3>1 DEF TypeOK, store
    <3>2. ASSUME NEW o \in Ops, row' = EnqueueKind(o, enq.kind, enq.evidence, now)
          PROVE  row' \in Rows
      BY <3>2, EnqueueKindType DEF TypeOK
    <3>q. QED BY <1>9, <3>1, <3>2 DEF EnqueueCommit
  <2>2. accepted' \in SUBSET Ops /\ ranWith' \in 0..MaxEvidence
          /\ touched' \in SUBSET Items
    BY <1>9 DEF TypeOK, EnqueueCommit, store
  <2>q. QED
    BY <1>9, <2>1, <2>2, ResetType DEF TypeOK, EnqueueCommit, store, local
<1>q. QED
  BY <1>1, <1>2, <1>3, <1>4, <1>5, <1>6, <1>7, <1>8, <1>9
     DEF Environment, Requests

\* Ending the process keeps TypeOK.
LEMMA ExitType ==
    ASSUME TypeOK, Exit, UNCHANGED <<store, now, evidence, native>>,
           faults' \in 0..MaxFaults
    PROVE  TypeOK'
<1>1. /\ enq' \in [pc : {"idle", "holding", "prepared"}, kind : Kinds,
                    evidence : 0..MaxEvidence]
      /\ job' \in [id : Ops \cup {NoOp}, evidence : Nat]
      /\ res' \in Results /\ broker' \in BrokerResults
  BY ResetType DEF Exit, NoLocals
<1>2. /\ pc' \in Locations /\ lease' \in Holders /\ phase' \in Phases
      /\ token' \in 0..MaxEvidence
  <2>1. pc' = "down" /\ lease' = "free" /\ phase' = "" /\ token' = 0
    BY DEF Exit, NoLocals
  <2>2. pc' \in Locations BY <2>1 DEF Locations
  <2>3. lease' \in Holders BY <2>1 DEF Holders
  <2>4. phase' \in Phases BY <2>1 DEF Phases
  <2>5. token' \in 0..MaxEvidence
    <3>1. MaxEvidence \in Nat BY BoundsAssumption
    <3>2. 0 \in 0..MaxEvidence BY <3>1
    <3>q. QED BY <2>1, <3>2
  <2>q. QED BY <2>2, <2>3, <2>4, <2>5
<1>3. failed' \in BOOLEAN /\ stopping' \in BOOLEAN
  BY DEF Exit, NoLocals
<1>q. QED BY <1>1, <1>2, <1>3 DEF TypeOK, store, native

\* A committed transaction keeps the types of what it writes.
LEMMA PersistType ==
    ASSUME TypeOK, NEW r \in Rows, NEW l \in Locations, Persist(r, l)
    PROVE  /\ row' \in Rows /\ pc' \in Locations
           /\ UNCHANGED <<now, evidence, token, enq, stopping, accepted,
                          faults, lease>>
BY DEF Persist, Goto

\* Reporting a phase keeps the types of what it writes.
LEMMA ReportType ==
    ASSUME TypeOK, NEW p \in Phases, ReportOk(p) \/ ReportFails(p)
    PROVE  /\ row' \in Rows /\ phase' \in Phases /\ failed' \in BOOLEAN
           /\ faults' \in 0..MaxFaults
<1>1. CASE ReportOk(p)
  BY <1>1, ActiveWritesType DEF TypeOK, ReportOk
<1>2. CASE ReportFails(p)
  BY <1>2, BoundsAssumption DEF TypeOK, ReportFails, Fault
<1>q. QED BY <1>1, <1>2

\* Restart, recovery, stops and injected failures keep TypeOK.
LEMMA LifetimeType ==
    ASSUME TypeOK,
           \/ Restart \/ Failures \/ WorkerStops
           \/ RecoverInterrupt \/ RecoverPending \/ ClaimQueued
    PROVE  TypeOK'
<1> USE BoundsAssumption
<1>0. row \in Rows /\ now \in Nat
  BY DEF TypeOK
<1>f. ASSUME Fatal PROVE TypeOK'
  BY <1>f, ExitType DEF Fatal, TypeOK
<1>1. CASE Restart
  BY <1>1 DEF TypeOK, Restart, Locations, store, local, native
<1>2. CASE Crash
  BY <1>2, ExitType DEF Crash, Fault, TypeOK
<1>3. CASE StopRequested
  BY <1>3 DEF TypeOK, StopRequested, Fault, store, local, native
<1>4. CASE StoreFails
  BY <1>4, ExitType DEF StoreFails, Fault, TypeOK
<1>5. CASE ExecutorPanics
  BY <1>5 DEF TypeOK, ExecutorPanics, Fault, Goto, Locations, Holders, store, native
<1>6. CASE WorkerStops
  BY <1>6, ExitType DEF WorkerStops, TypeOK
<1>7. CASE RecoverInterrupt
  <2>1. InterruptRunning(row, now) \in Rows
    BY <1>0, FinishUncertainType DEF InterruptRunning, UncertainStates
  <2>2. CASE Persist(InterruptRunning(row, now), "pending") /\ UNCHANGED local
    BY <1>7, <2>1, <2>2, PersistType
       DEF TypeOK, RecoverInterrupt, Locations, local, native
  <2>3. CASE Goto("pending") /\ UNCHANGED <<store, faults, lease, local>>
    BY <1>7, <2>3 DEF TypeOK, RecoverInterrupt, Goto, Locations, store, local, native
  <2>q. QED BY <1>7, <1>f, <2>2, <2>3 DEF RecoverInterrupt, Rejected
<1>8. CASE RecoverPending
  <2>1. CASE Goto("idle") /\ UNCHANGED <<store, faults, lease, local>>
    BY <1>8, <2>1 DEF TypeOK, RecoverPending, Goto, Locations, store, local, native
  <2>2. CASE /\ Goto("reconcile")
             /\ job' = [id |-> row.id, evidence |-> row.evidence]
             /\ UNCHANGED <<store, faults, lease, phase, failed, broker, res>>
    <3>1. job' \in [id : Ops \cup {NoOp}, evidence : Nat]
      BY <2>2, <1>0 DEF Rows
    <3>q. QED
      BY <1>8, <2>2, <3>1 DEF TypeOK, RecoverPending, Goto, Locations, store, native
  <2>q. QED BY <1>8, <1>f, <2>1, <2>2 DEF RecoverPending
<1>9. CASE ClaimQueued
  <2>1. Claim(row, now) \in Rows
    BY <1>0, ActiveWritesType DEF Phases
  <2>2. CASE /\ Persist(Claim(row, now), "acquire")
             /\ job' = [id |-> row.id, evidence |-> row.evidence]
             /\ phase' = "revalidating" /\ failed' = FALSE
             /\ broker' = NotStarted /\ res' = NoResult
    <3>1. job' \in [id : Ops \cup {NoOp}, evidence : Nat]
      BY <2>2, <1>0 DEF Rows
    <3>2. "acquire" \in Locations
      BY DEF Locations, Executing
    <3>q. QED
      BY <1>9, <2>1, <2>2, <3>1, <3>2, PersistType, ResetType
         DEF TypeOK, ClaimQueued, Phases, native
  <2>q. QED BY <1>9, <1>f, <2>2 DEF ClaimQueued, Rejected
<1>q. QED
  BY <1>1, <1>2, <1>3, <1>4, <1>5, <1>6, <1>7, <1>8, <1>9 DEF Failures
\* Every step of execute keeps TypeOK.
LEMMA ExecuteType ==
    ASSUME TypeOK, Execute
    PROVE  TypeOK'
<1> USE BoundsAssumption
<1>0. row \in Rows /\ now \in Nat /\ res \in Results /\ broker \in BrokerResults
  BY DEF TypeOK
<1>l. Executing \cup {"idle", "running", "finish", "reconcile"} \subseteq Locations
  BY DEF Locations
<1>a. ASSUME NEW S, S \subseteq TerminalStates, Abandon(S) PROVE res' \in Results
  BY <1>a, WithoutRunType DEF Abandon
<1>1. CASE AcquireLease
  BY <1>1, ResetType
     DEF TypeOK, AcquireLease, Goto, Locations, Executing, Holders, store, native
<1>2. CASE PrepareExecution
  <2>1. res' \in Results
    BY <1>2, <1>0, <1>a DEF PrepareExecution, TerminalStates
  <2>q. QED
    BY <1>2, <2>1
       DEF TypeOK, PrepareExecution, Abandon, Goto, Locations, Executing, store, native
<1>3. CASE ConfirmExecution
  <2>1. res' \in Results
    BY <1>3, <1>0, <1>a DEF ConfirmExecution, TerminalStates
  <2>q. QED
    BY <1>3, <2>1
       DEF TypeOK, ConfirmExecution, Abandon, Goto, Locations, Executing, store, native
<1>4. CASE SkipReport
  BY <1>4, ReportType
     DEF TypeOK, SkipReport, Goto, Locations, Executing, Phases, native
<1>5. CASE SkipRefresh
  <2>1. res' \in Results
    BY <1>5, <1>0 DEF SkipRefresh, Results
  <2>2. lease' \in Holders
    BY <1>5 DEF TypeOK, SkipRefresh, Holders
  <2>q. QED
    BY <1>5, <2>1, <2>2 DEF TypeOK, SkipRefresh, Goto, Locations, store, native
<1>6. CASE ReportExecuting
  <2>1. /\ row' \in Rows /\ phase' \in Phases /\ failed' \in BOOLEAN
        /\ faults' \in 0..MaxFaults
    BY <1>6, ReportType DEF ReportExecuting, Phases
  <2>2. res' \in Results
    BY <1>6, <1>0, WithoutRunType DEF ReportExecuting, TerminalStates
  <2>q. QED
    BY <1>6, <2>1, <2>2
       DEF TypeOK, ReportExecuting, Goto, Locations, Executing, Holders, native
<1>7. CASE BrokerRefuses
  BY <1>7, ResetType
     DEF TypeOK, BrokerRefuses, Goto, Locations, Executing, store, native
<1>s. ASSUME Started PROVE starts' \in [Ops -> Nat] /\ ranWith' \in 0..MaxEvidence
  <2>1. starts' \in [Ops -> Nat]
    <3>1. starts \in [Ops -> Nat] /\ starts' = [starts EXCEPT ![job.id] = @ + 1]
      BY <1>s DEF Started, TypeOK
    <3>2. CASE job.id \in Ops
      BY <3>1, <3>2
    <3>3. CASE job.id \notin Ops
      BY <3>1, <3>3
    <3>q. QED BY <3>2, <3>3
  <2>2. ranWith' \in 0..MaxEvidence
    BY <1>s DEF Started, TypeOK
  <2>q. QED BY <2>1, <2>2
<1>8. CASE BrokerStarts
  BY <1>8, <1>s DEF TypeOK, BrokerStarts, Goto, Locations, store, local
<1>9. CASE BrokerStartUncertain
  <2>1. broker' \in BrokerResults /\ touched' \in SUBSET Items
    BY <1>9 DEF BrokerStartUncertain, BrokerResults, NotStarted, Outcomes
  <2>q. QED
    BY <1>9, <1>s, <2>1
       DEF TypeOK, BrokerStartUncertain, Goto, Locations, Executing, store
<1>10. CASE BrokerEnds
  <2>1. broker' \in BrokerResults /\ touched' \in SUBSET Items
    <3>1. PICK changed \in SUBSET Items, outcome \in Outcomes, err \in BOOLEAN :
            \E attempts \in Logs(outcome) :
              /\ touched' = changed
              /\ broker' = [err |-> err, started |-> TRUE, outcome |-> outcome,
                            changed |-> changed, attempts |-> attempts]
      BY <1>10 DEF BrokerEnds
    <3>2. Logs(outcome) \subseteq [Items -> Nat]
      BY DEF Logs
    <3>q. QED BY <3>1, <3>2 DEF BrokerResults
  <2>q. QED
    BY <1>10, <2>1 DEF TypeOK, BrokerEnds, Goto, Locations, Executing, store
<1>11. CASE ReportRefreshing
  BY <1>11, ReportType
     DEF TypeOK, ReportRefreshing, Goto, Locations, Executing, Phases, native
<1>12. CASE RefreshAndClassify
  <2>1. res' \in Results
    BY <1>12, <1>0, ClassifyExecutionType DEF RefreshAndClassify
  <2>q. QED
    BY <1>12, <2>1
       DEF TypeOK, RefreshAndClassify, Goto, Locations, Holders, store, native
<1>13. CASE PersistResult
  <2> DEFINE final == IF Untrusted THEN FinishUncertain(row, "ambiguous", now)
                                   ELSE Finish(row, res, now)
  <2>1. final \in Rows
    BY <1>0, FinishUncertainType, FinishType DEF UncertainStates
  <2>2. CASE Persist(final, "reconcile") /\ UNCHANGED local
    BY <1>13, <2>1, <2>2, PersistType
       DEF TypeOK, PersistResult, Locations, local, native
  <2>3. CASE Persist(final, "idle") /\ NoLocals
    <3>1. /\ job' \in [id : Ops \cup {NoOp}, evidence : Nat]
          /\ res' \in Results /\ broker' \in BrokerResults
          /\ phase' \in Phases
      BY <2>3, ResetType DEF NoLocals, Phases
    <3>2. failed' \in BOOLEAN
      BY <2>3 DEF NoLocals
    <3>q. QED
      BY <1>13, <2>1, <2>3, <3>1, <3>2, PersistType
         DEF TypeOK, PersistResult, Locations, native
  <2>4. CASE Fatal
    BY <2>4, ExitType DEF Fatal, TypeOK
  <2>q. QED BY <1>13, <2>2, <2>3, <2>4 DEF PersistResult, Rejected
<1>q. QED
  BY <1>1, <1>2, <1>3, <1>4, <1>5, <1>6, <1>7, <1>8, <1>9, <1>10, <1>11, <1>12,
     <1>13 DEF Execute

\* Every step of reconcile keeps TypeOK.
LEMMA ReconcileType ==
    ASSUME TypeOK, Reconcile
    PROVE  TypeOK'
<1>0. row \in Rows /\ now \in Nat /\ res \in Results
  BY BoundsAssumption DEF TypeOK
<1>1. CASE ReconcileAcquire
  BY <1>1, ResetType
     DEF TypeOK, ReconcileAcquire, Goto, Locations, Holders, store, native
<1>2. CASE ReconcileRefresh
  <2>1. res' \in Results
    BY <1>2, ResetType DEF ReconcileRefresh, Results
  <2>q. QED
    BY <1>2, <2>1 DEF TypeOK, ReconcileRefresh, Goto, Locations, Holders, store, native
<1>3. CASE ReconcilePersist
  <2> DEFINE final == CompleteReconciliation(row, res.inventory, now)
  <2>1. final \in Rows
    BY <1>0, CompleteReconciliationType DEF Results, InventoryStates
  <2>2. CASE Persist(final, "idle") /\ NoLocals
    <3>1. /\ job' \in [id : Ops \cup {NoOp}, evidence : Nat]
          /\ res' \in Results /\ broker' \in BrokerResults
          /\ phase' \in Phases
      BY <2>2, ResetType DEF NoLocals, Phases
    <3>2. failed' \in BOOLEAN
      BY <2>2 DEF NoLocals
    <3>q. QED
      BY <1>3, <2>1, <2>2, <3>1, <3>2, PersistType
         DEF TypeOK, ReconcilePersist, Locations, native
  <2>3. CASE Fatal
    BY <2>3, ExitType DEF Fatal, TypeOK
  <2>q. QED BY <1>3, <2>2, <2>3 DEF ReconcilePersist, Rejected
<1>q. QED BY <1>1, <1>2, <1>3 DEF Reconcile

\* The initial state is of the declared shape.
LEMMA InitType == Init => TypeOK
<1> SUFFICES ASSUME Init PROVE TypeOK
  OBVIOUS
<1>1. MaxTime \in Nat \ {0} /\ MaxEvidence \in Nat \ {0} /\ MaxFaults \in Nat
  BY BoundsAssumption
<1>2. 1 \in 1..MaxTime /\ 1 \in 1..MaxEvidence /\ 0 \in 0..MaxEvidence
        /\ 0 \in 0..MaxFaults
  BY <1>1
<1>3. pc \in Locations /\ lease \in Holders /\ phase \in Phases
  BY DEF Init, Locations, Holders, Phases
<1>4. failed \in BOOLEAN /\ stopping \in BOOLEAN
  BY DEF Init
<1>5. starts \in [Ops -> Nat] /\ accepted \in SUBSET Ops /\ touched \in SUBSET Items
  BY DEF Init
<1>6. row \in Rows /\ enq = NoEnq /\ job = NoJob /\ res = NoResult
        /\ broker = NotStarted
  BY NoRowType DEF Init
<1>7. now \in 1..MaxTime /\ evidence \in 1..MaxEvidence /\ token \in 0..MaxEvidence
        /\ faults \in 0..MaxFaults /\ ranWith \in 0..MaxEvidence
  BY <1>2 DEF Init
<1>q. QED BY <1>3, <1>4, <1>5, <1>6, <1>7, ResetType DEF TypeOK

\* Every step, and every stuttering step, keeps TypeOK.
LEMMA NextType ==
    ASSUME TypeOK, [Next]_vars
    PROVE  TypeOK'
<1>1. CASE Next
  BY <1>1, RequestsType, LifetimeType, ExecuteType, ReconcileType DEF Next, Worker
<1>2. CASE UNCHANGED vars
  BY <1>2 DEF TypeOK, vars
<1>q. QED BY <1>1, <1>2

\* The row, the worker's locals and the lease keep their types in every
\* behaviour, for every set of operations and certificates and every bound.
THEOREM TypeCorrect == Spec => []TypeOK
BY InitType, NextType, PTL DEF Spec

-----------------------------------------------------------------------------
(***************************************************************************)
(* IInv is an inductive invariant of the operation worker, and the safety  *)
(* properties follow from it.                                              *)
(***************************************************************************)

(* What the writers of JobStore leave in the fields the invariant reads.   *)

\* Claim moves the row to running and keeps its identity.
LEMMA ClaimFields ==
    ASSUME NEW r \in Rows, NEW t \in Nat
    PROVE  /\ Claim(r, t).id = r.id /\ Claim(r, t).evidence = r.evidence
           /\ Claim(r, t).state = "running"
           /\ Claim(r, t).phase = "revalidating"
BY DEF Claim, Rows

\* UpdatePhase changes the phase alone among them.
LEMMA UpdatePhaseFields ==
    ASSUME NEW r \in Rows, NEW t \in Nat, NEW p \in Phases
    PROVE  /\ UpdatePhase(r, p, t).id = r.id
           /\ UpdatePhase(r, p, t).evidence = r.evidence
           /\ UpdatePhase(r, p, t).state = r.state
           /\ UpdatePhase(r, p, t).phase = p
BY DEF UpdatePhase, Rows

\* Finish stores the result it is given.
LEMMA FinishFields ==
    ASSUME NEW r \in Rows, NEW t \in Nat, NEW x
    PROVE  /\ Finish(r, x, t).id = r.id /\ Finish(r, x, t).evidence = r.evidence
           /\ Finish(r, x, t).state = x.state
           /\ Finish(r, x, t).mayHaveChanged = x.mayHaveChanged
           /\ Finish(r, x, t).inventory = x.inventory
           /\ Finish(r, x, t).items = x.items
BY DEF Finish, Rows

\* An uncertain finish waits for reconciliation and denies nothing.
LEMMA FinishUncertainFields ==
    ASSUME NEW r \in Rows, NEW t \in Nat, NEW s \in UncertainStates
    PROVE  /\ FinishUncertain(r, s, t).id = r.id
           /\ FinishUncertain(r, s, t).evidence = r.evidence
           /\ FinishUncertain(r, s, t).state = s
           /\ FinishUncertain(r, s, t).mayHaveChanged = TRUE
           /\ FinishUncertain(r, s, t).inventory = "pending"
           /\ FinishUncertain(r, s, t).items = AllItems("ambiguous")
BY FinishFields DEF FinishUncertain, UncertainResult

\* CompleteReconciliation settles the inventory and nothing else of them.
LEMMA CompleteReconciliationFields ==
    ASSUME NEW r \in Rows, NEW t \in Nat, NEW i \in InventoryStates
    PROVE  LET c == CompleteReconciliation(r, i, t)
           IN  /\ c.id = r.id /\ c.evidence = r.evidence /\ c.state = r.state
               /\ c.mayHaveChanged = r.mayHaveChanged /\ c.items = r.items
               /\ c.inventory = i
BY DEF CompleteReconciliation, Rows

(* Frames: the parts of IInv a step cannot disturb.                        *)

\* The stored facts survive a step that writes neither store nor workspace.
LEMMA StoreFrame ==
    ASSUME IInv, UNCHANGED <<store, native>>
    PROVE  RowShape' /\ StartsShape' /\ HonestRow'
BY DEF IInv, RowShape, StartsShape, HonestRow, Honest, Terminal, store, native

\* The worker's facts survive a step of somebody else.
LEMMA WorkerFrame ==
    ASSUME IInv, UNCHANGED <<store, native, pc, local>>,
           evidence' \in Nat, evidence' >= evidence
    PROVE  OwnsRow' /\ Progress' /\ HonestResult'
<1>1. OwnsRow'
  BY DEF IInv, OwnsRow, PendingReconciliation, Pending, store, local
<1>2. Progress'
  BY DEF IInv, TypeOK, Progress, native, local
<1>3. HonestResult'
  BY DEF IInv, HonestResult, Honest, Untrusted, native, local
<1>q. QED BY <1>1, <1>2, <1>3

\* A process exit leaves nothing the worker's facts could contradict.
LEMMA ExitFrame ==
    ASSUME IInv, TypeOK', Exit, UNCHANGED <<store, now, evidence, native>>
    PROVE  IInv'
<1>1. RowShape' /\ StartsShape' /\ HonestRow'
  BY StoreFrame
<1>2. pc' = "down" /\ enq' = NoEnq
  BY DEF Exit
<1>3. OwnsRow' /\ HonestResult' /\ LeaseShape'
  BY <1>2 DEF OwnsRow, Owning, Executing, HonestResult, LeaseShape, NoEnq
<1>4. Progress'
  BY <1>2 DEF IInv, TypeOK, Progress, native
<1>q. QED BY <1>1, <1>3, <1>4 DEF IInv

\* The environment and the requests keep the invariant.
LEMMA RequestsSafe ==
    ASSUME IInv, TypeOK', Environment \/ Requests
    PROVE  IInv'
<1>0. TypeOK
  BY DEF IInv
<1>1. ASSUME UNCHANGED <<store, native, pc, local>>,
             evidence' \in Nat, evidence' >= evidence, LeaseShape'
      PROVE  IInv'
  BY <1>1, StoreFrame, WorkerFrame DEF IInv
<1>2. CASE Tick \/ ClockBack \/ ExternalChange \/ Preview
  <2>1. UNCHANGED <<store, native, pc, local, lease, enq>>
    BY <1>2 DEF Tick, ClockBack, ExternalChange, Preview
  <2>2. evidence' \in Nat /\ evidence' >= evidence
    BY <1>0, <1>2 DEF TypeOK, Tick, ClockBack, ExternalChange, Preview
  <2>3. LeaseShape'
    BY <2>1 DEF IInv, LeaseShape
  <2>q. QED BY <1>1, <2>1, <2>2, <2>3
<1>3. CASE OtherAcquire
  BY <1>0, <1>1, <1>3 DEF IInv, TypeOK, LeaseShape, OtherAcquire
<1>4. CASE OtherRelease
  <2>1. evidence' \in Nat /\ evidence' >= evidence
    BY <1>0, <1>4 DEF TypeOK, OtherRelease
  <2>2. LeaseShape'
    BY <1>4 DEF IInv, LeaseShape, OtherRelease
  <2>q. QED BY <1>1, <1>4, <2>1, <2>2 DEF OtherRelease
<1>5. ASSUME NEW kind \in Kinds, EnqueueBegin(kind) PROVE IInv'
  <2>1. LeaseShape'
    BY <1>5 DEF IInv, LeaseShape, EnqueueBegin
  <2>2. evidence' \in Nat /\ evidence' >= evidence
    BY <1>0, <1>5 DEF TypeOK, EnqueueBegin
  <2>q. QED BY <1>1, <1>5, <2>1, <2>2 DEF EnqueueBegin
<1>6. CASE EnqueuePrepare
  <2>1. LeaseShape'
    BY <1>6 DEF IInv, LeaseShape, EnqueuePrepare, NoEnq
  <2>2. evidence' \in Nat /\ evidence' >= evidence
    BY <1>0, <1>6 DEF TypeOK, EnqueuePrepare
  <2>q. QED BY <1>1, <1>6, <2>1, <2>2 DEF EnqueuePrepare
<1>7. CASE EnqueueCommit
  <2>1. LeaseShape'
    BY <1>7 DEF IInv, LeaseShape, EnqueueCommit, NoEnq
  <2>2. CASE UNCHANGED <<store, ranWith, touched>>
    BY <1>0, <1>1, <1>7, <2>1, <2>2 DEF EnqueueCommit, TypeOK, native
  <2>3. CASE /\ MayEnqueue(row)
             /\ \E o \in Ops \ accepted :
                   /\ row' = EnqueueKind(o, enq.kind, enq.evidence, now)
                   /\ accepted' = accepted \cup {o}
             /\ ranWith' = 0 /\ touched' = {}
    <3>1. PICK o \in Ops \ accepted :
                /\ row' = EnqueueKind(o, enq.kind, enq.evidence, now)
                /\ accepted' = accepted \cup {o}
      BY <2>3
    <3>2. row'.id = o /\ row'.state = "queued" /\ starts' = starts /\ o # NoOp
      BY <1>7, <3>1, OpsAssumption DEF EnqueueCommit, EnqueueKind
    <3>3. RowShape'
      BY <3>1, <3>2 DEF RowShape
    <3>4. StartsShape'
      BY <2>3, <3>1, <3>2 DEF IInv, StartsShape
    <3>5. pc \notin Owning \cup {"reconcile", "reconciling", "reconciled"}
      BY <2>3 DEF IInv, OwnsRow, MayEnqueue, Active, ActiveStates, Pending,
                  PendingReconciliation, UncertainStates
    <3>6. pc' = pc /\ UNCHANGED <<local, evidence>>
      BY <1>7 DEF EnqueueCommit
    <3>7. OwnsRow' /\ HonestResult'
      BY <3>5, <3>6 DEF OwnsRow, HonestResult, Owning
    <3>8. Progress'
      BY <1>0, <2>3, <3>5, <3>6 DEF IInv, TypeOK, Progress, Owning, Executing
    <3>9. HonestRow'
      BY <3>2 DEF HonestRow, Terminal, TerminalStates
    <3>q. QED BY <2>1, <3>3, <3>4, <3>7, <3>8, <3>9 DEF IInv
  <2>q. QED BY <1>7, <2>2, <2>3 DEF EnqueueCommit
<1>q. QED
  BY <1>2, <1>3, <1>4, <1>5, <1>6, <1>7 DEF Environment, Requests
\* A transition of the running row to another running row keeps the stored
\* facts.
LEMMA RunningFrame ==
    ASSUME IInv, UNCHANGED <<accepted, native>>, row.state = "running",
           row'.state = "running", row'.id = row.id
    PROVE  RowShape' /\ StartsShape' /\ HonestRow'
BY DEF IInv, RowShape, StartsShape, HonestRow, Terminal, TerminalStates, native

\* A running row finished as uncertain denies nothing and awaits reconciliation.
LEMMA UncertainRow ==
    ASSUME IInv, row.state = "running", UNCHANGED <<accepted, native>>,
           NEW s \in UncertainStates,
           row' = FinishUncertain(row, s, now)
    PROVE  RowShape' /\ StartsShape' /\ HonestRow' /\ PendingReconciliation(row)'
             /\ row'.id = row.id /\ row'.evidence = row.evidence
<1>0. row \in Rows /\ now \in Nat
  BY BoundsAssumption DEF IInv, TypeOK
<1>1. /\ row'.id = row.id /\ row'.evidence = row.evidence /\ row'.state = s
      /\ row'.mayHaveChanged = TRUE /\ row'.inventory = "pending"
      /\ row'.items = AllItems("ambiguous")
  BY <1>0, FinishUncertainFields
<1>2. s \notin {"none", "queued", "running", "succeeded", "not_attempted",
                "incompatible"}
  BY DEF UncertainStates
<1>3. RowShape' /\ StartsShape'
  BY <1>1, <1>2 DEF IInv, RowShape, StartsShape, native
<1>4. HonestRow'
  BY <1>1, <1>2 DEF HonestRow, Honest, AllItems
<1>5. PendingReconciliation(row)'
  BY <1>1 DEF PendingReconciliation, Pending
<1>q. QED BY <1>1, <1>3, <1>4, <1>5

\* Restart, recovery, stops and injected failures keep the invariant.
LEMMA LifetimeSafe ==
    ASSUME IInv, TypeOK',
           \/ Restart \/ Failures \/ WorkerStops
           \/ RecoverInterrupt \/ RecoverPending \/ ClaimQueued
    PROVE  IInv'
<1>0. TypeOK /\ row \in Rows /\ now \in Nat
  BY BoundsAssumption DEF IInv, TypeOK
<1>f. ASSUME Fatal PROVE IInv'
  BY <1>f, ExitFrame DEF Fatal
<1>x. ASSUME UNCHANGED <<store, native, evidence, lease, enq>>,
             pc' \in {"recover", "pending", "idle"}
      PROVE  IInv'
  <2>1. RowShape' /\ StartsShape' /\ HonestRow'
    BY <1>x, StoreFrame
  <2>2. OwnsRow' /\ HonestResult' /\ LeaseShape'
    BY <1>x DEF IInv, OwnsRow, Owning, Executing, HonestResult, LeaseShape
  <2>3. Progress'
    BY <1>x DEF IInv, Progress, native
  <2>q. QED BY <2>1, <2>2, <2>3 DEF IInv
<1>1. CASE Restart
  BY <1>1, <1>x DEF Restart
<1>2. CASE Crash
  BY <1>2, ExitFrame DEF Crash
<1>3. CASE StopRequested
  <2>1. LeaseShape'
    BY <1>3 DEF IInv, LeaseShape, StopRequested
  <2>2. evidence' \in Nat /\ evidence' >= evidence
    BY <1>0, <1>3 DEF TypeOK, StopRequested
  <2>q. QED BY <1>3, <2>1, <2>2, StoreFrame, WorkerFrame DEF IInv, StopRequested
<1>4. CASE StoreFails
  BY <1>4, ExitFrame DEF StoreFails
<1>5. CASE ExecutorPanics
  <2>1. RowShape' /\ StartsShape' /\ HonestRow'
    BY <1>5, StoreFrame DEF ExecutorPanics
  <2>2. OwnsRow'
    BY <1>5 DEF IInv, OwnsRow, Owning, Executing, ExecutorPanics, Goto, store
  <2>3. Progress'
    BY <1>5 DEF IInv, Progress, ExecutorPanics, Goto, native
  <2>4. LeaseShape'
    BY <1>5 DEF IInv, LeaseShape, ExecutorPanics, Goto
  <2>5. HonestResult'
    BY <1>5 DEF HonestResult, Untrusted, ExecutorPanics
  <2>q. QED BY <2>1, <2>2, <2>3, <2>4, <2>5 DEF IInv
<1>6. CASE WorkerStops
  BY <1>6, ExitFrame DEF WorkerStops
<1>7. CASE RecoverInterrupt
  <2>1. CASE /\ row.state = "running"
             /\ Persist(InterruptRunning(row, now), "pending")
    <3>1. row' = FinishUncertain(row, "interrupted", now)
      BY <2>1 DEF Persist, InterruptRunning
    <3>2. UNCHANGED <<accepted, native>>
      BY <1>7, <2>1 DEF RecoverInterrupt, Persist
    <3>3. RowShape' /\ StartsShape' /\ HonestRow'
      BY <2>1, <3>1, <3>2, UncertainRow DEF UncertainStates
    <3>4. OwnsRow' /\ HonestResult' /\ LeaseShape'
      BY <2>1 DEF IInv, OwnsRow, Owning, Executing, HonestResult, LeaseShape,
                  Persist, Goto
    <3>5. Progress'
      BY <2>1, <3>2 DEF IInv, Progress, Persist, Goto, native
    <3>q. QED BY <3>3, <3>4, <3>5 DEF IInv
  <2>2. CASE Goto("pending") /\ UNCHANGED <<store, faults, lease, local>>
    BY <1>7, <1>x, <2>2 DEF RecoverInterrupt, Goto
  <2>q. QED BY <1>7, <1>f, <2>1, <2>2 DEF RecoverInterrupt, Rejected
<1>8. CASE RecoverPending
  <2>1. CASE Goto("idle") /\ UNCHANGED <<store, faults, lease, local>>
    BY <1>8, <1>x, <2>1 DEF RecoverPending, Goto
  <2>2. CASE /\ PendingReconciliation(row) /\ Goto("reconcile")
             /\ job' = [id |-> row.id, evidence |-> row.evidence]
             /\ UNCHANGED <<store, faults, lease, phase, failed, broker, res>>
    <3>1. UNCHANGED <<store, native>>
      BY <1>8, <2>2 DEF RecoverPending
    <3>2. RowShape' /\ StartsShape' /\ HonestRow'
      BY <3>1, StoreFrame
    <3>3. OwnsRow'
      BY <2>2 DEF OwnsRow, Owning, Executing, PendingReconciliation, Pending,
                  Goto, store
    <3>4. HonestResult' /\ LeaseShape'
      BY <2>2 DEF IInv, HonestResult, LeaseShape, Goto
    <3>5. Progress'
      BY <2>2, <3>1 DEF IInv, Progress, Goto, native
    <3>q. QED BY <3>2, <3>3, <3>4, <3>5 DEF IInv
  <2>q. QED BY <1>8, <1>f, <2>1, <2>2 DEF RecoverPending
<1>9. CASE ClaimQueued
  <2>1. CASE /\ Persist(Claim(row, now), "acquire")
             /\ job' = [id |-> row.id, evidence |-> row.evidence]
             /\ phase' = "revalidating"
    <3>1. /\ row' = Claim(row, now) /\ pc' = "acquire"
          /\ UNCHANGED <<accepted, native, evidence, lease, enq>>
      BY <1>9, <2>1 DEF ClaimQueued, Persist, Goto
    <3>2. /\ row'.id = row.id /\ row'.evidence = row.evidence
          /\ row'.state = "running" /\ row'.phase = "revalidating"
      BY <1>0, <3>1, ClaimFields
    <3>3. row.state = "queued"
      BY <1>9 DEF ClaimQueued, MayClaim
    <3>4. RowShape' /\ StartsShape' /\ HonestRow'
      BY <3>1, <3>2, <3>3
         DEF IInv, RowShape, StartsShape, HonestRow, Terminal, TerminalStates, native
    <3>5. OwnsRow'
      BY <2>1, <3>1, <3>2 DEF OwnsRow
    <3>6. Progress'
      BY <2>1, <3>1, <3>3 DEF IInv, StartsShape, Progress, native
    <3>7. HonestResult' /\ LeaseShape'
      BY <3>1 DEF IInv, HonestResult, LeaseShape
    <3>q. QED BY <3>4, <3>5, <3>6, <3>7 DEF IInv
  <2>q. QED BY <1>9, <1>f, <2>1 DEF ClaimQueued, Rejected
<1>q. QED
  BY <1>1, <1>2, <1>3, <1>4, <1>5, <1>6, <1>7, <1>8, <1>9 DEF Failures
(* The executor.                                                           *)

\* Classification denies nothing that happened, calls nothing a success that
\* was not the reviewed run, and follows the native evidence item by item.
LEMMA ClassificationHonest ==
    ASSUME IInv, NEW inv \in {"refreshed", "unavailable"},
           NEW intact \in BOOLEAN, intact => evidence = job.evidence,
           pc = "refresh"
    PROVE  LET r == ClassifyExecution(broker, inv, intact)
           IN  Honest(r.state, r.mayHaveChanged, r.items, job.id, job.evidence)
<1>0. /\ broker \in BrokerResults /\ starts \in [Ops -> Nat]
      /\ job.evidence \in Nat /\ evidence \in Nat /\ ranWith \in Nat
      /\ job.id \in Ops
  BY BoundsAssumption DEF IInv, TypeOK, RowShape, OwnsRow, Owning, Executing
<1>1. /\ broker.started <=> starts[job.id] = 1
      /\ ~broker.started => broker.err
      /\ broker.changed = touched
      /\ ranWith <= evidence
      /\ starts[job.id] = 1 => job.evidence <= ranWith
  BY DEF IInv, Progress
<1>2. ~broker.started => starts[job.id] = 0
  BY <1>0, <1>1 DEF IInv, StartsShape
<1>3. Changed(broker, inv) \subseteq touched
  BY <1>1 DEF Changed
<1>4. CASE broker.err
  <2> DEFINE r == ClassifyFailedRun(broker, inv)
  <2>1. /\ r.state = IF broker.started THEN "ambiguous" ELSE "not_attempted"
        /\ r.mayHaveChanged = broker.started
        /\ \A i \in Items : r.items[i] =
              IF ~broker.started THEN "not_attempted"
              ELSE IF i \in Changed(broker, inv) THEN "completed" ELSE "ambiguous"
    BY DEF ClassifyFailedRun
  <2>2. Honest(r.state, r.mayHaveChanged, r.items, job.id, job.evidence)
    BY <1>2, <1>3, <2>1 DEF Honest
  <2>q. QED BY <1>4, <2>2 DEF ClassifyExecution
<1>5. CASE ~broker.err
  <2> DEFINE r == ClassifyCompletedRun(broker, inv, intact)
  <2>1. /\ r.state = IF intact THEN RunState(broker, inv) ELSE "ambiguous"
        /\ r.mayHaveChanged = broker.started
        /\ r.items = [i \in Items |->
             IF intact \/ ItemOutcome(broker, inv, i) = "completed"
             THEN ItemOutcome(broker, inv, i) ELSE "ambiguous"]
    BY DEF ClassifyCompletedRun
  <2>2. broker.started /\ starts[job.id] = 1
    BY <1>1, <1>5
  <2>3. /\ r.state \notin {"not_attempted", "incompatible"}
        /\ r.state = "succeeded" => intact
        /\ broker.outcome = "succeeded" => r.state \in {"succeeded", "ambiguous"}
    BY <2>1 DEF RunState
  <2>4. \A i \in Items : r.items[i] # "not_attempted"
    BY <2>1, <1>0, ItemOutcomeType
  <2>5. intact => ranWith = job.evidence
    BY <1>0, <1>1, <2>2
  <2>6. ASSUME NEW i \in Items, r.items[i] = "failed" PROVE i \notin touched
    <3>1. ItemOutcome(broker, inv, i) = "failed"
      BY <2>1, <2>6
    <3>2. /\ broker.outcome # "succeeded" /\ i \notin Changed(broker, inv)
          /\ i = FailedRenewal(broker, inv)
      BY <3>1 DEF ItemOutcome
    <3>3. inv = "refreshed"
      BY <3>2, NoItemAssumption DEF FailedRenewal
    <3>q. QED BY <1>1, <3>2, <3>3 DEF Changed
  <2>7. ASSUME NEW i \in Items, r.items[i] = "completed"
        PROVE  \/ i \in touched
               \/ r.state \in {"succeeded", "ambiguous"}
                    /\ r.items = AllItems("completed")
    <3>1. ItemOutcome(broker, inv, i) = "completed"
      BY <2>1, <2>7
    <3>2. CASE broker.outcome = "succeeded"
      <4>1. \A j \in Items : ItemOutcome(broker, inv, j) = "completed"
        BY <3>2 DEF ItemOutcome
      <4>2. r.items = AllItems("completed")
        BY <2>1, <4>1 DEF AllItems
      <4>q. QED BY <2>3, <3>2, <4>2
    <3>3. CASE broker.outcome # "succeeded"
      BY <1>3, <3>1, <3>3 DEF ItemOutcome
    <3>q. QED BY <3>2, <3>3
  <2>8. Honest(r.state, r.mayHaveChanged, r.items, job.id, job.evidence)
    BY <2>1, <2>2, <2>3, <2>4, <2>5, <2>6, <2>7 DEF Honest
  <2>q. QED BY <1>5, <2>8 DEF ClassifyExecution
<1>q. QED BY <1>4, <1>5

\* A report changes the phase of the worker's row, or nothing stored.
LEMMA ReportSafe ==
    ASSUME IInv, NEW p \in Phases, ReportOk(p) \/ ReportFails(p),
           pc \in Owning, UNCHANGED <<accepted, native>>
    PROVE  /\ RowShape' /\ StartsShape' /\ HonestRow'
           /\ row'.id = row.id /\ row'.evidence = row.evidence
           /\ row'.state = "running" /\ row'.phase = phase'
<1>0. row \in Rows /\ now \in Nat
  BY BoundsAssumption DEF IInv, TypeOK
<1>1. row.state = "running" /\ row.phase = phase
  BY DEF IInv, OwnsRow
<1>2. CASE ReportOk(p)
  <2>1. /\ row'.id = row.id /\ row'.evidence = row.evidence
        /\ row'.state = "running" /\ row'.phase = phase'
    BY <1>0, <1>1, <1>2, UpdatePhaseFields DEF ReportOk
  <2>q. QED BY <1>1, <2>1, RunningFrame
<1>3. CASE ReportFails(p)
  <2>1. row' = row /\ phase' = phase
    BY <1>3 DEF ReportFails
  <2>q. QED BY <1>1, <2>1, RunningFrame
<1>q. QED BY <1>2, <1>3

\* Every step of execute keeps the invariant.
LEMMA ExecuteSafe ==
    ASSUME IInv, TypeOK', Execute
    PROVE  IInv'
<1>0. /\ TypeOK /\ row \in Rows /\ now \in Nat /\ evidence \in Nat
      /\ ranWith \in Nat /\ starts \in [Ops -> Nat] /\ job.evidence \in Nat
  BY BoundsAssumption DEF IInv, TypeOK
<1>o. /\ pc \in Owning => /\ job.id = row.id /\ job.evidence = row.evidence
                          /\ row.state = "running" /\ row.phase = phase
      /\ pc \in Owning => job.id \in Ops /\ job.id \in accepted
  BY <1>0 DEF IInv, TypeOK, OwnsRow, RowShape
<1>a. ASSUME NEW S, S \subseteq {"not_attempted", "incompatible"}, Abandon(S)
      PROVE  /\ pc' = "skip_report"
             /\ res'.state \in {"not_attempted", "incompatible"}
             /\ ~res'.mayHaveChanged /\ res'.items = AllItems("not_attempted")
  BY <1>a DEF Abandon, WithoutRun, Goto
<1>1. CASE AcquireLease
  <2>1. RowShape' /\ StartsShape' /\ HonestRow'
    BY <1>1, StoreFrame DEF AcquireLease
  <2>2. OwnsRow'
    BY <1>1 DEF IInv, OwnsRow, Owning, Executing, AcquireLease, Goto, store
  <2>3. Progress'
    BY <1>1 DEF IInv, Progress, AcquireLease, Goto, native, NoResult, WithoutRun
  <2>4. LeaseShape' /\ HonestResult'
    BY <1>1 DEF IInv, LeaseShape, HonestResult, AcquireLease, Goto
  <2>q. QED BY <2>1, <2>2, <2>3, <2>4 DEF IInv
<1>2. CASE PrepareExecution
  <2>1. RowShape' /\ StartsShape' /\ HonestRow'
    BY <1>2, StoreFrame DEF PrepareExecution
  <2>2. OwnsRow'
    BY <1>2 DEF IInv, OwnsRow, Owning, Executing, PrepareExecution, Abandon,
                Goto, store
  <2>3. Progress'
    BY <1>2, <1>a DEF IInv, Progress, PrepareExecution, Abandon, Goto, native
  <2>4. LeaseShape' /\ HonestResult'
    BY <1>2 DEF IInv, LeaseShape, HonestResult, PrepareExecution, Abandon, Goto
  <2>q. QED BY <2>1, <2>2, <2>3, <2>4 DEF IInv
<1>3. CASE ConfirmExecution
  <2>1. RowShape' /\ StartsShape' /\ HonestRow'
    BY <1>3, StoreFrame DEF ConfirmExecution
  <2>2. OwnsRow'
    BY <1>3 DEF IInv, OwnsRow, Owning, Executing, ConfirmExecution, Abandon,
                Goto, store
  <2>3. Progress'
    <3>1. CASE Abandon({"not_attempted", "incompatible"})
      BY <1>3, <1>a, <3>1 DEF IInv, Progress, ConfirmExecution, Abandon, Goto, native
    <3>2. CASE evidence = job.evidence /\ Goto("report_executing")
      <4>1. job.evidence <= evidence
        BY <1>0, <3>2
      <4>q. QED BY <1>3, <3>2, <4>1 DEF IInv, Progress, ConfirmExecution, Goto, native
    <3>q. QED BY <1>3, <3>1, <3>2 DEF ConfirmExecution
  <2>4. LeaseShape' /\ HonestResult'
    BY <1>3 DEF IInv, LeaseShape, HonestResult, ConfirmExecution, Abandon, Goto
  <2>q. QED BY <2>1, <2>2, <2>3, <2>4 DEF IInv
<1>4. CASE SkipReport
  <2>1. /\ RowShape' /\ StartsShape' /\ HonestRow'
        /\ row'.id = row.id /\ row'.evidence = row.evidence
        /\ row'.state = "running" /\ row'.phase = phase'
    BY <1>4, ReportSafe DEF SkipReport, Owning, Executing, Phases
  <2>2. pc = "skip_report" /\ pc' = "skip_refresh" /\ job' = job
    BY <1>4 DEF SkipReport, Goto
  <2>3. OwnsRow'
    BY <1>o, <2>1, <2>2 DEF OwnsRow, Owning, Executing
  <2>4. Progress'
    BY <1>4 DEF IInv, Progress, SkipReport, Goto, native
  <2>5. LeaseShape' /\ HonestResult'
    BY <1>4 DEF IInv, LeaseShape, HonestResult, SkipReport, Goto
  <2>q. QED BY <2>1, <2>3, <2>4, <2>5 DEF IInv
<1>5. CASE SkipRefresh
  <2>1. RowShape' /\ StartsShape' /\ HonestRow'
    BY <1>5, StoreFrame DEF SkipRefresh
  <2>2. OwnsRow'
    BY <1>5 DEF IInv, OwnsRow, Owning, Executing, SkipRefresh, Goto, store
  <2>3. Progress'
    BY <1>5 DEF IInv, Progress, SkipRefresh, Goto, native
  <2>4. LeaseShape'
    BY <1>5 DEF IInv, LeaseShape, SkipRefresh, Goto
  <2>5. HonestResult'
    <3>1. /\ starts[job.id] = 0
          /\ res.state \in {"not_attempted", "incompatible"}
          /\ res.items = AllItems("not_attempted")
      BY <1>5 DEF IInv, Progress, SkipRefresh
    <3>2. /\ res'.state = res.state /\ res'.items = res.items
          /\ job' = job /\ starts' = starts
      BY <1>0, <1>5 DEF SkipRefresh, TypeOK, Results, native
    <3>q. QED BY <3>1, <3>2 DEF HonestResult, Honest, AllItems
  <2>q. QED BY <2>1, <2>2, <2>3, <2>4, <2>5 DEF IInv
<1>6. CASE ReportExecuting
  <2>1. /\ RowShape' /\ StartsShape' /\ HonestRow'
        /\ row'.id = row.id /\ row'.evidence = row.evidence
        /\ row'.state = "running" /\ row'.phase = phase'
    BY <1>6, ReportSafe DEF ReportExecuting, Owning, Executing, Phases
  <2>2. pc = "report_executing" /\ pc' \in {"run", "finish"} /\ job' = job
    BY <1>6 DEF ReportExecuting, Goto
  <2>3. OwnsRow'
    BY <1>o, <2>1, <2>2 DEF OwnsRow, Owning, Executing
  <2>4. Progress'
    BY <1>6 DEF IInv, Progress, ReportExecuting, ReportOk, Goto, native
  <2>5. LeaseShape'
    BY <1>6 DEF IInv, LeaseShape, ReportExecuting, Goto
  <2>6. HonestResult'
    BY <1>6 DEF HonestResult, Untrusted, ReportExecuting, ReportFails, Goto
  <2>q. QED BY <2>1, <2>3, <2>4, <2>5, <2>6 DEF IInv
<1>7. CASE BrokerRefuses
  <2>1. RowShape' /\ StartsShape' /\ HonestRow'
    BY <1>7, StoreFrame DEF BrokerRefuses
  <2>2. OwnsRow'
    BY <1>7 DEF IInv, OwnsRow, Owning, Executing, BrokerRefuses, Goto, store
  <2>3. starts[job.id] = 0 /\ touched = {}
    BY <1>7, <1>o DEF IInv, Progress, StartsShape, BrokerRefuses, Owning, Executing
  <2>4. Progress'
    BY <1>7, <2>3 DEF IInv, Progress, BrokerRefuses, NotStarted, Goto, native
  <2>5. LeaseShape' /\ HonestResult'
    BY <1>7 DEF IInv, LeaseShape, HonestResult, BrokerRefuses, Goto
  <2>q. QED BY <2>1, <2>2, <2>4, <2>5 DEF IInv
<1>s. ASSUME pc = "run", Started, UNCHANGED store
      PROVE  /\ RowShape' /\ StartsShape' /\ HonestRow'
             /\ starts'[job.id] = 1 /\ ranWith' = evidence
             /\ job.evidence <= evidence
  <2>1. /\ starts[job.id] = 0 /\ job.evidence <= evidence
        /\ job.id = row.id /\ row.state = "running" /\ job.id \in Ops
        /\ job.id \in accepted
    BY <1>o, <1>s DEF IInv, Progress, Owning, Executing
  <2>2. starts' = [starts EXCEPT ![job.id] = 1] /\ ranWith' = evidence
    BY <1>0, <1>s, <2>1 DEF Started
  <2>3. UNCHANGED <<row, accepted>>
    BY <1>s DEF store
  <2>4. RowShape' /\ HonestRow'
    BY <2>1, <2>3 DEF IInv, RowShape, HonestRow, Terminal, TerminalStates
  <2>5. StartsShape'
    BY <1>0, <2>1, <2>2, <2>3 DEF IInv, StartsShape
  <2>q. QED BY <1>0, <2>1, <2>2, <2>4, <2>5
<1>8. CASE BrokerStarts
  <2>1. /\ RowShape' /\ StartsShape' /\ HonestRow'
        /\ starts'[job.id] = 1 /\ ranWith' = evidence
        /\ job.evidence <= evidence
    BY <1>8, <1>s DEF BrokerStarts
  <2>2. OwnsRow'
    BY <1>8 DEF IInv, OwnsRow, Owning, Executing, BrokerStarts, Goto, store, local
  <2>3. Progress'
    BY <1>0, <1>8, <2>1 DEF IInv, Progress, BrokerStarts, Goto, local
  <2>4. LeaseShape' /\ HonestResult'
    BY <1>8 DEF IInv, LeaseShape, HonestResult, BrokerStarts, Goto
  <2>q. QED BY <2>1, <2>2, <2>3, <2>4 DEF IInv
<1>9. CASE BrokerStartUncertain
  <2>1. /\ RowShape' /\ StartsShape' /\ HonestRow'
        /\ starts'[job.id] = 1 /\ ranWith' = evidence
        /\ job.evidence <= evidence
    BY <1>9, <1>s DEF BrokerStartUncertain
  <2>2. OwnsRow'
    BY <1>9 DEF IInv, OwnsRow, Owning, Executing, BrokerStartUncertain, Goto, store
  <2>3. broker'.started = TRUE /\ broker'.changed = touched'
    BY <1>9 DEF BrokerStartUncertain
  <2>4. Progress'
    BY <1>0, <1>9, <2>1, <2>3 DEF IInv, Progress, BrokerStartUncertain, Goto
  <2>5. LeaseShape' /\ HonestResult'
    BY <1>9 DEF IInv, LeaseShape, HonestResult, BrokerStartUncertain, Goto
  <2>q. QED BY <2>1, <2>2, <2>4, <2>5 DEF IInv
<1>10. CASE BrokerEnds
  <2>1. starts[job.id] = 1 /\ job.id = row.id /\ row.state = "running"
    BY <1>10, <1>o DEF IInv, Progress, BrokerEnds, Owning
  <2>2. RowShape' /\ StartsShape' /\ HonestRow'
    BY <1>10, <2>1 DEF IInv, RowShape, StartsShape, HonestRow, Terminal,
                       TerminalStates, BrokerEnds, store
  <2>3. OwnsRow'
    BY <1>10 DEF IInv, OwnsRow, Owning, Executing, BrokerEnds, Goto, store
  <2>4. broker'.started = TRUE /\ broker'.changed = touched'
    BY <1>10 DEF BrokerEnds
  <2>5. Progress'
    BY <1>10, <2>1, <2>4 DEF IInv, Progress, BrokerEnds, Goto
  <2>6. LeaseShape' /\ HonestResult'
    BY <1>10 DEF IInv, LeaseShape, HonestResult, BrokerEnds, Goto
  <2>q. QED BY <2>2, <2>3, <2>5, <2>6 DEF IInv
<1>11. CASE ReportRefreshing
  <2>1. /\ RowShape' /\ StartsShape' /\ HonestRow'
        /\ row'.id = row.id /\ row'.evidence = row.evidence
        /\ row'.state = "running" /\ row'.phase = phase'
    BY <1>11, ReportSafe DEF ReportRefreshing, Owning, Executing, Phases
  <2>2. pc = "report_refreshing" /\ pc' = "refresh" /\ job' = job
    BY <1>11 DEF ReportRefreshing, Goto
  <2>3. OwnsRow'
    BY <1>o, <2>1, <2>2 DEF OwnsRow, Owning, Executing
  <2>4. Progress'
    BY <1>11 DEF IInv, Progress, ReportRefreshing, Goto, native
  <2>5. LeaseShape' /\ HonestResult'
    BY <1>11 DEF IInv, LeaseShape, HonestResult, ReportRefreshing, Goto
  <2>q. QED BY <2>1, <2>3, <2>4, <2>5 DEF IInv
<1>12. CASE RefreshAndClassify
  <2>1. RowShape' /\ StartsShape' /\ HonestRow'
    BY <1>12, StoreFrame DEF RefreshAndClassify
  <2>2. OwnsRow'
    BY <1>12 DEF IInv, OwnsRow, Owning, Executing, RefreshAndClassify, Goto, store
  <2>3. Progress'
    BY <1>12 DEF IInv, Progress, RefreshAndClassify, Goto, native
  <2>4. LeaseShape'
    BY <1>12 DEF IInv, LeaseShape, RefreshAndClassify, Goto
  <2>5. HonestResult'
    <3>1. Honest(res'.state, res'.mayHaveChanged, res'.items, job.id, job.evidence)
      BY <1>12, ClassificationHonest DEF RefreshAndClassify
    <3>2. UNCHANGED <<job, native>>
      BY <1>12 DEF RefreshAndClassify
    <3>q. QED BY <3>1, <3>2 DEF HonestResult, Honest, native
  <2>q. QED BY <2>1, <2>2, <2>3, <2>4, <2>5 DEF IInv
<1>13. CASE PersistResult
  <2>0. /\ pc = "finish" /\ UNCHANGED native
        /\ job.id = row.id /\ job.evidence = row.evidence
        /\ row.state = "running"
    BY <1>13, <1>o DEF PersistResult, Owning
  <2>1. CASE /\ Untrusted /\ UNCHANGED local
             /\ Persist(FinishUncertain(row, "ambiguous", now), "reconcile")
    <3>1. /\ row' = FinishUncertain(row, "ambiguous", now) /\ pc' = "reconcile"
          /\ UNCHANGED <<accepted, lease, enq, evidence, job>>
      BY <2>1 DEF Persist, Goto, local
    <3>2. /\ RowShape' /\ StartsShape' /\ HonestRow'
          /\ PendingReconciliation(row)' /\ row'.id = row.id
      BY <2>0, <3>1, UncertainRow DEF UncertainStates
    <3>3. OwnsRow'
      BY <2>0, <3>1, <3>2 DEF OwnsRow, Owning, Executing
    <3>4. Progress'
      BY <2>0, <3>1 DEF IInv, Progress, native
    <3>5. LeaseShape' /\ HonestResult'
      BY <3>1 DEF IInv, LeaseShape, HonestResult
    <3>q. QED BY <3>2, <3>3, <3>4, <3>5 DEF IInv
  <2>2. CASE /\ ~Untrusted /\ NoLocals
             /\ Persist(Finish(row, res, now), "idle")
    <3>1. /\ row' = Finish(row, res, now) /\ pc' = "idle"
          /\ UNCHANGED <<accepted, lease, enq, evidence>>
      BY <2>2 DEF Persist, Goto
    <3>2. /\ row'.id = row.id /\ row'.evidence = row.evidence
          /\ row'.state = res.state /\ row'.mayHaveChanged = res.mayHaveChanged
          /\ row'.items = res.items
      BY <1>0, <3>1, FinishFields
    <3>3. res.state \notin {"none", "queued"}
      BY <1>0 DEF TypeOK, Results, TerminalStates
    <3>4. RowShape' /\ StartsShape'
      BY <2>0, <3>1, <3>2, <3>3 DEF IInv, RowShape, StartsShape, native
    <3>5. HonestRow'
      BY <2>0, <2>2, <3>2 DEF IInv, HonestResult, HonestRow, Honest, native
    <3>6. OwnsRow' /\ LeaseShape' /\ HonestResult'
      BY <3>1 DEF IInv, OwnsRow, Owning, Executing, LeaseShape, HonestResult
    <3>7. Progress'
      BY <2>0, <3>1 DEF IInv, Progress, native
    <3>q. QED BY <3>4, <3>5, <3>6, <3>7 DEF IInv
  <2>3. CASE Fatal
    BY <2>3, ExitFrame DEF Fatal
  <2>q. QED BY <1>13, <2>1, <2>2, <2>3 DEF PersistResult, Rejected
<1>q. QED
  BY <1>1, <1>2, <1>3, <1>4, <1>5, <1>6, <1>7, <1>8, <1>9, <1>10, <1>11, <1>12,
     <1>13 DEF Execute

\* Every step of reconcile keeps the invariant.
LEMMA ReconcileSafe ==
    ASSUME IInv, TypeOK', Reconcile
    PROVE  IInv'
<1>0. row \in Rows /\ now \in Nat /\ res \in Results
  BY BoundsAssumption DEF IInv, TypeOK
<1>1. CASE ReconcileAcquire \/ ReconcileRefresh
  <2>1. /\ pc \in {"reconcile", "reconciling"} /\ pc' \in {"reconciling", "reconciled"}
        /\ UNCHANGED <<store, native, job, evidence, enq>>
    BY <1>1 DEF ReconcileAcquire, ReconcileRefresh, Goto
  <2>2. RowShape' /\ StartsShape' /\ HonestRow'
    BY <2>1, StoreFrame
  <2>3. OwnsRow'
    BY <2>1 DEF IInv, OwnsRow, Owning, Executing, PendingReconciliation, Pending,
                store
  <2>4. Progress'
    BY <2>1 DEF IInv, Progress, native
  <2>5. HonestResult'
    BY <2>1 DEF HonestResult
  <2>6. LeaseShape'
    BY <1>1 DEF IInv, LeaseShape, ReconcileAcquire, ReconcileRefresh, Goto
  <2>q. QED BY <2>2, <2>3, <2>4, <2>5, <2>6 DEF IInv
<1>2. CASE ReconcilePersist
  <2>1. CASE /\ MayReconcile(row, job.id) /\ NoLocals
             /\ Persist(CompleteReconciliation(row, res.inventory, now), "idle")
    <3>1. /\ row' = CompleteReconciliation(row, res.inventory, now)
          /\ pc' = "idle" /\ UNCHANGED <<accepted, lease, enq, evidence, native>>
      BY <1>2, <2>1 DEF ReconcilePersist, Persist, Goto
    <3>2. /\ row'.id = row.id /\ row'.evidence = row.evidence
          /\ row'.state = row.state /\ row'.items = row.items
          /\ row'.mayHaveChanged = row.mayHaveChanged
      BY <1>0, <3>1, CompleteReconciliationFields DEF Results, InventoryStates
    <3>3. RowShape' /\ StartsShape' /\ HonestRow'
      BY <3>1, <3>2 DEF IInv, RowShape, StartsShape, HonestRow, Honest, Terminal,
                        native
    <3>4. OwnsRow' /\ LeaseShape' /\ HonestResult'
      BY <3>1 DEF IInv, OwnsRow, Owning, Executing, LeaseShape, HonestResult
    <3>5. Progress'
      BY <3>1 DEF IInv, Progress, native
    <3>q. QED BY <3>3, <3>4, <3>5 DEF IInv
  <2>2. CASE Fatal
    BY <2>2, ExitFrame DEF Fatal
  <2>q. QED BY <1>2, <2>1, <2>2 DEF ReconcilePersist, Rejected
<1>q. QED BY <1>1, <1>2 DEF Reconcile

\* The empty store satisfies the invariant.
LEMMA InitSafe == Init => IInv
<1> SUFFICES ASSUME Init PROVE IInv
  OBVIOUS
<1>1. TypeOK
  BY InitType
<1>2. /\ row.state = "none" /\ row.id = NoOp /\ pc = "down" /\ enq = NoEnq
      /\ evidence = 1 /\ ranWith = 0 /\ touched = {}
      /\ starts = [o \in Ops |-> 0]
  BY DEF Init, NoRow
<1>3. RowShape /\ StartsShape
  BY <1>2 DEF RowShape, StartsShape
<1>4. OwnsRow /\ Progress /\ LeaseShape /\ HonestResult
  BY <1>2 DEF OwnsRow, Owning, Executing, Progress, LeaseShape, HonestResult, NoEnq
<1>5. HonestRow
  BY <1>2 DEF HonestRow, Terminal, TerminalStates
<1>q. QED BY <1>1, <1>3, <1>4, <1>5 DEF IInv

\* Every step, and every stuttering step, keeps the invariant.
LEMMA NextSafe ==
    ASSUME IInv, [Next]_vars
    PROVE  IInv'
<1>1. TypeOK'
  BY NextType DEF IInv
<1>2. CASE Next
  BY <1>1, <1>2, RequestsSafe, LifetimeSafe, ExecuteSafe, ReconcileSafe
     DEF Next, Worker
<1>3. CASE UNCHANGED vars
  <2>1. UNCHANGED <<store, native, pc, local, evidence, lease, enq>>
    BY <1>3 DEF vars, store, native, local
  <2>2. LeaseShape'
    BY <2>1 DEF IInv, LeaseShape
  <2>3. evidence' \in Nat /\ evidence' >= evidence
    BY <2>1, BoundsAssumption DEF IInv, TypeOK
  <2>q. QED BY <1>1, <2>1, <2>2, <2>3, StoreFrame, WorkerFrame DEF IInv
<1>q. QED BY <1>2, <1>3

\* The invariant holds in every reachable state.
THEOREM Invariance == Spec => []IInv
BY InitSafe, NextSafe, PTL DEF Spec

(* What the invariant gives.                                               *)

\* Lego is started at most once for an operation, whatever crashes, stops,
\* failed writes and clock steps fall between Claim and recovery.
THEOREM StartedAtMostOnce == Spec => []AtMostOneStart
<1>1. IInv => AtMostOneStart
  BY DEF IInv, StartsShape, AtMostOneStart
<1>q. QED BY <1>1, Invariance, PTL

\* A stored result that denies a start is true.
THEOREM DenialsAreTrue == Spec => []DenialIsTrue
<1>1. IInv => DenialIsTrue
  BY DEF IInv, HonestRow, Honest, DenialIsTrue
<1>q. QED BY <1>1, Invariance, PTL

\* A stored success was one run of lego against the reviewed workspace.
THEOREM SuccessesRanReviewed == Spec => []SuccessRanReviewed
<1>1. IInv => SuccessRanReviewed
  BY DEF IInv, HonestRow, Honest, SuccessRanReviewed, Terminal, TerminalStates
<1>q. QED BY <1>1, Invariance, PTL

\* Stored certificate rows follow native evidence.
THEOREM RowsFollowEvidence == Spec => []ItemsFollowEvidence
<1>1. IInv => ItemsFollowEvidence
  BY DEF IInv, HonestRow, Honest, ItemsFollowEvidence
<1>q. QED BY <1>1, Invariance, PTL

\* While lego runs the row says so and the worker holds the lease.
THEOREM RunsAreCovered == Spec => []NativeCovered
<1>1. IInv => NativeCovered
  BY DEF IInv, OwnsRow, Owning, Progress, LeaseShape, NativeCovered
<1>q. QED BY <1>1, Invariance, PTL

\* One step never replaces an unpublished operation and never rewrites a
\* published one.
LEMMA PublishedStep ==
    ASSUME IInv, [Next]_vars, row' # row
    PROVE  /\ row'.id # row.id => row.state = "none" \/ Published(row)
           /\ Published(row) => row'.id # row.id
<1>0. row \in Rows /\ now \in Nat /\ res \in Results /\ accepted \in SUBSET Ops
  BY BoundsAssumption DEF IInv, TypeOK
<1>1. ASSUME row'.id = row.id, ~Published(row)
      PROVE  /\ row'.id # row.id => row.state = "none" \/ Published(row)
             /\ Published(row) => row'.id # row.id
  BY <1>1
<1>2. row.state = "running" => ~Published(row)
  BY DEF Published, Terminal, TerminalStates
<1>3. CASE Environment \/ Preview \/ EnqueuePrepare \/ \E k \in Kinds : EnqueueBegin(k)
  BY <1>3 DEF Environment, Tick, ClockBack, OtherAcquire, OtherRelease,
              ExternalChange, Preview, EnqueuePrepare, EnqueueBegin, store
<1>4. CASE EnqueueCommit
  <2>1. PICK o \in Ops \ accepted :
          row' = EnqueueKind(o, enq.kind, enq.evidence, now)
    BY <1>4 DEF EnqueueCommit, store
  <2>2. row'.id = o
    BY <2>1 DEF EnqueueKind
  <2>3. row.id # o
    BY <2>1, OpsAssumption DEF IInv, RowShape
  <2>4. row.state = "none" \/ Published(row)
    BY <1>0, <1>4, <2>1
       DEF EnqueueCommit, store, MayEnqueue, Active, Published, Terminal, Rows
  <2>q. QED BY <2>2, <2>3, <2>4
<1>5. CASE Restart \/ Failures \/ WorkerStops \/ RecoverPending
  BY <1>5 DEF Restart, Failures, Crash, StopRequested, StoreFails, ExecutorPanics,
              WorkerStops, RecoverPending, Fatal, store
<1>6. CASE RecoverInterrupt
  <2>1. row.state = "running" /\ row' = InterruptRunning(row, now)
    BY <1>6 DEF RecoverInterrupt, Persist, Rejected, Fatal, store
  <2>2. row'.id = row.id
    BY <1>0, <2>1, FinishUncertainFields DEF InterruptRunning, UncertainStates
  <2>q. QED BY <1>1, <1>2, <2>1, <2>2
<1>7. CASE ClaimQueued
  <2>1. row.state = "queued" /\ row' = Claim(row, now)
    BY <1>7 DEF ClaimQueued, MayClaim, Persist, Rejected, Fatal, store
  <2>2. row'.id = row.id
    BY <1>0, <2>1, ClaimFields
  <2>q. QED BY <1>1, <2>1, <2>2 DEF Published, Terminal, TerminalStates
<1>8. CASE SkipReport \/ ReportExecuting \/ ReportRefreshing
  <2>1. PICK p \in Phases : ReportOk(p) \/ ReportFails(p)
    BY <1>8 DEF SkipReport, ReportExecuting, ReportRefreshing, Phases
  <2>2. row.state = "running" /\ row' = UpdatePhase(row, p, now)
    BY <2>1 DEF ReportOk, ReportFails, MayUpdatePhase
  <2>3. row'.id = row.id
    BY <1>0, <2>2, UpdatePhaseFields
  <2>q. QED BY <1>1, <1>2, <2>2, <2>3
<1>9. CASE PersistResult
  <2>1. /\ row.state = "running"
        /\ \/ row' = FinishUncertain(row, "ambiguous", now)
           \/ row' = Finish(row, res, now)
    BY <1>9 DEF PersistResult, MayFinish, Persist, Rejected, Fatal, store
  <2>2. row'.id = row.id
    <3>1. CASE row' = FinishUncertain(row, "ambiguous", now)
      BY <1>0, <3>1, FinishUncertainFields DEF UncertainStates
    <3>2. CASE row' = Finish(row, res, now)
      BY <1>0, <3>2, FinishFields
    <3>q. QED BY <2>1, <3>1, <3>2
  <2>q. QED BY <1>1, <1>2, <2>1, <2>2
<1>10. CASE ReconcilePersist
  <2>1. /\ PendingReconciliation(row)
        /\ row' = CompleteReconciliation(row, res.inventory, now)
    BY <1>10 DEF ReconcilePersist, MayReconcile, Persist, Rejected, Fatal, store
  <2>2. row'.id = row.id
    BY <1>0, <2>1, CompleteReconciliationFields DEF Results, InventoryStates
  <2>q. QED BY <1>1, <2>1, <2>2 DEF PendingReconciliation, Published
<1>11. CASE AcquireLease \/ PrepareExecution \/ ConfirmExecution \/ SkipRefresh
            \/ BrokerRefuses \/ BrokerStarts \/ BrokerStartUncertain \/ BrokerEnds
            \/ RefreshAndClassify \/ ReconcileAcquire \/ ReconcileRefresh
  BY <1>11 DEF AcquireLease, PrepareExecution, ConfirmExecution, SkipRefresh,
               BrokerRefuses, BrokerStarts, BrokerStartUncertain, BrokerEnds,
               RefreshAndClassify, ReconcileAcquire, ReconcileRefresh, store
<1>12. CASE UNCHANGED vars
  BY <1>12 DEF vars
<1>q. QED
  BY <1>3, <1>4, <1>5, <1>6, <1>7, <1>8, <1>9, <1>10, <1>11, <1>12
     DEF Next, Requests, Worker, Execute, Reconcile

\* A published result never changes, and nothing unpublished is replaced.
THEOREM PublishedStays == Spec => PublishedIsFinal
<1>1. ASSUME IInv, [Next]_vars
      PROVE  [/\ row'.id # row.id => row.state = "none" \/ Published(row)
              /\ Published(row) /\ row'.id = row.id => row' = row]_vars
  BY <1>1, PublishedStep
<1>q. QED BY <1>1, Invariance, PTL DEF Spec, PublishedIsFinal
=============================================================================
