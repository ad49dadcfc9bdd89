# AcmeMux: a verification project in TLA+

AcmeMux is a control plane for one `lego` executable and one native workspace:
an HTTP service with one administrator, a durable worker that runs `lego`, a
daily schedule, an editor for the native files, and one SQLite database. This
directory models the parts of it that keep state and are hard to test, checks
them with TLC on small instances, and proves the most important properties with
TLAPS for every value of the constants.

Contents: [the system](#the-system), [the modules](#the-modules),
[runs](#runs-and-bounds), [fairness](#fairness), [proofs](#proofs),
[findings](#where-code-and-documentation-disagree),
[not modelled](#not-modelled), [plan](#plan).

## The system

| Part | State it keeps | Operations | Hard because of |
| --- | --- | --- | --- |
| `internal/jobs` store and worker | one durable operation row | enqueue, claim, update phase, finish, interrupt, reconcile | process end at any instant, failed writes, clock steps |
| `internal/operation` | the enqueue mutex; nothing durable | preview, enqueue, execute, reconcile | host programs change files between review and run |
| `internal/broker` | the running process tree | run | deadline, output limit and exit race; descendants detach, pids are reused |
| `internal/workspace` coordinator | one lease (channel gate and file lock) | acquire, try, release | everybody waits on it |
| `internal/workspace` transactions | journal rows; staged, active and displaced files | commit, inspect and resolve recovery | power failure between file-system calls, other writers |
| `internal/workspace` adoption | the selected workspace and its evidence | review, adopt, finalise | evidence goes stale |
| `internal/scheduler` | one schedule row | save, claim, complete, release, recover | two database transactions per trigger, time zones |
| `internal/identity`, `cmd/acmemux/admin.go` | administrator and session rows | sign in, validate, rotate, sign out, reset, revoke | requests and another process interleave on rows read earlier |
| `internal/httpapi` | login limiter; otherwise stateless | endpoints | limits and clock |
| `internal/configuration` | the key of its review tokens | view, preview, save, create, resolve | tabs, host programs and restarts between review and save |
| `nativeconfig`, `integrations`, `dotenv` | nothing | render, edit, validate | sequential |
| `internal/runtime`, `compatibility` | the selected executable, one inspection gate | review, select, prepare | replacement between review and start; a busy gate is an error |
| `internal/inventory`, `reporting` | nothing | read certificates, classify health | the tree changes during the read |
| `internal/state`, `appconfig`, `supervisor`, `redaction` | the database file | migrate, parse, notify, redact | start-up only |

How they interact. The HTTP service, the schedule loop and the worker are
goroutines of one process over one database connection, so that a transaction
is one step and everything between two transactions can interleave. The
administrator command is a second process on the same database. All work on
native files is done under the workspace lease. An accepted request becomes the
operation row; the worker claims it, takes the lease, prepares the execution
twice, runs `lego` through the broker, reads the inventory and stores a result.
The schedule loop enqueues through the same service; at start it learns from the
worker whether an operation had been interrupted. An edit holds the lease from
staging to the final selection. Host programs obey none of this: they may change
a file at any time.

What makes each part correct:

- operations: `lego` is started at most once per accepted operation, a stored
  result never denies or invents what happened, every accepted operation gets
  one final result;
- edits: no power failure leaves a broken active file, nobody's work is lost,
  an interrupted edit is recognised for what it is and can be resolved;
- schedule: a day runs once, a claim never blocks later days, a due evaluation
  is answered;
- sessions: none survives a reset or a revocation, rotation refuses nobody who
  came in time, a sign-out ends the session, cleanup never hits another session;
- native processes: every run is answered, a success left nothing to kill, and
  the exit status of another command is never taken;
- reviews: what takes effect is what the administrator was shown, an interrupted
  edit is resolved before anything else is adopted, and a revocation is prompt.

`PROJECT.json` lists every component with what is left out of it, and every
hazard with the properties aimed at it.

## The modules

### JobStore, Execution, OperationWorker, OperationLifecycle

`JobStore` is `jobs/store.go`: the row as a record, each transaction as an
operator on it (`EnqueueKind`, `Claim`, `UpdatePhase`, `Finish`,
`InterruptRunning`, `CompleteReconciliation`) and `Validate`, the check that
every reload performs before the transaction commits. `Execution` is the pure
part of `operation/executor.go`: from the broker's answer, the inventory and the
intactness of the evidence to the stored result and its certificate rows.

`OperationWorker` is the rest. `pc` is the place of the worker goroutine between
two calls that others can observe; `enq` is the request inside the enqueue
mutex; `evidence` is the version of everything a review digests. Both
preparations compare versions, and the broker may start with a version newer
than the confirmed one, because a host program can change a file after the
confirmation. Faults are a process end, a graceful stop, a failed store call, a
panic of the executor and a backward step of the wall clock. `UpdatePhase` is
the one transaction that does not reload its row, so it can commit instants
that later readers refuse: `ClockHeals` is about that.

`OperationLifecycle` is what the service promises of an operation with no
worker, clock, lease or restart in sight: accepted, claimed, perhaps started
once, then concluded, or doubted and settled. `RefinesLifecycle` maps the row to
it (`StageOf`, `VerdictOf`).

### EditTransaction

`transaction_commit_linux.go`, `journal.go`, `recovery_linux.go` and the
transaction part of `bootstrap_linux.go`, one file-system call or journal
transaction per step. A path has three names in its directory: the target, the
stage, and the quarantine name used before removal. Files are inodes with a
content and a stamp that stands for the change time; `disk` is what a power
failure would leave of each directory. The order is that of the code: the
journal, stages, recorded candidates, a second check of all sources and the
session guard; then for each file the exchange of target and stage, verification
with a rollback when the displaced file is not the reviewed one or cannot be
read, the recorded and synchronised placement and the removal of the displaced
original (scrubbed, then unlinked); then the final inspection and the selection.
Recovery classifies by identity only and offers discard, finalise and adopt,
each with its repeated readings. A call or a reading that fails is a fault like a
crash, and takes the code's error path at that place.

One of these paths needs no other program: when the displaced original cannot be
read, commit exchanges it back and clears the journal. The edit then happened to
no file, but the exchanges moved the change time of the original, and the stored
selection fails verification until the workspace is reviewed again. `restored` is
history, that this edit exchanged a file back: `AllOrNothing` asks the selection
to verify unless it did, and to name exactly the active files, all with the bytes
of one version, in any case.

`FsyncOrders` is an assumption on the file system: synchronising a file also
makes its earlier renames durable, as common journaling file systems do;
`docs/workspace-adoption.md` asks to avoid file systems with unusual rename or
synchronisation behaviour. All runs assume it. With `FALSE`,
recovery can scrub a displaced original before the exchange is durable, and a
second power failure leaves the scrubbed file as the active one; commit is not
affected (`DestroyedAfterApplied` asks for the durable state itself).

### Scheduler

`internal/scheduler`. Time is an instant; a zone is any function from instants
to local minutes, so gaps and repetitions need no rules of their own.
`OccurrenceOnDate` and `NextOccurrence` follow `calculate.go`, `row` is the
schedule row, `pc` the loop; claim, enqueue and settlement are three steps with
crashes between them. The lease and the worker are reduced to what the schedule
can tell apart: `editing`, `operation` and `broken`.

### IdentitySessions

`identity/session.go`, `identity/service.go`, the identity endpoints and the
administrator commands. One SQL statement or transaction is one step. `proc[p]`
is a request with the row it has read; `admin.epoch` stands for the verifier as
well, because each stored verifier comes with a new epoch; `csrf` identifies a
session over its rotations. Row ids are reused as SQLite reuses them. `age` and
`lag` are history: `age` is how long a request has been under way, `lag` the
longest time between the clock reading of a rotation and its storing, which the
grace period of the rotated token loses. A request is in time while both together
are shorter than the grace period (`InTime`). The assumption `2 * PreviousGrace <= RotationAfter` holds for the
production values (30 seconds, 15 minutes); `options.go` does not enforce it.
A login refused by the limiter is a login that does not start. Left out: the
sign-out that follows when the cookies cannot be set, which happens only if the
session passed its absolute end after the validation read the clock; it removes a
row that has expired.

### BrokerProcess

`internal/broker` for one run: `Runner.Run` (`main`), the goroutine of `os/exec`
that watches the context (`watch`), the `processController` (`ctl`, `seq`) and
the kernel's process table (`table`), in which a pid is handed out again once it
is reaped and a start time never is. Processes of the tree fork, leave the
process group or clean their environment (`bond`), exit and are inherited by the
service, which is their subreaper; another command of the service is there too.
`Discover` and `Walk` are the two halves of a scan, `Terminate`, `GraceExpires`,
`Kill` and `ForcedExpires` the termination sequence, `WaitLeader` to `Finish` the
wait of `os/exec`, `ReapGuardedOrphans` the final reaping, `Outcome` the result.
`Lineage` is what the breadth-first walk over children reaches: the least set that
holds the seeds and the children of its running members. `Outcome` tests its
conditions in the order of the code, the first one that holds decides.

Any read of procfs may fail: each half of a scan has its own set of processes that
cannot be read (`Unreadable`), and a target that cannot be read is not counted as
alive (`FoundAlive`). Nearly every such failure makes the end uncertain, and the
outcome ambiguous. The exception is in `discoverGuardedOrphans`: an inherited child
that the controller has not seen yet is skipped without a trace when its stat or
its environment cannot be read or the environment is too large, since it may belong
to another command. `unseen` records the orphans that the last scan could not see,
for this reason or because they lost their parent during it; `UnseenOrphansOnly`
says that no other marked orphan is left running after a result that is not
ambiguous (save one that has the leader's pid, which the scan skips).

Abstractions: the periodic tracker scans in one step and the two scans before
SIGTERM are one; the pipes may end at any time once their holders are gone, and the delay of `os/exec` may fire
before. What a process with a cleaned environment and its own session does is
outside every claim, as in the code.

### Reviews

The pages of the browser and what is behind them: `httpapi/runtime.go`,
`httpapi/workspace.go`, `httpapi/configuration.go`, `configuration/service.go`,
`operations.go`, `creation.go`, `token.go`, `internal/runtime`, adoption in
`internal/workspace`, and the stable read of `internal/inventory`. A handler is
the sequence of its steps (`adoptRuntime`, `getWorkspace`, `saveService` and so
on, listed in `Program`), and `run[t]` is the request of tab `t` with its locals
and its place; one step is one call that another actor can tell apart. Evidence
is a version: of the executable (`exe`), the workspace files (`files`) and the
certificate storage (`storage`). `rsel`, `sel` and `journal` are the database,
`lease` the workspace lease, `gate` the runtime Inspector, which refuses a
second inspection, `boot` the key of the tokens and the manifests of a release.
`held[t]` is the review a tab was shown; a request can only name that one, since
nobody can make up a fingerprint. `late` is history: orders that took effect
after a revocation.

Every step can fail (`Fault`), and a refused edit may fail to remove its journal.
`MaxEvents` bounds host changes, revocations and restarts together. Abstractions:
an inspection of the workspace is one reading (its repeated readings are in
`EditTransaction`); loading the runtime selection and opening the executable are
one step, as are authorising and decoding a request; an activation is complete,
partial or not begun, and a partial one is a version of its own; the files that
cannot be adopted are the absent ones; which candidates are valid is a choice; a
tab stays on one page.

### MC modules and proof modules

`MCOperationWorker`, `MCEditTransaction`, `MCScheduler`, `MCIdentitySessions`,
`MCBrokerProcess` and `MCReviews` add symmetry sets, zone tables, manifests and
pages. `OperationWorkerProofs`, `OperationWorkerRefinement`, `SchedulerProofs`,
`IdentitySessionsProofs`, `ReviewsProofs`, `BrokerProcessProofs`,
`EditTransactionProofs` and `EditTransactionSafety` hold the theorems. A definition marked "Mutant" in a module is the plausible bug that
`PROJECT.json` uses to show that a property can fail; nothing else refers to it.

## Runs and bounds

| Run | Checks | Bounds and why they are enough |
| --- | --- | --- |
| `worker_results` | `DenialIsTrue`, `SuccessRanReviewed`, `ItemsFollowEvidence`, `PublishedIsFinal`, `RefinesLifecycle` | two operations, so that one can follow another's remains; two certificates, so that they can differ; two versions of the workspace; one fault |
| `worker_liveness` | `TypeOK`, `AtMostOneStart`, `NativeCovered`, `ClockHeals`, `AcceptedIsPublished` | one operation, two instants, two faults: a fault during the recovery from the first |
| `edit_safety` | `TypeOK`, `ExternalWorkKept`, `ActiveFilesWhole`, `ClassificationTrue`, `StagesJournaled`, `AllOrNothing`, `RecoveryKeepsActive`, `DestroyedAfterApplied` | creation of two files and a following edit of both, two saves by other programs, two faults (3.7 million states); a failed read is a fault, so that a rollback can be followed by a crash |
| `edit_recovery` | `RecoveryResolves` | all reviewed files edited, one save, two faults |
| `schedule` | `TypeOK`, `NoStuckClaim`, `OncePerLocalDate`, `NoOccurrenceTwice`, `NextIsEarliest`, `DueIsAnswered` | three-minute days, a zone with a skipped and a repeated minute, one where midnight is repeated; two saves, one other use, one backward step, one fault |
| `sessions` | `TableOK`, `SessionsAreCurrent`, `RotationKeepsRequests`, `SignOutEnds`, `StrangersKept` | two concurrent requests and the administrator command, session limit one so that each login evicts, a life of four ticks with idle, rotation and grace inside it, one backward step |
| `broker` | `TypeOK`, `SuccessIsClean`, `UnseenOrphansOnly`, `SiblingsKept`, `RunEnds` | two pids and three processes, so that a pid is reused and a child is orphaned beside the leader or replaced by a foreign command; any processes unreadable in any scan |
| `reviews` | `TypeOK`, `ChangesAsReviewed`, `RecoveryFirst`, `RevocationBound`, `ReadyIsCoherent` | two tabs on any two pages (but not one editing and one creating a workspace), two changes to choose from, three versions of the files, two executables, four starts of the service with equal, other and dropped manifests; one host change, revocation or restart anywhere; every step may fail |

Four further runs are expected to be violated; see the findings. Deadlock is
checked where the configuration does not say otherwise: an edit service and tabs
that wait for the next request may stop, and so does a broker whose run returned.

A stale review needs two tabs or a tab and one host change; each property of
`Reviews` relates one order to whatever came in between, and a third tab adds no
new pair of steps.

Two processes are what the identity hazards need, each being a race of one
statement with another; a third request adds no new pair. Two faults are what
recovery hazards need: the fault, and a fault of the recovery.

## Fairness

- Operations (`OperationWorker!Fairness`): goroutines run, the unit is restarted
  by systemd, time passes, other lease holders and requests end (each has a
  deadline). The wait of the reconciliation for the lease is strongly fair: the
  gate is a one-slot channel and the Go runtime serves blocked senders in order.
  No fairness is assumed of requests or faults, and faults are bounded.
- Edits (`EditTransaction!Fairness`): a call that holds the lease goes on; the
  administrator keeps trying the offered resolutions and removes the stage files
  that the recovery page names; the session guard and the validator do not
  refuse for ever.
- Schedule (`Scheduler!Fairness`): the process is restarted, its loop, the
  worker and edits go on. The clock need not move.
- Broker (`BrokerProcess!Fairness`): goroutines run, timers fire, a process sent
  SIGKILL ends, and the pipes are drained once no process of the tree runs. The
  timers are strongly fair, because the poll of the living processes can come
  between them and their expiry any number of times. Nothing is assumed of
  processes that ignore SIGTERM or keep forking within the bound.
- Sessions and reviews: only safety is stated.

## Proofs

**OperationWorker.** `OperationWorkerProofs` proves `Spec => []TypeOK`,
then the inductive invariant `IInv` and from it
`AtMostOneStart`, `DenialIsTrue`, `SuccessRanReviewed`, `ItemsFollowEvidence`,
`NativeCovered` and `PublishedIsFinal`. None of these is inductive: they speak
of stored results, and what makes a result true was decided many steps earlier.
`IInv` adds who owns the row (`OwnsRow`: the worker inside `execute` has exactly
the running row, in the phase it reported), how far the executor is and so how
often `lego` can have been started (`Progress`, `StartsShape`), whose the lease
is (`LeaseShape`), and that a result in hand is honest as well as a stored one
(`HonestResult`, `HonestRow`). The successes rest on an inequality: the version
a run started with is at least the confirmed one and at most the current one, so
an unchanged version at the end squeezes it. `OperationWorkerRefinement` proves
that every step of the worker is a step of `OperationLifecycle` or leaves it
unchanged, and `ClockHeals` from `RowReadable`.
Assumptions: the constants are natural numbers, `NoOp` and `NoItem` are not
operations or certificates.

**Scheduler.** `SchedulerProofs` proves `TypeOK`, `NoStuckClaim`,
`OncePerLocalDate` and `NoOccurrenceTwice` from one inductive invariant, for
every zone table. `ClaimHeld` says that the loop's claim is the durable one and
later than the last recorded date; `AcceptedIsLast` that an accepted answer
belongs to the last accepted operation, which settlement then records;
`RecordedDates` that the stored date bounds all recorded ones; `Ordered` that
without clock steps everything accepted lies behind the claim and behind the
next evaluation. `LeastIsLeast` gives the minimum of a set of instants by
well-founded induction, and `NextAhead` that a calculated occurrence lies ahead.

**IdentitySessions.** `IdentitySessionsProofs` proves `TableOK`,
`SessionsAreCurrent`, `RotationKeepsRequests`, `SignOutEnds` and `StrangersKept`
for any number of concurrent requests and every policy. The two properties about
rotation say that a token which was current when a request came still leads to
its session when the request is answered; what makes this true is spread over all
the requests that may rotate it meanwhile. The invariant therefore has a part for
the table (ids, CSRF tokens and session tokens each identify a session, and none
is ahead of the tokens handed out), and a part for each handler: the row it has
read is that of the session which still goes by the token (`Agrees`), its clock
reading is not ahead of the clock (`StampOK`), and a token that was current at
its start is current or covered by its grace period (`Covered`). Assumptions: the
production relations between lifetimes, rotation and grace.

**Reviews.** `ReviewsProofs` proves `TypeOK`, `RevocationBound`,
`ReadyIsCoherent`, `RecoveryFirst` and `ChangesAsReviewed` for any number of tabs,
executables, versions, host changes and restarts. The argument is rely and
guarantee on the lease: for the request that owns it, the invariant (`OwnersOK`)
says what the steps behind it have established; the steps of all others are shown
to leave exactly those facts alone. `LocksOK` says that the lease and the
Inspector belong to a request at a step that needs them, `LateOK` that every later
owner had its session checked after the revocation.

**BrokerProcess.** `BrokerProcessProofs` proves `TypeOK`, `SuccessIsClean`,
`UnseenOrphansOnly` and `SiblingsKept` for any number of pids, processes and tracked
references. The invariant relates the kernel's table (`TreeOK`, `LeaderOK`), who
drives the scan (`SequenceOK`), the references of the controller (`RefersToOwn`:
none to a process of another command, unless it has the leader's pid), the signals
sent so far (`SignalsOK`) and what the last scan has taken notice of
(`LastScanOK`).

**EditTransaction.** For any number of paths, edits, faults and external saves
`EditTransactionProofs` proves `TypeOK`, `StagesJournaled`,
`RecoveryKeepsActive` and `DestroyedAfterApplied`, and `EditTransactionSafety`
`ExternalWorkKept`, `ClassificationTrue` and `AllOrNothing`, all of them
whatever fsync orders, and `ActiveFilesWhole` under `FsyncOrders`, without which
it is false. The base of all of them is `FsOK`: an inode has one name at a time and never a name of another
path, so every step but the start of an edit and a power failure is local to one
directory (`Local`), and what is known of the other paths carries over. On top of
it the invariant `Inv` says, for each place of the lease holder, which files have
the same active entry in memory and on disk (`Synchronised`), which have nothing
of the service's left under their stage and quarantine names (`Tidied`), which are
untouched if an abort finds no stage (`Abortable`), which were never quarantined
(`Unmoved`), and that the open descriptor belongs to no active file
(`DescriptorOK`). `WholeInv` adds, for `ActiveFilesWhole`, that a stage about to
take the active name is a complete file (`FilledOK`), which goes back to the
recorded candidates (`CandidatesOK`), and that what is about to be selected exists
(`SeenOK`). `KeptInv` adds, for `ExternalWorkKept`, that a piece of work is the
content of one inode (`WorkOK`) with a name in memory and one on disk (`KeptOK`),
and that no identity on record fits an inode that was saved to since: while commit
runs every recorded stamp is behind (`RecordsOK`); after a crash or a power failure
an active file may be older than its record, but the files recovery may destroy,
those under stage and quarantine names, still are not (`StaleOK`). So what the
cleanup recognises and opens is nobody's unreviewed work (`FdOK`). The steps are
treated at once: those of the service and the operator only move stamps forward
and keep the names of what is missed (`Preserves`), a save leaves every record
behind (`Saving`), a power failure takes stamps back per name (`PowerStamps`).
`ClassInv` adds, for `ClassificationTrue`, that the identity of a candidate is
worth something (`Sound`): an inode without the candidate's bytes is ahead of it,
in memory and under every name the disk has for it, so that no power failure can
make it fit; what has the active name is not older than the record, so that a
later save gets ahead. The steps that write bytes are few (`Effect`): the stage
before it is recorded (`FreshOK`), and a scrub, which is never behind the record
(`OpenedOK`) because recovery opens only what fits one. The reviewed files never
get the candidate's bytes (`OldOK`).
`AllInv` adds, for `AllOrNothing`, what holds as long as no other program has
written and nothing was adopted: the selection is of one version of all files, and
no inode with other bytes fits it, now or after a power failure (`Fits`,
`Selects`). Until the first rename, and whenever no journal is left, the active
files are the selected inodes with the selected bytes, and with the selected times
unless a file was exchanged back (`Unreplaced`, `Held`). An active entry that is on
disk is there with its times, or is such a returned file, whose selected stamp is
behind (`StampsOK`, `Returned`); so a power failure takes back at most the times.
The files still to be replaced, and the one just displaced, are the reviewed ones,
so that an exchange back, which then only a failed read can cause, restores the
selection's file (`UndisturbedOK`, `ReturningAll`); and a resolution that reaches
its end found a new file absent or all files replaced (`ResolutionOK`, from
`OriginOK` and from `ClassificationTrue`).

Reading the code again beside the proofs, and the attempts themselves, changed the
models where they were wrong or said too little: failed reads of the displaced file
and of a fresh orphan had no branch, and `AllOrNothing` and the property on orphans
were too strong for the code;
`RotationKeepsRequests` held only for a grace period of one tick as long as the
history recorded only that a rotation was stored late, and not how late; the
conditions of `Outcome` overlapped, so that the model left the order of the code
to chance; `Reviews` did not say that a selected runtime has a manifest at first.

Only model-checked: `NextIsEarliest`, which compares the search for the next
time with a reference definition; the liveness properties `AcceptedIsPublished`,
`RecoveryResolves`, `DueIsAnswered` and `RunEnds`, since fairness is out of the prover's
reach.

## Where code and documentation disagree

- `edit_bystander_claim`: `docs/native-configuration.md` offers a discard for
  every unapplied edit; when a reviewed file that the edit does not touch has
  changed, discard refuses, adoption is not offered, and a new adoption of the
  workspace is refused while the journal exists.
- `schedule_gap_claim`: `docs/automatic-renewal.md` moves a skipped time to the
  first valid time after the gap; when the gap ends at midnight no instant of
  that date is left, `nextOccurrence` fails and the scheduler stops.

- `broker_recycled_claim`: the comment on `processController` says that a recycled
  pid is never signaled as the old child; `cancel` reads the identity of the
  leader's pid again, which may by then be another process.
- `reviews_conflict_claim`: the configuration panel says of a save answered with
  `configuration_changed` that no reviewed replacement was applied; the answer is
  built after the commit and needs the inspection gate, so a request of another
  tab that inspects a runtime turns a committed save into that answer.

Observations without a run of their own: `Recover` settles a claim without
recording its date, so a crash between enqueue and completion followed by a
backward clock step can run a local date again (`OncePerLocalDate` is therefore
stated for recorded dates); after a backward clock step a new session can be the
one its own login evicts, because eviction orders by last use;
`docs/manual-operations.md` says that a succeeded operation refreshed the
inventory, and `classifyExecution` keeps the success when the refresh failed;
the recovery token covers the state of the recovery and not the content of the
files, so that adopting the current files means those present when the
resolution runs; `docs/manual-operations.md` says that an uncertain cleanup is
reported as ambiguous, and a marked orphan that the last scan met but could not read
leaves no uncertainty behind; one failed read of a displaced file makes the
workspace need a new review although nothing was changed.

Limits that the code accepts and no property is about: two changes of a file
within one tick of a coarse change time look like none; a program that keeps a
descriptor open across an exchange loses what it writes to the displaced file; a
scheduled operation that finds the workspace busy ends without a run; a request
that read its session before another one extended it can delete it at the instant
of expiry; a second crash during restart recovery loses the reason shown.

## Not modelled

Pure transformations without state (native configuration engine, integration
tables, cloud access rules, redaction), parsing (application
configuration, YAML, dotenv, password verifiers), start-up I/O (migrations,
privileges, supervisor notification), the browser program and the installation
scripts. The login limiter, and the operation and schedule endpoints, whose
services are modelled. Within modelled parts: reason codes except those of the schedule,
output text, report context, and the contents of native files beyond "which
version".

## Plan

Done, in this order because the operation row is what every other part waits
for: OperationWorker with its lifecycle, EditTransaction, Scheduler,
IdentitySessions, BrokerProcess, Reviews; the proofs of all six.

Next, most important first:

1. an abstract atomic edit (each file old or new, all or none once settled) and
   `EditTransaction` as its implementation;
2. the lease coordinator: channel gate, file lock, cancellation, composed with
   the worker's `Acquire` and `TryAcquire`;
3. the login limiter: buckets, client table, idle expiry, verification slots;
4. operators for health classification and the dotenv round trip, checked
   against reference definitions.
