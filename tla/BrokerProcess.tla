---------------------------- MODULE BrokerProcess ----------------------------
(***************************************************************************)
(* One native run (internal/broker): Runner.Run, the os/exec command it    *)
(* waits for, the controller that follows and terminates the process tree, *)
(* and the tree itself.  Processes have a pid, which the kernel hands out  *)
(* again once it is reaped, and a start time, which it does not.           *)
(*                                                                         *)
(* AcmeMux is the child subreaper: who loses his parent becomes its child. *)
(* A process carries the operation's marker in its environment; its bond   *)
(* to the run is "group" (process group and marker), "marker" (its own     *)
(* session) or "none" (a cleaned environment as well), never stronger than *)
(* its parent's.                                                           *)
(***************************************************************************)
EXTENDS Naturals, FiniteSets

CONSTANTS Pids,        \* process ids
          Leader,      \* the pid lego is started with
          Self,        \* AcmeMux, as a parent
          Reasons,     \* why the context may end: "timeout", "shutdown"
          MaxStarts,   \* processes ever started
          MaxTracked   \* maximumTrackedProcesses

ASSUME PidsAssumption ==
    /\ Leader \in Pids /\ IsFiniteSet(Pids)
    /\ Self \notin Pids /\ "timeout" \in Reasons
    /\ MaxStarts \in Nat \ {0} /\ MaxTracked \in Nat

VARIABLES
    table,     \* the kernel's process table
    starts,    \* processes started so far
    exit,      \* how lego ended
    overflow,  \* collector.overflowed
    cause,     \* context.Cause(runContext)
    main,      \* where Runner.Run is
    watch,     \* the goroutine of os/exec that watches the context
    waitErr,   \* what command.Wait returns
    ctl,       \* processController
    seq,       \* the scan in progress, and what follows it
    unseen,    \* history: whom the last scan of all could not see
    outcome    \* Result.Outcome

run == <<main, watch, waitErr, cause, outcome>>
vars == <<table, starts, exit, overflow, cause, main, watch, waitErr, ctl,
          seq, unseen, outcome>>

Bonds == <<"none", "marker", "group">>
Strength(b) == CHOOSE n \in 1..3 : Bonds[n] = b

Gone == [start |-> 0, state |-> "gone", kind |-> "own", parent |-> Self,
         bond |-> "none"]
Idle == [at |-> "idle", next |-> ""]

Init ==
    /\ table = [p \in Pids |-> Gone] /\ starts = 0
    /\ exit = "" /\ overflow = FALSE /\ cause = ""
    /\ main = "prepared" /\ watch = [at |-> "", err |-> ""] /\ waitErr = ""
    /\ ctl = [root |-> FALSE, tracked |-> [p \in Pids |-> 0],
              guarded |-> [p \in Pids |-> 0], uncertain |-> FALSE,
              requested |-> FALSE, tracking |-> FALSE, termination |-> "none"]
    /\ seq = Idle /\ unseen = {} /\ outcome = ""

-----------------------------------------------------------------------------
(* The kernel and the processes.                                           *)

Running(p) == table[p].state \in {"live", "doomed"}
Own(p) == table[p].kind = "own"
Children(p) == {q \in Pids : table[q].state # "gone" /\ table[q].parent = p}

Spawn(p, kind, parent, bond) ==
    /\ table[p].state = "gone" /\ starts < MaxStarts
    /\ starts' = starts + 1
    /\ table' = [table EXCEPT ![p] =
          [start |-> starts + 1, state |-> "live", kind |-> kind,
           parent |-> parent, bond |-> bond]]

\* p ends: a zombie, without environment or effect in its group, until its
\* parent waits for it; its children go to AcmeMux.
Ended(p) ==
    [q \in Pids |->
        IF q = p THEN [table[p] EXCEPT !.state = "zombie", !.bond = "none"]
        ELSE IF q \in Children(p) THEN [table[q] EXCEPT !.parent = Self]
        ELSE table[q]]

Active == main \notin {"prepared", "returned"}
Waits == main \in {"started", "waiting", "reaped", "draining"}

Fork(p, q) ==
    /\ Active /\ Own(p) /\ table[p].state = "live"
    /\ \E b \in {"none", "marker", "group"} :
          /\ Strength(b) <= Strength(table[p].bond)
          /\ Spawn(q, "own", p, b)
    /\ UNCHANGED <<exit, overflow, run, ctl, seq, unseen>>

ProcessExits(p) ==
    /\ Active /\ Own(p) /\ Running(p)
    /\ table' = Ended(p)
    /\ unseen' = IF seq.next = "last" THEN unseen \cup Children(p) ELSE unseen
    /\ IF p = Leader /\ exit = ""
       THEN exit' \in IF table[p].state = "doomed" THEN {"failed"}
                      ELSE {"ok", "failed"}
       ELSE UNCHANGED exit
    /\ UNCHANGED <<starts, overflow, run, ctl, seq>>

\* A parent within the tree waits for its child.
ParentReaps(p, q) ==
    /\ Active /\ Own(p) /\ table[p].state = "live"
    /\ q \in Children(p) /\ table[q].state = "zombie"
    /\ table' = [table EXCEPT ![q] = Gone]
    /\ UNCHANGED <<starts, exit, overflow, run, ctl, seq, unseen>>

\* Another command that AcmeMux runs meanwhile.
ForeignStarts(p) ==
    /\ Active /\ Spawn(p, "sibling", Self, "none")
    /\ UNCHANGED <<exit, overflow, run, ctl, seq, unseen>>

\* It ends, and the goroutine that started it waits for it.
ForeignEnds(p) ==
    /\ Active /\ ~Own(p)
    /\ table' = [table EXCEPT ![p] =
          IF Running(p) THEN [@ EXCEPT !.state = "zombie"] ELSE Gone]
    /\ UNCHANGED <<starts, exit, overflow, run, ctl, seq, unseen>>

\* Some process of the tree writes past a limit; the first overflow cancels.
Write ==
    /\ Waits /\ ~overflow
    /\ \E p \in Pids : Own(p) /\ Running(p)
    /\ overflow' = TRUE
    /\ cause' = IF cause = "" THEN "output_limit" ELSE cause
    /\ UNCHANGED <<table, starts, exit, main, watch, waitErr, outcome, ctl,
                   seq, unseen>>

\* The hard timeout, or the service stops.
Cancelled(why) ==
    /\ Waits /\ cause = ""
    /\ cause' = why
    /\ UNCHANGED <<table, starts, exit, overflow, main, watch, waitErr,
                   outcome, ctl, seq, unseen>>

-----------------------------------------------------------------------------
(* processController: what it knows, and its scans.                        *)

Tracked == {p \in Pids : ctl.tracked[p] # 0}

\* The process a reference names still exists.
Same(p) == table[p].state # "gone" /\ table[p].start = ctl.tracked[p]

\* liveTargets: the identity-bound processes that have not ended.
LiveTargets == {p \in Tracked : Same(p) /\ Running(p)}

\* start reads the identity of whatever has the pid now, or fails to.
Start ==
    {[ctl EXCEPT !.root = TRUE, !.tracking = TRUE,
                 !.tracked[Leader] = IF table[Leader].state = "gone" THEN @
                                     ELSE table[Leader].start],
     [ctl EXCEPT !.root = TRUE, !.tracking = TRUE, !.uncertain = TRUE]}

\* Mutant: only what lineage has proven is followed.
DiscoverLineageOnly(hidden) ==
    [ctl EXCEPT !.guarded = [q \in Pids |->
        IF q \in Children(Self) \ {Leader} /\ q \in Tracked /\ Same(q)
        THEN ctl.tracked[q] ELSE @[q]]]

(***************************************************************************)
(* Any read of procfs may fail: of the processes a scan looks at, hidden   *)
(* are those whose entries cannot be read (Self: the list of AcmeMux's     *)
(* children).  It makes the end uncertain, except for a child the          *)
(* controller has not seen yet: if its stat or its environment cannot be   *)
(* read, or the environment exceeds maximumProcessEnvironment, it is       *)
(* skipped without a trace.                                                *)
(***************************************************************************)
Unreadable(S) == SUBSET {q \in S : q = Self \/ table[q].state # "gone"}

\* discoverGuardedOrphans: direct children that are known already or carry
\* the marker (a zombie's environment is empty).
DiscoverGuardedOrphans(hidden) ==
    LET mine == {q \in Children(Self) : Self \notin hidden
                                          /\ ~(ctl.root /\ q = Leader)}
        readable == mine \ hidden
        known == {q \in readable : q \in Tracked /\ Same(q)}
        reused == {q \in readable : q \in Tracked /\ ~Same(q)}
        fresh == {q \in readable : q \notin Tracked /\ Running(q)
                                      /\ table[q].bond # "none"}
        room == Cardinality(Tracked \cup fresh) <= MaxTracked
        taken == known \cup (IF room THEN fresh ELSE {})
    IN [ctl EXCEPT
          !.uncertain = \/ @ \/ Self \in hidden \/ reused # {}
                        \/ mine \cap hidden \cap Tracked # {}
                        \/ (fresh # {} /\ ~room),
          !.tracked = [q \in Pids |->
              IF q \in taken THEN table[q].start ELSE @[q]],
          !.guarded = [q \in Pids |->
              IF q \in taken THEN table[q].start ELSE @[q]]]

\* Whom scan reaches from what is tracked in c, generation by generation: the
\* least set with the processes referred to and the children of its running
\* members.  A reference whose process is gone or was replaced leads nowhere.
Lineage(c, hidden) ==
    LET root == {q \in Pids : c.root /\ q = Leader /\ c.tracked[q] = 0}
        known == {q \in Pids : c.tracked[q] # 0 /\ c.tracked[q] = table[q].start}
        seeds == {q \in root \cup known : table[q].state # "gone"}
        Closed(S) == \A q \in S \ hidden : Running(q) => Children(q) \subseteq S
    IN {q \in Pids : \A S \in SUBSET Pids :
            seeds \subseteq S /\ Closed(S) => q \in S}

\* A full table ends the walk.  What cannot be read is not followed.
Walked(c, hidden) ==
    LET reached == Lineage(c, hidden)
        new == {q \in reached \ hidden : c.tracked[q] # table[q].start}
        count == Cardinality({q \in Pids : c.tracked[q] # 0} \cup new)
    IN [c EXCEPT
          !.uncertain = \/ @ \/ (reached # {} /\ count >= MaxTracked)
                        \/ reached \cap hidden # {}
                        \/ \E q \in new : c.tracked[q] # 0,
          !.tracked = [q \in Pids |->
              IF q \in new THEN table[q].start ELSE @[q]]]

\* scan, by the goroutine that terminates, in two steps: the orphans, then
\* the lineage.  What follows it is next.
Scan(next) == seq' = [at |-> "discover", next |-> next]

Discover ==
    /\ seq.at = "discover"
    /\ \E hidden \in Unreadable({Self} \cup Children(Self)) :
          /\ ctl' = DiscoverGuardedOrphans(hidden)
          /\ unseen' = {q \in hidden \ Tracked : q # Self /\ seq.next = "last"}
    /\ seq' = [seq EXCEPT !.at = "walk"]
    /\ UNCHANGED <<table, starts, exit, overflow, run>>

Walk ==
    /\ seq.at = "walk"
    /\ \E hidden \in Unreadable(Pids) : ctl' = Walked(ctl, hidden)
    /\ seq' = [seq EXCEPT !.at = "scanned"]
    /\ UNCHANGED <<table, starts, exit, overflow, run, unseen>>

\* track: a goroutine of its own scans every 25 ms.
Track ==
    /\ ctl.tracking /\ Active
    /\ \E hidden \in Unreadable({Self} \cup Pids) :
          ctl' = Walked(DiscoverGuardedOrphans(hidden), hidden)
    /\ UNCHANGED <<table, starts, exit, overflow, run, seq, unseen>>

-----------------------------------------------------------------------------
(* terminateSequence, run by cancel (in the watcher) or by finish.         *)

\* A scan that was followed by next is over.
Scanned(next) == seq.at = "scanned" /\ seq.next = next
Alive == LiveTargets # {}

\* What liveTargets answers: a target whose stat cannot be read does not count.
FoundAlive == {Alive, FALSE}

\* signalTargets: every target and, if one of them is in it, the group.
Signaled ==
    LiveTargets \cup
      (IF ctl.root /\ \E p \in LiveTargets : table[p].bond = "group"
       THEN {p \in Pids : Running(p) /\ table[p].bond = "group"} ELSE {})

\* stopTracker, and the scan that precedes the reaping.
StopTracker(c) == ctl' = [c EXCEPT !.tracking = FALSE] /\ Scan("reap")

\* The sequence returns to cancel, which returns nil, or to finish.
SequenceEnds(c) ==
    IF watch.at = "cancelling"
    THEN /\ watch' = [at |-> "delay", err |-> "ctx"] /\ seq' = Idle /\ ctl' = c
    ELSE StopTracker(c) /\ UNCHANGED watch

Quiet == UNCHANGED <<table, starts, exit, overflow, unseen, main, waitErr,
                     cause, outcome>>

\* Nothing is alive any more, whatever the sequence was about to do.  Only
\* waitForExit minds that a target could not be read.
NothingAlive ==
    /\ \E next \in {"term", "grace", "forced"} :
          /\ Scanned(next)
          /\ SequenceEnds([ctl EXCEPT !.uncertain = @ \/ (Alive /\ next # "term")])
    /\ Quiet

\* SIGTERM (the two scans before it are one here), which a process may heed, by ending, or not.
Terminate ==
    /\ Scanned("term") /\ Alive
    /\ ctl' = [ctl EXCEPT !.termination =
          IF @ = "none" THEN "graceful" ELSE @]
    /\ Scan("grace")
    /\ UNCHANGED <<table, starts, exit, overflow, run, unseen>>

\* waitForExit looks again until the grace period is over.
StillAlive ==
    /\ \E next \in {"grace", "forced"} : Scanned(next) /\ Scan(next)
    /\ Alive /\ UNCHANGED <<ctl, watch>> /\ Quiet

GraceExpires ==
    /\ Scanned("grace") /\ Alive /\ Scan("kill")
    /\ UNCHANGED <<ctl, watch>> /\ Quiet

\* SIGKILL.
Kill ==
    /\ Scanned("kill")
    /\ table' = [p \in Pids |-> IF p \in Signaled
                   THEN [table[p] EXCEPT !.state = "doomed"] ELSE table[p]]
    /\ ctl' = IF Signaled # {} THEN [ctl EXCEPT !.termination = "forced"]
              ELSE ctl
    /\ Scan("forced")
    /\ UNCHANGED <<starts, exit, overflow, run, unseen>>

ForcedExpires ==
    /\ Scanned("forced") /\ Alive /\ SequenceEnds([ctl EXCEPT !.uncertain = TRUE]) /\ Quiet

-----------------------------------------------------------------------------
(* The watcher of os/exec.                                                 *)

\* The context is done before the leader's end was noticed: cancel.
CancelBegins ==
    /\ watch.at = "watching" /\ cause # "" /\ main # "returned"
    /\ watch' = [watch EXCEPT !.at = "cancelling"]
    /\ \E c \in Start : ctl' = [c EXCEPT !.requested = TRUE]
    /\ IF ctl.tracking
       THEN seq' = [at |-> "scanned", next |-> "cancel"]
       ELSE Scan("cancel")
    /\ Quiet

\* os.ErrProcessDone, or the sequence.
CancelDecides ==
    /\ Scanned("cancel")
    /\ \E alive \in FoundAlive :
          IF alive THEN Scan("term") /\ UNCHANGED watch
          ELSE seq' = Idle /\ watch' = [at |-> "delay", err |-> ""]
    /\ UNCHANGED ctl /\ Quiet

\* WaitDelay is over and Wait has not returned: kill the leader, close pipes.
DelayFires ==
    /\ watch.at = "delay" /\ main \in {"started", "waiting"}
    /\ watch' = [at |-> "closed", err |->
          IF watch.err # "" THEN watch.err
          ELSE IF \E p \in Pids : Own(p) /\ Running(p) THEN "delay" ELSE ""]
    /\ table' = [table EXCEPT ![Leader].state =
          IF @ = "live" THEN "doomed" ELSE @]
    /\ UNCHANGED <<starts, exit, overflow, cause, main, waitErr, ctl, seq,
                   unseen, outcome>>

-----------------------------------------------------------------------------
(* Runner.Run and PreparedExecutable.StartContext.                         *)

\* An invalid request, a cancelled context: nothing is started.
Refuse ==
    /\ main = "prepared" /\ main' = "returned" /\ outcome' = "denied"
    /\ UNCHANGED <<table, starts, exit, overflow, cause, watch, waitErr, ctl,
                   seq, unseen>>

StartLego ==
    /\ main = "prepared"
    /\ Spawn(Leader, "own", Self, "group")
    /\ main' = "started" /\ watch' = [watch EXCEPT !.at = "watching"]
    /\ UNCHANGED <<exit, overflow, cause, waitErr, outcome, ctl, seq, unseen>>

\* Mutant: a failed start returns with an empty result.
StartFailsEmpty ==
    /\ main = "prepared" /\ main' = "returned" /\ waitErr' = "start"
    /\ UNCHANGED <<table, starts, exit, overflow, cause, watch, outcome, ctl,
                   seq, unseen>>

StartFails ==
    /\ main = "prepared"
    /\ main' = "finishing" /\ waitErr' = "start" /\ Scan("first")
    /\ UNCHANGED <<table, starts, exit, overflow, cause, watch, outcome, ctl,
                   unseen>>

\* The retained descriptor is closed and the controller started.
Release ==
    /\ main = "started" /\ main' = "waiting" /\ ctl' \in Start
    /\ UNCHANGED <<table, starts, exit, overflow, cause, watch, waitErr,
                   outcome, seq, unseen>>

\* Closing it fails: the leader is killed and waited for.
ReleaseFails ==
    /\ main = "started" /\ main' = "waiting" /\ waitErr' = "start"
    /\ table' = [table EXCEPT ![Leader].state =
          IF @ = "live" THEN "doomed" ELSE @]
    /\ UNCHANGED <<starts, exit, overflow, cause, watch, outcome, ctl, seq,
                   unseen>>

\* Process.Wait reaps the leader.
WaitLeader ==
    /\ main = "waiting" /\ table[Leader].state = "zombie"
    /\ table' = [table EXCEPT ![Leader] = Gone]
    /\ main' = "reaped"
    /\ waitErr' = IF waitErr = "" /\ exit = "failed" THEN "exit" ELSE waitErr
    /\ UNCHANGED <<starts, exit, overflow, cause, watch, outcome, ctl, seq,
                   unseen>>

\* The watcher hands over its result.
TakeResult ==
    /\ main = "reaped" /\ watch.at \in {"watching", "delay", "closed"}
    /\ main' = IF watch.at = "closed" THEN "drained" ELSE "draining"
    /\ waitErr' = IF waitErr = "" THEN watch.err ELSE waitErr
    /\ watch' = [watch EXCEPT !.at = "done"]
    /\ UNCHANGED <<table, starts, exit, overflow, cause, outcome, ctl, seq,
                   unseen>>

\* The pipes end with their last holder; a process may have closed them.
Drain ==
    /\ main = "draining" /\ main' = "drained"
    /\ UNCHANGED <<table, starts, exit, overflow, cause, watch, waitErr,
                   outcome, ctl, seq, unseen>>

\* Mutant: no WaitDelay.
DrainWaits == FALSE /\ UNCHANGED vars

\* WaitDelay is over with the pipes still held.
DrainExpires ==
    /\ main = "draining" /\ \E p \in Pids : Own(p) /\ Running(p)
    /\ main' = "drained"
    /\ waitErr' = IF waitErr = "" THEN "delay" ELSE waitErr
    /\ UNCHANGED <<table, starts, exit, overflow, cause, watch, outcome, ctl,
                   seq, unseen>>

\* finish: what is alive now outlived a leader nobody asked to end.
Finish ==
    /\ main = "drained" /\ main' = "finishing" /\ Scan("first")
    /\ UNCHANGED <<table, starts, exit, overflow, cause, watch, waitErr,
                   outcome, ctl, unseen>>

\* Mutant: a survivor of a leader that succeeded is cleaned up silently.
SurvivingTolerated == ctl

Surviving == [ctl EXCEPT !.uncertain = @ \/ (Alive /\ ~ctl.requested)]

FinishDecides ==
    /\ Scanned("first")
    /\ \E alive \in FoundAlive :
          IF alive THEN Scan("term") /\ ctl' = Surviving
          ELSE StopTracker(ctl)
    /\ UNCHANGED watch /\ Quiet

\* Mutant: a wait for any child.
ReapableAny == {p \in Pids : table[p].state = "zombie" /\ table[p].parent = Self}

\* reapGuardedOrphans: exact zombies only; what is gone is forgotten.
Reapable == {p \in Pids : /\ ctl.guarded[p] # 0 /\ table[p].state = "zombie"
                          /\ table[p].start = ctl.guarded[p]
                          /\ table[p].parent = Self}

ReapGuardedOrphans ==
    LET gone == {p \in Pids : ctl.guarded[p] # 0
                   /\ (table[p].state = "gone" \/ table[p].start # ctl.guarded[p])}
        over == {p \in gone \cup Reapable : ctl.guarded[p] # 0}
    IN /\ Scanned("reap")
       /\ table' = [p \in Pids |-> IF p \in Reapable THEN Gone ELSE table[p]]
       /\ ctl' = [ctl EXCEPT
             !.guarded = [p \in Pids |-> IF p \in over THEN 0 ELSE @[p]],
             !.tracked = [p \in Pids |->
                 IF p \in over /\ @[p] = ctl.guarded[p] THEN 0 ELSE @[p]]]
       /\ Scan("last")
       /\ UNCHANGED <<starts, exit, overflow, run, unseen>>

Outcome ==
    IF waitErr \in {"start", "delay"} \/ ctl'.uncertain THEN "ambiguous"
    ELSE IF overflow \/ cause = "output_limit" THEN "output_limit"
    ELSE IF ctl.requested /\ cause = "timeout" THEN "timed_out"
    ELSE IF ctl.requested /\ cause # "" THEN "interrupted"
    ELSE IF waitErr = "" /\ exit = "ok" THEN "succeeded"
    ELSE "failed"

Return ==
    /\ Scanned("last") /\ main' = "returned"
    /\ ctl' = [ctl EXCEPT !.uncertain = @ \/ Alive]
    /\ outcome' = Outcome
    /\ seq' = Idle
    /\ UNCHANGED <<table, starts, exit, overflow, cause, watch, waitErr, unseen>>

-----------------------------------------------------------------------------
Kernel ==
    \/ \E p, q \in Pids : Fork(p, q) \/ ParentReaps(p, q)
    \/ \E p \in Pids : ProcessExits(p) \/ ForeignStarts(p) \/ ForeignEnds(p)
    \/ Write

Sequence ==
    \/ Discover \/ Walk \/ CancelDecides \/ NothingAlive \/ Terminate
    \/ Kill \/ FinishDecides \/ ReapGuardedOrphans \/ Return

Main == StartLego \/ Release \/ ReleaseFails \/ WaitLeader \/ TakeResult
          \/ Finish

Next ==
    \/ Kernel \/ Sequence \/ Main
    \/ Refuse \/ StartFails
    \/ \E why \in Reasons : Cancelled(why)
    \/ Track \/ StillAlive \/ GraceExpires \/ ForcedExpires
    \/ CancelBegins \/ DelayFires \/ Drain \/ DrainExpires

Spec == Init /\ [][Next]_vars

\* Goroutines run, timers fire, and a killed process ends.
Fairness ==
    /\ WF_vars(Sequence) /\ WF_vars(Main)
    /\ SF_vars(GraceExpires) /\ SF_vars(ForcedExpires)
    /\ WF_vars(CancelBegins) /\ WF_vars(DelayFires)
    /\ WF_vars(Drain /\ \A p \in Pids : Own(p) => ~Running(p))
    /\ WF_vars(DrainExpires) /\ WF_vars(Cancelled("timeout"))
    /\ \A p \in Pids : WF_vars(table[p].state = "doomed" /\ ProcessExits(p))

FairSpec == Spec /\ Fairness

-----------------------------------------------------------------------------
(* Properties.                                                             *)

\* Every variable stays in its domain, and a reference is never to a process
\* that was not started yet.
TypeOK ==
    /\ table \in [Pids -> [start : 0..MaxStarts,
                           state : {"gone", "live", "doomed", "zombie"},
                           kind : {"own", "sibling"},
                           parent : Pids \cup {Self},
                           bond : {"none", "marker", "group"}]]
    /\ ctl.tracked \in [Pids -> 0..starts] /\ ctl.guarded \in [Pids -> 0..starts]
    /\ ctl.termination \in {"none", "graceful", "forced"}
    /\ unseen \subseteq Pids
    /\ waitErr \in {"", "start", "exit", "ctx", "delay"}
    /\ main = "returned" <=> outcome # ""

\* A run reported as succeeded (runner_linux.go:234) exited with status zero,
\* was not asked to end, wrote no more than its limits, and needed no signal:
\* no process of its tree outlived it unnoticed and was then killed.
SuccessIsClean ==
    outcome = "succeeded" =>
        /\ exit = "ok" /\ ~overflow
        /\ ~ctl.requested /\ ctl.termination = "none"
        /\ LiveTargets = {}

\* After a result that is not ambiguous (process_linux.go:151-165), the only
\* marked orphans left running are those the last scan could not see: they
\* lost their parent while it ran, were never tracked and could not be read by
\* it (process_linux.go:398-403, 419-424), or were given the leader's pid.
\* One scan that reads an orphan is enough, whatever earlier scans missed.
UnseenOrphansOnly ==
    outcome \notin {"", "ambiguous", "denied"} =>
        \A p \in Pids : Own(p) /\ Running(p) /\ table[p].parent = Self
                          /\ table[p].bond # "none"
                        => p \in unseen \/ p = Leader

\* Neither Process.Wait nor reapGuardedOrphans (process_linux.go:434-436)
\* takes the exit status of a command another goroutine started.
SiblingsKept ==
    [][\A p \in Pids :
         table[p].kind = "sibling" /\ table[p].state = "zombie"
           /\ (main' # main \/ seq' # seq)
         => table'[p] = table[p]]_vars

\* Every started run returns, whatever the processes do: ignore SIGTERM, hold
\* the pipes, fork, or hide from procfs (Run, runner_linux.go:185-240).
RunEnds == main = "started" ~> main = "returned"

\* What the comment on processController says (process_linux.go:39-42): a
\* recycled pid is never signaled as the old child.
RecycledNeverSignaled ==
    [][Terminate \/ Kill => \A p \in Signaled : Own(p)]_vars

=============================================================================
