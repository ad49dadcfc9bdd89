------------------------------- MODULE Reviews -------------------------------
(***************************************************************************)
(* What the administrator reviews and then orders through the HTTP         *)
(* endpoints: the lego executable (internal/runtime), the workspace        *)
(* (internal/workspace), edits of its configuration, its first creation    *)
(* and the resolution of an interrupted edit (internal/configuration).     *)
(* Several browser tabs do this at once while the host changes under them, *)
(* sessions are revoked and the service restarts.                          *)
(*                                                                         *)
(* A handler is the sequence of its steps, and a request works through it. *)
(* A step that fails answers the request and gives back the lease and the  *)
(* inspection gate, as the deferred releases do.                           *)
(*                                                                         *)
(* Evidence is a version: the executable, the workspace files and the      *)
(* certificate storage get a new one with every change, because            *)
(* fingerprints cover inode, times and content.                            *)
(***************************************************************************)
EXTENDS Integers, Sequences, FiniteSets

CONSTANTS Tabs,        \* browser tabs, one request in flight each
          Changes,     \* edits the form can hold
          ManifestOf,  \* per start of the service: the manifest of each executable
          None,        \* nothing selected, shown, held or supported
          InitialSelections, \* [runtime, files] pairs the database may start with
          Pages,       \* assignments of a page, the requests it can send, to each tab
          MaxMade,     \* versions of the workspace files
          MaxEvents    \* host changes, revocations and restarts

Absent == 0            \* the version of files that do not exist
Boots == DOMAIN ManifestOf
Executables == 1..Len(ManifestOf[1])

ASSUME ReviewsAssumption ==
    /\ IsFiniteSet(Tabs) /\ None \notin Tabs \cup Changes
    /\ MaxMade \in Nat \ {0} /\ MaxEvents \in Nat
    /\ 1 \in Boots /\ Len(ManifestOf[1]) \in Nat \ {0}
    /\ \A s \in InitialSelections : s.runtime => ManifestOf[1][1] # None

VARIABLES
    exe,       \* the executable at the reviewed path
    files,     \* the workspace files on disk
    made,      \* the newest version of them
    storage,   \* the certificate storage of lego
    rsel,      \* acmeruntime.SelectionStore: [exe, man] or None
    sel,       \* workspace.Store: the adopted version of the files, or None
    journal,   \* workspace_edit_journal, or None
    lease,     \* the tab whose request owns the workspace lease
    gate,      \* the tab whose request is in the runtime Inspector
    boot,      \* starts of the service: its token key and its manifests
    epoch,     \* revocations of all sessions so far
    session,   \* the epoch in which each tab signed in
    held,      \* what each tab was shown: the review its next request names
    page,      \* the page each tab is on
    run,       \* the request of each tab
    late,      \* history: requests that took effect after their revocation
    events

host == <<exe, files, made, storage>>
stores == <<rsel, sel, journal>>
sessions == <<epoch, session, page, late>>
vars == <<exe, files, made, storage, rsel, sel, journal, lease, gate, boot,
          epoch, session, held, page, run, late, events>>

-----------------------------------------------------------------------------
(* Evidence, reviews and tokens.                                           *)

Classify(e) == ManifestOf[boot][e]

\* Observation and manifest, as reviewed, selected and fingerprinted.
Runtime(e, man) == [exe |-> e, man |-> man]

Review(kind, rt, of) ==
    [kind |-> kind, boot |-> 0, rt |-> rt, of |-> of, state |-> "",
     choice |-> None]

RuntimeReviewed(rt) == Review("runtime", rt, 0)
WorkspaceReviewed(v) == Review("workspace", None, v)

\* Tokens are keyed by the service instance and cover the runtime.
BaseToken(rt, v) == [Review("base", rt, v) EXCEPT !.boot = boot]
CreationBaseToken(rt) == [Review("creation", rt, Absent) EXCEPT !.boot = boot]
PreviewToken(base, change) ==
    [base EXCEPT !.kind = IF @ = "base" THEN "preview" ELSE "newPreview",
                 !.choice = change]
RecoveryToken(rt, id, state) ==
    [Review("recovery", rt, id) EXCEPT !.boot = boot, !.state = state]
TokenMatches(expected, supplied) == expected = supplied

\* Mutant: missing files can be adopted too.
AdoptableAny(v) == TRUE
Adoptable(v) == v # Absent

\* What an audit of the paths finds.
Audited == files

\* Where the interrupted edit stands; a partial activation is "mixed".
RecoveryState(j, v) ==
    IF v = j.id THEN "applied" ELSE IF v = j.from THEN "unapplied" ELSE "mixed"

-----------------------------------------------------------------------------
(* The handlers.                                                           *)

loadRuntime == <<"open", "verify">>
prepareCurrent == <<"open", "verify">>
inspect == <<"openCandidate", "observe">>
inventoryRead == <<"auditStorage", "list", "reauditStorage">>
evaluateLocked == <<"sources">> \o loadRuntime
creationRuntimeLocked == <<"unselected">> \o loadRuntime
snapshotLocked == <<"snapshot">> \o loadRuntime \o <<"view">>
commitGuard == <<"reauthorize", "open", "guard">>
commit == <<"begin">> \o commitGuard \o <<"activate", "finalize">>

snapshotService == <<"lease">> \o snapshotLocked
previewService == <<"lease">> \o evaluateLocked \o <<"match", "candidate">>
saveService ==
    <<"lease">> \o evaluateLocked \o <<"match">> \o commit \o snapshotLocked
resolveService ==
    <<"lease", "inspectRecovery">> \o loadRuntime \o <<"matchRecovery", "readCurrent">>
        \o commitGuard \o <<"resolve">> \o snapshotLocked
previewCreationService ==
    <<"lease">> \o creationRuntimeLocked \o <<"match", "candidate">>
createService ==
    <<"lease">> \o creationRuntimeLocked \o <<"match">> \o commit \o snapshotLocked

getRuntime == loadRuntime
inspectCandidate == inspect
\* Mutant: the journal is looked at before the lease is taken.
AdoptJournalFirst ==
    <<"journal", "lease">> \o inspect \o <<"reauthorize", "saveRuntime">>
\* Mutant: the session is checked again only before the lease is taken.
AdoptUnchecked ==
    <<"reauthorize", "lease", "journal">> \o inspect \o <<"saveRuntime">>
adoptRuntime ==
    <<"lease", "journal">> \o inspect \o <<"reauthorize", "saveRuntime">>
\* Mutant: the files are not verified again after the listing.
GetWorkspaceOnce ==
    <<"lease", "load">> \o prepareCurrent \o <<"verifyFiles">>
        \o inventoryRead \o <<"ready">>
getWorkspace ==
    <<"lease", "load">> \o prepareCurrent \o <<"verifyFiles">>
        \o inventoryRead \o <<"verifyFiles", "ready">>
inspectWorkspace == <<"lease">> \o prepareCurrent \o <<"inspectFiles">>
adoptWorkspace ==
    <<"lease", "journal">> \o prepareCurrent \o <<"compareFiles">>
        \o inventoryRead \o <<"compareFiles", "reauthorize", "saveWorkspace">>
getConfiguration == snapshotService
previewConfiguration == previewService
saveConfiguration == saveService
previewCreation == previewCreationService
createConfiguration == createService
resolveRecovery == resolveService

Program ==
    [getRuntime |-> getRuntime, inspectCandidate |-> inspectCandidate,
     adoptRuntime |-> adoptRuntime, getWorkspace |-> getWorkspace,
     inspectWorkspace |-> inspectWorkspace, adoptWorkspace |-> adoptWorkspace,
     getConfiguration |-> getConfiguration, preview |-> previewConfiguration,
     save |-> saveConfiguration, previewCreation |-> previewCreation,
     create |-> createConfiguration, resolve |-> resolveRecovery]
Requests == DOMAIN Program
Edits == {"save", "create"}
Configuration ==
    Edits \cup {"getConfiguration", "preview", "previewCreation", "resolve"}
Resolutions == {"discard", "finalize", "adopt"}

\* What a request carries beside the review its tab holds.
Choices(op) ==
    CASE op \in Edits \cup {"preview", "previewCreation"} -> Changes
      [] op = "resolve" -> Resolutions
      [] OTHER -> {None}

\* The reviews a body can name: the decoders refuse missing or foreign fields.
readRuntimeObject == {"runtime"}
readWorkspaceRequest == {"workspace"}
readConfigurationRequest == {"base", "creation", "recovery", "preview", "newPreview"}
readCreationRequest == readConfigurationRequest
readRecoveryRequest == readConfigurationRequest
WellFormed(op, review) ==
    CASE op = "adoptRuntime" -> review.kind \in readRuntimeObject
      [] op = "adoptWorkspace" -> review.kind \in readWorkspaceRequest
      [] op = "preview" -> review.kind \in readConfigurationRequest
      [] op = "save" -> review.kind \in readConfigurationRequest \cap {"preview", "newPreview"}
      [] op = "previewCreation" -> review.kind \in readCreationRequest
      [] op = "create" -> review.kind \in readCreationRequest \cap {"preview", "newPreview"}
      [] op = "resolve" -> review.kind \in readRecoveryRequest
      [] OTHER -> TRUE

Nothing == Review("none", None, 0)
NoSource == [kind |-> "none", of |-> 0, state |-> ""]
Idle ==
    [op |-> "idle", pc |-> 1, choice |-> None, opened |-> None, rt |-> None,
     src |-> NoSource, tree |-> 0, inv |-> None, applied |-> FALSE, code |-> ""]

Init ==
    /\ exe = 1 /\ files \in {Absent, 1} /\ made = 1 /\ storage = 1
    /\ \E s \in InitialSelections :
          /\ rsel = (IF s.runtime THEN Runtime(1, ManifestOf[1][1]) ELSE None)
          /\ sel = (IF s.files THEN 1 ELSE None)
          /\ s.files => files = 1
    /\ journal = None /\ lease = None /\ gate = None /\ boot = 1
    /\ epoch = 1 /\ session = [t \in Tabs |-> 1] /\ late = 0
    /\ held = [t \in Tabs |-> Nothing] /\ run = [t \in Tabs |-> Idle]
    /\ page \in Pages
    /\ events = 0

-----------------------------------------------------------------------------
(* A request and its steps.                                                *)

Working(t) == run[t].op # "idle" /\ run[t].code = ""
Step(t) == Program[run[t].op][run[t].pc]
At(t, step) == Working(t) /\ Step(t) = step

\* The request ends with this answer, and the deferred releases run.  An
\* error that comes after the request took effect stays until the tab reads
\* it; the other answers leave nothing behind but what the tab is shown.
Errors == {"busy", "changed", "invalid", "recovery", "runtime", "unauthorized", "unavailable"}
Answer(t, code) ==
    /\ run' = [run EXCEPT ![t] =
          IF run[t].applied /\ code \in Errors
          THEN [Idle EXCEPT !.op = run[t].op, !.applied = TRUE, !.code = code] ELSE Idle]
    /\ lease' = IF lease = t THEN None ELSE lease
    /\ gate' = IF gate = t THEN None ELSE gate

\* The request goes on, with these locals; after the last step it is answered.
Advance(t, locals) ==
    IF run[t].pc = Len(Program[run[t].op])
    THEN Answer(t, "ok")
    ELSE /\ run' = [run EXCEPT ![t] = [locals EXCEPT !.pc = @ + 1]]
         /\ gate' = IF gate = t /\ locals.opened = None THEN None ELSE gate
         /\ UNCHANGED lease

Quiet == UNCHANGED <<host, stores, boot, sessions, held, events>>

\* The request arrives and is authorized and decoded.
Authorize(t, op) ==
    /\ run[t] = Idle /\ op \in page[t]
    /\ IF session[t] # epoch THEN Answer(t, "unauthorized")
       ELSE IF ~WellFormed(op, held[t]) THEN Answer(t, "invalid")
       ELSE /\ \E c \in Choices(op) :
                  run' = [run EXCEPT ![t] = [Idle EXCEPT !.op = op, !.choice = c]]
            /\ UNCHANGED <<lease, gate>>
    /\ Quiet

Reply(t) ==
    /\ run[t].code # ""
    /\ run' = [run EXCEPT ![t] = Idle]
    /\ UNCHANGED <<host, stores, lease, gate, boot, sessions, held, events>>

SignIn(t) ==
    /\ run[t] = Idle /\ session[t] # epoch
    /\ session' = [session EXCEPT ![t] = epoch]
    /\ UNCHANGED <<host, stores, lease, gate, boot, epoch, page, held, run, late, events>>

AcquireWorkspaceLease(t) ==
    /\ At(t, "lease")
    /\ IF lease # None THEN Answer(t, "busy")
       ELSE /\ lease' = t
            /\ run' = [run EXCEPT ![t].pc = @ + 1]
            /\ UNCHANGED gate
    /\ Quiet

RequireClearNativeEditJournal(t) ==
    /\ At(t, "journal")
    /\ IF journal # None THEN Answer(t, "recovery") ELSE Advance(t, run[t])
    /\ Quiet

\* Its journal exists and no file is replaced yet.
Prepared(t) ==
    /\ run[t].op \in Edits /\ lease = t /\ journal # None
    /\ Step(t) \in {"reauthorize", "open", "guard", "activate"}

\* A prepared edit that is refused removes its stages and the journal; the
\* removal may fail.
Refuse(t, code) ==
    /\ Answer(t, code)
    /\ journal' \in IF Prepared(t) THEN {None, journal} ELSE {journal}
    /\ UNCHANGED <<host, rsel, sel, boot, sessions, held, events>>

Reauthorize(t) ==
    /\ At(t, "reauthorize")
    /\ IF session[t] # epoch THEN Refuse(t, "unauthorized")
       ELSE Advance(t, run[t]) /\ Quiet

\* A request takes effect: whose session is gone by then is late.
TakesEffect(t) == late' = IF session[t] # epoch THEN late + 1 ELSE late

-----------------------------------------------------------------------------
(* The runtime Inspector: one inspection at a time, refused rather than    *)
(* queued; the executable may be replaced while it is probed.              *)

\* An open handle is probed, rehashed and compared with the path again.
InspectOpen(o) == exe = o.exe /\ Classify(exe) # None
Differences(reviewed, e) == reviewed.exe # e
RuntimeBusy(op) == IF op \in Configuration THEN "changed" ELSE "busy"
RuntimeChanged(op) == IF op \in Configuration THEN "changed" ELSE "runtime"
RuntimeMissing(op) == IF op \in Configuration THEN "unavailable" ELSE "runtime"

\* The descriptor stays on the executable the path names now.
Opened == [exe |-> exe, of |-> rsel]

BeginInspection(t) ==
    /\ \/ At(t, "openCandidate")
       \/ At(t, "open") /\ rsel # None
    /\ gate = None
    /\ gate' = t
    /\ run' = [run EXCEPT ![t].pc = @ + 1, ![t].opened = Opened]
    /\ UNCHANGED lease /\ Quiet

InspectionBusy(t) ==
    /\ \/ At(t, "openCandidate")
       \/ At(t, "open") /\ rsel # None
    /\ gate # None
    /\ Refuse(t, RuntimeBusy(run[t].op))

NoSelectedRuntime(t) ==
    /\ At(t, "open") /\ rsel = None
    /\ Refuse(t, RuntimeMissing(run[t].op))

Unchanged(o) ==
    /\ InspectOpen(o) /\ ~Differences(o.of, o.exe)
    /\ Classify(o.exe) = o.of.man

Verify(t) ==
    LET o == run[t].opened IN
    /\ At(t, "verify")
    /\ IF Unchanged(o)
       THEN Advance(t, [run[t] EXCEPT !.opened = None, !.rt = o.of])
       ELSE Answer(t, RuntimeChanged(run[t].op))
    /\ Quiet

Guard(t) ==
    LET o == run[t].opened IN
    /\ At(t, "guard")
    /\ IF Unchanged(o) /\ o.of = run[t].rt
       THEN Advance(t, [run[t] EXCEPT !.opened = None]) /\ Quiet
       ELSE Refuse(t, "changed")

\* inspectCandidate shows what it found.
PresentCandidate(t) ==
    LET o == run[t].opened IN
    /\ At(t, "observe") /\ run[t].op = "inspectCandidate"
    /\ Answer(t, "ok")
    /\ held' = [held EXCEPT ![t] =
          IF InspectOpen(o) THEN RuntimeReviewed(Runtime(o.exe, Classify(o.exe))) ELSE @]
    /\ UNCHANGED <<host, stores, boot, sessions, events>>

\* adoptRuntime compares it with the review.
\* Mutant: the reviewed manifest is enough.
SameManifest(t, rt) == held[t].kind = "runtime" /\ held[t].rt.man = rt.man
SameRuntimeReview(t, rt) == held[t] = RuntimeReviewed(rt)

CompareRuntime(t) ==
    LET o == run[t].opened
        rt == Runtime(o.exe, Classify(o.exe))
    IN /\ At(t, "observe") /\ run[t].op = "adoptRuntime"
       /\ IF InspectOpen(o) /\ SameRuntimeReview(t, rt)
          THEN Advance(t, [run[t] EXCEPT !.opened = None, !.rt = rt])
          ELSE Answer(t, "changed")
       /\ Quiet

SaveRuntime(t) ==
    /\ At(t, "saveRuntime")
    /\ rsel' = run[t].rt
    /\ Answer(t, "ok") /\ TakesEffect(t)
    /\ UNCHANGED <<host, sel, journal, boot, epoch, session, page, held, events>>

-----------------------------------------------------------------------------
(* The workspace: its evidence, its inventory, its adoption.               *)

LoadSelection(t) ==
    /\ At(t, "load")
    /\ IF sel = None THEN Answer(t, "ok") ELSE Advance(t, run[t])
    /\ Quiet

Source(kind, of, state) == [kind |-> kind, of |-> of, state |-> state]

VerifyFiles(t) ==
    /\ At(t, "verifyFiles")
    /\ IF Audited = sel
       THEN Advance(t, [run[t] EXCEPT !.src = Source("base", Audited, "")])
       ELSE Answer(t, "ok")
    /\ Quiet

InspectFiles(t) ==
    /\ At(t, "inspectFiles")
    /\ Answer(t, "ok")
    /\ held' = [held EXCEPT ![t] = WorkspaceReviewed(Audited)]
    /\ UNCHANGED <<host, stores, boot, sessions, events>>

SameWorkspaceReview(t) == held[t] = WorkspaceReviewed(Audited)

CompareFiles(t) ==
    /\ At(t, "compareFiles")
    /\ IF Adoptable(Audited) /\ SameWorkspaceReview(t)
       THEN Advance(t, [run[t] EXCEPT !.src = Source("base", Audited, "")])
       ELSE Answer(t, "changed")
    /\ Quiet

AuditStorage(t) ==
    /\ At(t, "auditStorage")
    /\ Advance(t, [run[t] EXCEPT !.tree = storage])
    /\ Quiet

\* The retained executable lists the storage of the files it finds now.
List(t) ==
    /\ At(t, "list")
    /\ Advance(t, [run[t] EXCEPT !.inv = [files |-> files, storage |-> storage]])
    /\ Quiet

ReauditStorage(t) ==
    /\ At(t, "reauditStorage")
    /\ IF storage = run[t].tree THEN Advance(t, run[t]) ELSE Answer(t, "ok")
    /\ Quiet

Ready(t) ==
    /\ At(t, "ready")
    /\ Answer(t, "ready")
    /\ Quiet

SaveWorkspace(t) ==
    /\ At(t, "saveWorkspace")
    /\ sel' = run[t].src.of
    /\ Answer(t, "ready") /\ TakesEffect(t)
    /\ UNCHANGED <<host, rsel, journal, boot, epoch, session, page, held, events>>

-----------------------------------------------------------------------------
(* The configuration service: views, previews, edits.                      *)

\* snapshotLocked: the sources, or what stands in their way.
Snapshot(t) ==
    /\ At(t, "snapshot")
    /\ LET into(s) == Advance(t, [run[t] EXCEPT !.src = s]) IN
       IF journal # None
       THEN into(Source("recovery", journal.id, RecoveryState(journal, files)))
       ELSE IF sel = None THEN into(Source("creation", Absent, ""))
       ELSE IF files = sel THEN into(Source("base", files, ""))
       ELSE Answer(t, "changed")
    /\ Quiet

Token(t) ==
    LET s == run[t].src IN
    CASE s.kind = "recovery" -> RecoveryToken(run[t].rt, s.of, s.state)
      [] s.kind = "creation" -> CreationBaseToken(run[t].rt)
      [] OTHER -> BaseToken(run[t].rt, s.of)

View(t) ==
    /\ At(t, "view")
    /\ Answer(t, "ok")
    /\ held' = [held EXCEPT ![t] = Token(t)]
    /\ UNCHANGED <<host, stores, boot, sessions, events>>

\* evaluateLocked: the sources of an adopted workspace without a journal.
Sources(t) ==
    /\ At(t, "sources")
    /\ IF journal # None \/ sel = None THEN Answer(t, "unavailable")
       ELSE IF files # sel THEN Answer(t, "changed")
       ELSE Advance(t, [run[t] EXCEPT !.src = Source("base", files, "")])
    /\ Quiet

\* creationRuntimeLocked: no workspace and no journal.
Unselected(t) ==
    /\ At(t, "unselected")
    /\ IF journal # None \/ sel # None THEN Answer(t, "changed")
       ELSE Advance(t, [run[t] EXCEPT !.src = Source("creation", Absent, "")])
    /\ Quiet

\* The base token, and for an edit the token of the very change as well.
Expected(t) ==
    IF run[t].op \in Edits THEN PreviewToken(Token(t), run[t].choice) ELSE Token(t)

Match(t) ==
    /\ At(t, "match")
    /\ IF TokenMatches(Expected(t), held[t]) /\ (run[t].op \in Edits => files = run[t].src.of)
       THEN Advance(t, run[t])
       ELSE Answer(t, "changed")
    /\ Quiet

\* A candidate that was audited earns a token, an invalid one does not.
Candidate(t) ==
    /\ Answer(t, "ok")
    /\ \/ /\ files = run[t].src.of
          /\ held' = [held EXCEPT ![t] = PreviewToken(held[t], run[t].choice)]
       \/ UNCHANGED held
    /\ UNCHANGED <<host, stores, boot, sessions, events>>

PrepareCandidate(t) ==
    At(t, "candidate") /\ run[t].op = "preview" /\ Candidate(t)

PrepareCreation(t) ==
    At(t, "candidate") /\ run[t].op = "previewCreation" /\ Candidate(t)

\* An edit starts from the files it read, a first creation from none.
AuditCandidate(t) == Audited = run[t].src.of
AuditBootstrap(t) == Audited = Absent /\ sel = None

\* Audit, journal and staging of an edit or of a first creation.
Begin(t) ==
    /\ At(t, "begin")
    /\ IF made = MaxMade
          \/ ~(IF run[t].op = "create" THEN AuditBootstrap(t) ELSE AuditCandidate(t))
       THEN /\ Answer(t, IF made = MaxMade THEN "unavailable" ELSE "changed")
            /\ UNCHANGED <<journal, made>>
       ELSE /\ made' = made + 1
            /\ journal' = [id |-> made + 1, from |-> files, choice |-> run[t].choice,
                           bootstrap |-> run[t].op = "create"]
            /\ Advance(t, run[t])
    /\ UNCHANGED <<exe, files, storage, rsel, sel, boot, sessions, held, events>>

Activate(t) ==
    /\ At(t, "activate") /\ files = run[t].src.of
    /\ files' = journal.id
    /\ Advance(t, [run[t] EXCEPT !.applied = TRUE]) /\ TakesEffect(t)
    /\ UNCHANGED <<exe, made, storage, stores, boot, epoch, session, page, held, events>>

SourcesMoved(t) ==
    /\ At(t, "activate") /\ files # run[t].src.of
    /\ Refuse(t, "changed")

\* Some files are replaced and the next one is not.
ActivatePartly(t) ==
    /\ At(t, "activate") /\ files = run[t].src.of
    /\ made < MaxMade /\ made' = made + 1 /\ files' = made + 1
    /\ run' = [run EXCEPT ![t] =
          [Idle EXCEPT !.op = run[t].op, !.applied = TRUE, !.code = "unavailable"]]
    /\ lease' = None /\ TakesEffect(t)
    /\ UNCHANGED <<exe, storage, stores, gate, boot, epoch, session, page, held, events>>

\* inspectCommitted and FinalizeEdit; otherwise the journal stays.
Finalize(t) ==
    /\ At(t, "finalize")
    /\ IF files = journal.id
       THEN /\ sel' = files /\ journal' = None
            /\ Advance(t, run[t])
       ELSE /\ \E code \in {"changed", "unavailable"} : Answer(t, code)
            /\ UNCHANGED <<sel, journal>>
    /\ UNCHANGED <<host, rsel, boot, sessions, held, events>>

-----------------------------------------------------------------------------
(* The resolution of an interrupted edit.                                  *)

InspectRecovery(t) ==
    /\ At(t, "inspectRecovery")
    /\ IF journal = None THEN Answer(t, "unavailable")
       ELSE Advance(t, [run[t] EXCEPT !.src =
               Source("recovery", journal.id, RecoveryState(journal, files))])
    /\ Quiet

MatchRecovery(t) ==
    /\ At(t, "matchRecovery")
    /\ IF TokenMatches(Token(t), held[t]) THEN Advance(t, run[t]) ELSE Answer(t, "changed")
    /\ Quiet

\* Which resolution the files allow.
Permits(resolution) ==
    LET state == RecoveryState(journal, files) IN
    CASE resolution = "discard" ->
             state = "unapplied" /\ files = (IF journal.bootstrap THEN Absent ELSE sel)
      [] resolution = "finalize" -> state = "applied" /\ ~journal.bootstrap
      [] resolution = "adopt" -> state # "unapplied" /\ Adoptable(files)

ReadCurrent(t) ==
    /\ At(t, "readCurrent")
    /\ IF Permits(run[t].choice)
       THEN Advance(t, [run[t] EXCEPT !.src = Source("current", files, "")])
       ELSE Answer(t, "changed")
    /\ Quiet

Resolve(t) ==
    /\ At(t, "resolve")
    /\ IF files = run[t].src.of
       THEN /\ journal' = None
            /\ sel' = IF run[t].choice = "discard" THEN sel ELSE files
            /\ Advance(t, [run[t] EXCEPT !.applied = TRUE]) /\ TakesEffect(t)
       ELSE /\ Answer(t, "changed")
            /\ UNCHANGED <<sel, journal, late>>
    /\ UNCHANGED <<host, rsel, boot, epoch, session, page, held, events>>

-----------------------------------------------------------------------------
(* Faults, the host and the service.                                       *)

\* The step cannot be carried out: a read, a store or a probe fails.
Fault(t) == Working(t) /\ Refuse(t, "unavailable")

Event == events < MaxEvents /\ events' = events + 1

ReplaceExecutable ==
    /\ Event
    /\ \E e \in Executables : e > exe /\ exe' = e
    /\ UNCHANGED <<files, made, storage, stores, lease, gate, boot, sessions, held, run>>

EditFiles ==
    /\ Event /\ made < MaxMade
    /\ made' = made + 1 /\ files' = made + 1
    /\ UNCHANGED <<exe, storage, stores, lease, gate, boot, sessions, held, run>>

RemoveFiles ==
    /\ Event /\ files # Absent
    /\ files' = Absent
    /\ UNCHANGED <<exe, made, storage, stores, lease, gate, boot, sessions, held, run>>

\* Only a listing in progress can tell one storage state from the next.
ChangeStorage ==
    /\ Event /\ \E t \in Tabs : run[t].tree # 0
    /\ storage' = storage + 1
    /\ UNCHANGED <<exe, files, made, stores, lease, gate, boot, sessions, held, run>>

\* Every session ends: sign-out everywhere, a new password.
Revoke ==
    /\ Event
    /\ epoch' = epoch + 1 /\ late' = 0
    /\ UNCHANGED <<host, stores, lease, gate, boot, session, page, held, run>>

\* The service stops at any point and starts with another token key, perhaps
\* as another release with other manifests.
Restart ==
    /\ Event
    /\ \E b \in Boots : b > boot /\ boot' = b
    /\ run' = [t \in Tabs |-> Idle] /\ lease' = None /\ gate' = None
    /\ UNCHANGED <<host, stores, sessions, held>>

Inspection(t) ==
    \/ BeginInspection(t) \/ InspectionBusy(t) \/ NoSelectedRuntime(t)
    \/ Verify(t) \/ Guard(t)
    \/ PresentCandidate(t) \/ CompareRuntime(t) \/ SaveRuntime(t)

Workspace(t) ==
    \/ LoadSelection(t) \/ VerifyFiles(t) \/ InspectFiles(t) \/ CompareFiles(t)
    \/ AuditStorage(t) \/ List(t) \/ ReauditStorage(t)
    \/ Ready(t) \/ SaveWorkspace(t)

Service(t) ==
    \/ Snapshot(t) \/ View(t) \/ Sources(t) \/ Unselected(t)
    \/ Match(t) \/ PrepareCandidate(t) \/ PrepareCreation(t) \/ Begin(t)
    \/ Activate(t) \/ SourcesMoved(t) \/ ActivatePartly(t) \/ Finalize(t)
    \/ InspectRecovery(t) \/ MatchRecovery(t) \/ ReadCurrent(t) \/ Resolve(t)

Next ==
    \/ \E t \in Tabs :
          \/ \E op \in Requests : Authorize(t, op)
          \/ Reply(t) \/ SignIn(t)
          \/ AcquireWorkspaceLease(t) \/ RequireClearNativeEditJournal(t)
          \/ Reauthorize(t) \/ Inspection(t) \/ Workspace(t) \/ Service(t) \/ Fault(t)
    \/ ReplaceExecutable \/ EditFiles \/ RemoveFiles \/ ChangeStorage
    \/ Revoke \/ Restart

Spec == Init /\ [][Next]_vars

-----------------------------------------------------------------------------
(* Properties.                                                             *)

Versions == 1..MaxMade
Manifests == UNION {{ManifestOf[b][e] : e \in Executables} : b \in Boots}
RuntimeType == [exe : Executables, man : Manifests \ {None}]

\* Every selection names something that can be adopted, and only a request
\* that is being worked on holds the lease or the gate.
TypeOK ==
    /\ exe \in Executables /\ files \in Versions \cup {Absent} /\ made \in Versions
    /\ rsel \in RuntimeType \cup {None} /\ sel \in Versions \cup {None}
    /\ journal # None =>
          /\ journal.id \in Versions /\ journal.from \in Versions \cup {Absent}
          /\ journal.choice \in Changes /\ journal.bootstrap = (sel = None)
    /\ boot \in Boots /\ events \in 0..MaxEvents
    /\ \A t \in Tabs :
          /\ session[t] \in 1..epoch /\ run[t].op \in Requests \cup {"idle"}
          /\ run[t].rt \in RuntimeType \cup {None}
          /\ lease = t \/ gate = t => Working(t)

\* A review is what its order carries out, whatever the other tab and the
\* host did in between: the runtime adopted, the workspace adopted and the
\* journal resolved are the ones this tab was shown; an edit replaces the very
\* files, under the very runtime and by the very change that its preview showed
\* (ReviewFingerprint, tokenMatches and the commit guard).
ChangesAsReviewed ==
    [][/\ rsel' # rsel => \E t \in Tabs :
              lease = t /\ run[t].op = "adoptRuntime" /\ held[t] = RuntimeReviewed(rsel')
       /\ sel' # sel => \E t \in Tabs : lease = t /\
             \/ run[t].op = "adoptWorkspace" /\ held[t] = WorkspaceReviewed(sel')
             \/ run[t].op \in Edits /\ sel' = journal.id
                   /\ held[t].of = journal.from /\ held[t].choice = journal.choice
             \/ run[t].op = "resolve" /\ held[t].of = journal.id /\ sel' = files
       /\ (journal # None /\ files' # files /\ files' = journal.id) =>
             \E t \in Tabs : lease = t /\ held[t] = PreviewToken(
                IF journal.bootstrap THEN CreationBaseToken(rsel) ELSE BaseToken(rsel, files),
                journal.choice)
      ]_vars

\* While an interrupted edit awaits its resolution neither selection changes,
\* except in the very step that clears the journal (requireClearNativeEditJournal
\* runs under the lease, so no edit can begin behind its back).
RecoveryFirst ==
    [][journal # None => /\ rsel' = rsel
                         /\ sel' # sel => journal' = None]_vars

\* Revoking the sessions lets at most one more order take effect: one whose
\* session was checked again while it already owned the lease
\* (reauthorizeMutation inside the lease).
RevocationBound == late <= 1

\* A workspace about to be reported ready shows an inventory that lego listed
\* from the shown files, in the storage state that was audited, with the
\* selected executable (getWorkspace and adoptWorkspace verify again after the
\* listing).
ReadyIsCoherent ==
    \A t \in Tabs : At(t, "ready") \/ At(t, "saveWorkspace") =>
        /\ run[t].inv = [files |-> run[t].src.of, storage |-> run[t].tree]
        /\ run[t].rt = rsel

\* "No reviewed replacement was applied", as the configuration panel tells the
\* administrator whenever a save is answered with configuration_changed.
ConflictAppliedNothing ==
    \A t \in Tabs :
        run[t].op \in Edits /\ run[t].code = "changed" => ~run[t].applied
=============================================================================
