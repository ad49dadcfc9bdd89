---------------------------- MODULE ReviewsProofs ----------------------------
(***************************************************************************)
(* Theorems about Reviews for any number of tabs, executables, manifests,  *)
(* file versions, host changes, revocations and restarts.                  *)
(*                                                                         *)
(* The invariant says, for the request that owns the lease, what the steps *)
(* it has behind it have established and nobody else can take away.  Its   *)
(* parts take the request r, the review h its tab holds and the state they *)
(* speak of as arguments, so that the lemmas about them need no primes.    *)
(***************************************************************************)
EXTENDS Reviews, TLAPS

OpenedType == [exe : Executables, of : RuntimeType \cup {None}]
SourceType ==
    [kind : {"none", "base", "creation", "recovery", "current"}, of : Nat,
     state : {"", "applied", "unapplied", "mixed"}]
Codes == Errors \cup {"", "ok", "ready"}
ListingType == [files : Nat, storage : Nat]
RunType ==
    [op : Requests \cup {"idle"}, pc : Nat,
     choice : Changes \cup Resolutions \cup {None},
     opened : OpenedType \cup {None}, rt : RuntimeType \cup {None},
     src : SourceType, tree : Nat, inv : ListingType \cup {None},
     applied : BOOLEAN, code : Codes]

-----------------------------------------------------------------------------
(* Where a request stands.                                                 *)

WorkedOn(r) == r.op # "idle" /\ r.code = ""

\* Every handler but these two takes the workspace lease, and first of all.
Leased == Requests \ {"getRuntime", "inspectCandidate"}
Adoptions == {"adoptRuntime", "adoptWorkspace"}
Listings == {"getWorkspace", "adoptWorkspace"}

PositionOK(r) ==
    WorkedOn(r) => r.pc \in 1..Len(Program[r.op]) /\ r.choice \in Choices(r.op)

Owns(r) == WorkedOn(r) /\ r.op \in Leased /\ r.pc > 1

\* The executable is open and being probed.
Probing(r) == WorkedOn(r) /\ Program[r.op][r.pc] \in {"verify", "guard", "observe"}

\* The session was checked again and the order is yet to take effect.
Committing(r) ==
    /\ WorkedOn(r)
    /\ \/ r.op = "adoptRuntime" /\ r.pc = 6
       \/ r.op = "adoptWorkspace" /\ r.pc = 11
       \/ r.op \in Edits \cup {"resolve"} /\ r.pc \in 8..10

-----------------------------------------------------------------------------
(* What the owner of the lease can rely on.                                *)

RuntimeOK(r, R) ==
    /\ r.op # "adoptRuntime" /\ r.pc > 4 => r.rt = R
    /\ Program[r.op][r.pc] \in {"verify", "guard"} => r.opened.of = R

AdoptionOK(r, h, J) ==
    /\ r.op \in Adoptions /\ r.pc > 2 => J = None
    /\ r.op = "adoptRuntime" /\ r.pc > 4 => h = RuntimeReviewed(r.rt)
    /\ r.op = "adoptWorkspace" /\ r.pc > 5 => h = WorkspaceReviewed(r.src.of)

\* The listing is of the files that were verified, or those are gone for
\* good: no version comes back while an adoption or a reading owns the lease.
ListingOK(r, D, F, M, S) ==
    r.op \in Listings =>
        /\ r.op = "getWorkspace" /\ r.pc > 2 => D \in 1..M
        /\ r.pc > 5 => r.src.of \in 1..M
        /\ r.pc \in {7, 8} => r.tree <= S
        /\ r.pc \in {8, 9} =>
              /\ r.inv \in ListingType /\ (r.inv.files = r.src.of \/ F # r.src.of)
              /\ r.op = "getWorkspace" => r.src.of = D
        /\ r.pc \in {6, 7} /\ r.op = "getWorkspace" => r.src.of = D
        /\ r.pc = 8 => r.tree <= r.inv.storage /\ r.inv.storage <= S
        /\ r.pc = 9 => r.inv.storage = r.tree
        /\ r.pc > 9 => r.inv = [files |-> r.src.of, storage |-> r.tree]

\* The token of what an edit or a first creation started from.
BaseOf(op, b, rt, v) ==
    [Review(IF op = "create" THEN "creation" ELSE "base", rt, v) EXCEPT !.boot = b]

EditOK(r, h, D, J, B, M) ==
    r.op \in Edits /\ r.pc \in 3..11 =>
        /\ r.src.kind = IF r.op = "create" THEN "creation" ELSE "base"
        /\ IF r.op = "create" THEN r.src.of = Absent ELSE D # None
        /\ r.pc > 5 => h = PreviewToken(BaseOf(r.op, B, r.rt, r.src.of), r.choice)
        /\ r.pc > 6 =>
              /\ J.id \in 1..M /\ J.from = r.src.of /\ J.choice = r.choice
              /\ J.bootstrap = (r.op = "create")

ResolutionOK(r, h, J, M) ==
    r.op = "resolve" /\ r.pc \in 3..10 =>
        /\ J # None
        /\ r.pc < 6 => r.src.kind = "recovery" /\ r.src.of = J.id
        /\ r.pc > 5 => h.of = J.id
        /\ r.pc > 6 /\ r.choice # "discard" => r.src.of \in 1..M

OwnerOK(r, h, R, D, J, B, F, M, S) ==
    /\ RuntimeOK(r, R) /\ AdoptionOK(r, h, J) /\ ListingOK(r, D, F, M, S)
    /\ EditOK(r, h, D, J, B, M) /\ ResolutionOK(r, h, J, M)

-----------------------------------------------------------------------------
(* The inductive invariant.                                                *)

StoresOK ==
    /\ exe \in Executables /\ made \in 1..MaxMade /\ files \in 0..made /\ storage \in Nat
    /\ rsel \in RuntimeType \cup {None} /\ sel \in (1..made) \cup {None}
    /\ journal # None =>
          /\ journal.id \in 1..made /\ journal.from \in 0..made
          /\ journal.choice \in Changes /\ journal.bootstrap = (sel = None)
    /\ boot \in Boots /\ events \in 0..MaxEvents

SessionsOK ==
    /\ epoch \in Nat /\ session \in [Tabs -> Nat]
    /\ \A t \in Tabs : session[t] \in 1..epoch

RequestsOK ==
    /\ run \in [Tabs -> RunType] /\ held = [t \in Tabs |-> held[t]]
    /\ \A t \in Tabs : PositionOK(run[t]) /\ (Probing(run[t]) => run[t].opened \in OpenedType)

LocksOK ==
    /\ lease \in Tabs \cup {None} /\ gate \in Tabs \cup {None}
    /\ \A t \in Tabs : (lease = t <=> Owns(run[t])) /\ (gate = t => Probing(run[t]))

OwnersOK ==
    \A t \in Tabs : lease = t =>
        OwnerOK(run[t], held[t], rsel, sel, journal, boot, files, made, storage)

\* RevocationBound: the one late order was the owner's, and every later owner
\* had its session checked after the revocation.
LateOK ==
    /\ late \in {0, 1}
    /\ late = 1 => \A t \in Tabs : Committing(run[t]) => session[t] = epoch

Inv == StoresOK /\ SessionsOK /\ RequestsOK /\ LocksOK /\ OwnersOK /\ LateOK

-----------------------------------------------------------------------------
(* The programs, step by step.                                             *)

\* The handlers by name.
LEMMA TheRequests ==
    Requests = {"getRuntime", "inspectCandidate", "adoptRuntime", "getWorkspace",
                "inspectWorkspace", "adoptWorkspace", "getConfiguration", "preview",
                "save", "previewCreation", "create", "resolve"}
BY DEF Requests, Program

\* The steps of the two handlers without a lease.
LEMMA UnleasedPrograms ==
    /\ LET s == Program["getRuntime"] IN Len(s) = 2 /\ s[1] = "open" /\ s[2] = "verify"
    /\ LET s == Program["inspectCandidate"]
       IN  Len(s) = 2 /\ s[1] = "openCandidate" /\ s[2] = "observe"
BY DEF Program, getRuntime, inspectCandidate, loadRuntime, inspect

\* The steps of the adoptions.
LEMMA AdoptionPrograms ==
    /\ LET s == Program["adoptRuntime"]
       IN  /\ Len(s) = 6 /\ s[1] = "lease" /\ s[2] = "journal" /\ s[3] = "openCandidate"
           /\ s[4] = "observe" /\ s[5] = "reauthorize" /\ s[6] = "saveRuntime"
    /\ LET s == Program["adoptWorkspace"]
       IN  /\ Len(s) = 11 /\ s[1] = "lease" /\ s[2] = "journal" /\ s[3] = "open"
           /\ s[4] = "verify" /\ s[5] = "compareFiles" /\ s[6] = "auditStorage"
           /\ s[7] = "list" /\ s[8] = "reauditStorage" /\ s[9] = "compareFiles"
           /\ s[10] = "reauthorize" /\ s[11] = "saveWorkspace"
BY DEF Program, adoptRuntime, adoptWorkspace, inspect, prepareCurrent, inventoryRead

\* The steps of the handlers that only read.
LEMMA ReadingPrograms ==
    /\ LET s == Program["getWorkspace"]
       IN  /\ Len(s) = 10 /\ s[1] = "lease" /\ s[2] = "load" /\ s[3] = "open"
           /\ s[4] = "verify" /\ s[5] = "verifyFiles" /\ s[6] = "auditStorage"
           /\ s[7] = "list" /\ s[8] = "reauditStorage" /\ s[9] = "verifyFiles"
           /\ s[10] = "ready"
    /\ LET s == Program["inspectWorkspace"]
       IN  Len(s) = 4 /\ s[1] = "lease" /\ s[2] = "open" /\ s[3] = "verify"
           /\ s[4] = "inspectFiles"
    /\ LET s == Program["getConfiguration"]
       IN  Len(s) = 5 /\ s[1] = "lease" /\ s[2] = "snapshot" /\ s[3] = "open"
           /\ s[4] = "verify" /\ s[5] = "view"
    /\ LET s == Program["preview"]
       IN  Len(s) = 6 /\ s[1] = "lease" /\ s[2] = "sources" /\ s[3] = "open"
           /\ s[4] = "verify" /\ s[5] = "match" /\ s[6] = "candidate"
    /\ LET s == Program["previewCreation"]
       IN  Len(s) = 6 /\ s[1] = "lease" /\ s[2] = "unselected" /\ s[3] = "open"
           /\ s[4] = "verify" /\ s[5] = "match" /\ s[6] = "candidate"
BY DEF Program, getWorkspace, inspectWorkspace, getConfiguration,
       previewConfiguration, previewCreation, prepareCurrent, inventoryRead,
       snapshotService, snapshotLocked, previewService, previewCreationService,
       evaluateLocked, creationRuntimeLocked, loadRuntime

\* The steps of an edit and of a first creation.
LEMMA EditPrograms ==
    /\ Program["save"][2] = "sources" /\ Program["create"][2] = "unselected"
    /\ \A op \in Edits :
        LET s == Program[op]
        IN  /\ Len(s) = 15 /\ s[1] = "lease"
            /\ s[3] = "open" /\ s[4] = "verify" /\ s[5] = "match" /\ s[6] = "begin"
            /\ s[7] = "reauthorize" /\ s[8] = "open" /\ s[9] = "guard"
            /\ s[10] = "activate" /\ s[11] = "finalize" /\ s[12] = "snapshot"
            /\ s[13] = "open" /\ s[14] = "verify" /\ s[15] = "view"
BY DEF Program, Edits, saveConfiguration, createConfiguration, saveService,
       createService, evaluateLocked, creationRuntimeLocked, loadRuntime, commit,
       commitGuard, snapshotLocked

\* The steps of the resolution of an interrupted edit.
LEMMA ResolvePrograms ==
    LET s == Program["resolve"]
    IN  /\ Len(s) = 14 /\ s[1] = "lease" /\ s[2] = "inspectRecovery" /\ s[3] = "open"
        /\ s[4] = "verify" /\ s[5] = "matchRecovery" /\ s[6] = "readCurrent"
        /\ s[7] = "reauthorize" /\ s[8] = "open" /\ s[9] = "guard" /\ s[10] = "resolve"
        /\ s[11] = "snapshot" /\ s[12] = "open" /\ s[13] = "verify" /\ s[14] = "view"
BY DEF Program, resolveRecovery, resolveService, loadRuntime, commitGuard, snapshotLocked

\* No program is empty.
LEMMA ProgramLength == \A op \in Requests : Len(Program[op]) \in Nat \ {0}
BY TheRequests, UnleasedPrograms, AdoptionPrograms, ReadingPrograms, EditPrograms,
   ResolvePrograms DEF Edits

\* Which request stands where, by the step it is at.
Places(op, i, step) ==
    /\ step = "lease" => op \in Leased /\ i = 1
    /\ step = "journal" => op \in Adoptions /\ i = 2
    /\ step = "reauthorize" =>
          \/ op = "adoptRuntime" /\ i = 5
          \/ op = "adoptWorkspace" /\ i = 10
          \/ op \in Edits \cup {"resolve"} /\ i = 7
    /\ step = "openCandidate" =>
          (op = "inspectCandidate" /\ i = 1) \/ (op = "adoptRuntime" /\ i = 3)
    /\ step = "observe" =>
          (op = "inspectCandidate" /\ i = 2) \/ (op = "adoptRuntime" /\ i = 4)
    /\ step = "saveRuntime" => op = "adoptRuntime" /\ i = 6
    /\ step \in {"open", "verify"} => op \notin {"adoptRuntime", "inspectCandidate"}
    /\ step = "open" => i \in {1, 2, 3, 8, 12, 13} /\ (i = 1 <=> op = "getRuntime")
    /\ step = "open" /\ i \in {12, 13} => op \in Edits \cup {"resolve"}
    /\ step = "open" /\ i = 8 => op \in Edits \cup {"resolve"}
    /\ step = "verify" => i \in {2, 3, 4, 13, 14} /\ (i = 2 <=> op = "getRuntime")
    /\ step = "verify" /\ i \in {13, 14} => op \in Edits \cup {"resolve"}
    /\ step = "guard" => op \in Edits \cup {"resolve"} /\ i = 9
    /\ step = "load" => op = "getWorkspace" /\ i = 2
    /\ step = "verifyFiles" => op = "getWorkspace" /\ i \in {5, 9}
    /\ step = "inspectFiles" => op = "inspectWorkspace" /\ i = 4
    /\ step = "compareFiles" => op = "adoptWorkspace" /\ i \in {5, 9}
    /\ step = "auditStorage" => op \in Listings /\ i = 6
    /\ step = "list" => op \in Listings /\ i = 7
    /\ step = "reauditStorage" => op \in Listings /\ i = 8
    /\ step = "ready" => op = "getWorkspace" /\ i = 10
    /\ step = "saveWorkspace" => op = "adoptWorkspace" /\ i = 11
    /\ step = "snapshot" =>
          \/ op = "getConfiguration" /\ i = 2
          \/ op \in Edits /\ i = 12
          \/ op = "resolve" /\ i = 11
    /\ step = "view" => op \in Edits \cup {"getConfiguration", "resolve"} /\ i \in {5, 14, 15}
    /\ step = "sources" => op \in {"preview", "save"} /\ i = 2
    /\ step = "unselected" => op \in {"previewCreation", "create"} /\ i = 2
    /\ step = "match" => op \in Edits \cup {"preview", "previewCreation"} /\ i = 5
    /\ step = "candidate" => op \in {"preview", "previewCreation"} /\ i = 6
    /\ step = "begin" => op \in Edits /\ i = 6
    /\ step = "activate" => op \in Edits /\ i = 10
    /\ step = "finalize" => op \in Edits /\ i = 11
    /\ step = "inspectRecovery" => op = "resolve" /\ i = 2
    /\ step = "matchRecovery" => op = "resolve" /\ i = 5
    /\ step = "readCurrent" => op = "resolve" /\ i = 6
    /\ step = "resolve" => op = "resolve" /\ i = 10

\* What follows a step that opens the executable, or that takes the lease;
\* every probe follows an opening, every handler with a lease begins with it.
Follows(op, i, step) ==
    /\ step = "openCandidate" => i + 1 <= Len(Program[op]) /\ Program[op][i + 1] = "observe"
    /\ step = "open" =>
          i + 1 <= Len(Program[op]) /\ Program[op][i + 1] \in {"verify", "guard"}
    /\ step = "lease" => i + 1 <= Len(Program[op])
    /\ i < Len(Program[op]) /\ Program[op][i + 1] \in {"verify", "guard", "observe"} =>
          step \in {"open", "openCandidate"}
    /\ op \in Leased /\ i = 1 => step = "lease"

LEMMA StepPlaces ==
    ASSUME NEW op \in Requests, NEW i \in 1..Len(Program[op])
    PROVE  Places(op, i, Program[op][i]) /\ Follows(op, i, Program[op][i])
<1> USE DEF Places, Follows, Leased, Adoptions, Listings, Edits
<1>1. CASE op \in {"getRuntime", "inspectCandidate"}
  BY <1>1, UnleasedPrograms, TheRequests
<1>2. CASE op = "adoptRuntime"
  BY <1>2, AdoptionPrograms, TheRequests
<1>3. CASE op = "adoptWorkspace"
  BY <1>3, AdoptionPrograms, TheRequests
<1>4. CASE op = "getWorkspace"
  BY <1>4, ReadingPrograms, TheRequests
<1>5. CASE op \in {"inspectWorkspace", "getConfiguration"}
  <2>1. CASE op = "inspectWorkspace"
    BY <2>1, ReadingPrograms, TheRequests
  <2>2. CASE op = "getConfiguration"
    BY <2>2, ReadingPrograms, TheRequests
  <2>3. QED
    BY <1>5, <2>1, <2>2
<1>6. CASE op \in {"preview", "previewCreation"}
  <2>1. CASE op = "preview"
    BY <2>1, ReadingPrograms, TheRequests
  <2>2. CASE op = "previewCreation"
    BY <2>2, ReadingPrograms, TheRequests
  <2>3. QED
    BY <1>6, <2>1, <2>2
<1>7. CASE op \in Edits
  <2>1. i \in 1..15 /\ Len(Program[op]) = 15 /\ op \in Leased
    BY <1>7, EditPrograms, TheRequests
  <2>2. i \in {3, 4, 5, 6, 7, 8, 9, 10, 11, 12, 13, 14, 15} \/ i = 1 \/ i = 2
    BY <2>1
  <2>3. CASE i = 1 \/ i = 2
    BY <1>7, <2>1, <2>3, EditPrograms
  <2>4. CASE i \in {3, 4, 5, 6, 7, 8}
    BY <1>7, <2>1, <2>4, EditPrograms
  <2>5. CASE i \in {9, 10, 11, 12, 13, 14, 15}
    BY <1>7, <2>1, <2>5, EditPrograms
  <2>6. QED
    BY <2>2, <2>3, <2>4, <2>5
<1>8. CASE op = "resolve"
  BY <1>8, ResolvePrograms, TheRequests
<1>9. QED
  BY <1>1, <1>2, <1>3, <1>4, <1>5, <1>6, <1>7, <1>8, TheRequests

\* The place of a request that is worked on, and the next one.
LEMMA AtPlace ==
    ASSUME RequestsOK, NEW t \in Tabs, NEW step, At(t, step)
    PROVE  /\ WorkedOn(run[t]) /\ run[t] \in RunType /\ run[t].op \in Requests
           /\ run[t].pc \in 1..Len(Program[run[t].op])
           /\ Program[run[t].op][run[t].pc] = step
           /\ Places(run[t].op, run[t].pc, step) /\ Follows(run[t].op, run[t].pc, step)
<1>1. WorkedOn(run[t]) /\ run[t] \in RunType /\ run[t].op \in Requests
  BY DEF RequestsOK, At, Working, WorkedOn, RunType
<1>2. /\ run[t].pc \in 1..Len(Program[run[t].op])
      /\ Program[run[t].op][run[t].pc] = step
  BY <1>1 DEF RequestsOK, PositionOK, At, Step
<1>3. QED
  BY <1>1, <1>2, StepPlaces

-----------------------------------------------------------------------------
(* Steps of one tab.                                                       *)

\* The request of t becomes r: what has to be shown of r, and of the stores.
\* Only the owner of the lease may change these, so no other owner is disturbed.
LEMMA TabStep ==
    ASSUME Inv, NEW t \in Tabs, NEW r \in RunType, run' = [run EXCEPT ![t] = r],
           StoresOK', UNCHANGED <<boot, epoch, session>>,
           held' = [u \in Tabs |-> held'[u]],
           \A u \in Tabs \ {t} : held'[u] = held[u],
           lease = t \/ UNCHANGED <<host, stores>>,
           lease' \in Tabs \cup {None}, gate' \in Tabs \cup {None},
           \A u \in Tabs \ {t} : (lease' = u <=> lease = u) /\ (gate' = u => gate = u),
           PositionOK(r), Probing(r) => r.opened \in OpenedType,
           lease' = t <=> Owns(r), gate' = t => Probing(r),
           lease' = t => OwnerOK(r, held'[t], rsel', sel', journal', boot',
                                 files', made', storage'),
           \/ late' = late
           \/ session[t] # epoch /\ Committing(run[t]) /\ late' = late + 1,
           Committing(r) => /\ late' = late
                            /\ Committing(run[t]) \/ session[t] = epoch
    PROVE  Inv'
<1>1. run'[t] = r /\ \A u \in Tabs \ {t} : run'[u] = run[u]
  BY DEF Inv, RequestsOK
<1>2. SessionsOK'
  BY DEF Inv, SessionsOK
<1>3. RequestsOK'
  <2>1. run' \in [Tabs -> RunType]
    BY DEF Inv, RequestsOK
  <2>2. QED
    BY <1>1, <2>1 DEF Inv, RequestsOK
<1>4. LocksOK'
  BY <1>1 DEF Inv, LocksOK
<1>5. OwnersOK'
  <2>1. SUFFICES ASSUME NEW u \in Tabs, lease' = u
                 PROVE  OwnerOK(run'[u], held'[u], rsel', sel', journal', boot',
                                files', made', storage')
    BY DEF OwnersOK
  <2>2. CASE u = t
    BY <1>1, <2>1, <2>2
  <2>3. CASE u # t
    <3>1. lease = u /\ UNCHANGED <<rsel, sel, journal, boot, files, made, storage>>
      BY <2>1, <2>3 DEF host, stores
    <3>2. OwnerOK(run[u], held[u], rsel, sel, journal, boot, files, made, storage)
      BY <3>1 DEF Inv, OwnersOK
    <3>3. run'[u] = run[u] /\ held'[u] = held[u]
      BY <1>1, <2>3
    <3>4. QED
      BY <3>1, <3>2, <3>3
  <2>4. QED
    BY <2>2, <2>3
<1>6. LateOK'
  <2>1. \A u \in Tabs : Committing(run[u]) => lease = u
    BY TheRequests DEF Inv, LocksOK, Owns, Committing, Leased, Edits
  <2>2. CASE late' = late
    BY <1>1, <2>2 DEF Inv, LateOK
  <2>3. CASE session[t] # epoch /\ Committing(run[t]) /\ late' = late + 1 /\ late' # late
    <3>1. late' = 1
      BY <2>3 DEF Inv, LateOK
    <3>2. lease = t
      BY <2>1, <2>3
    <3>3. ASSUME NEW u \in Tabs, Committing(run'[u]) PROVE FALSE
      <4>1. CASE u = t
        BY <1>1, <2>3, <3>3, <4>1
      <4>2. CASE u # t
        BY <1>1, <2>1, <3>2, <3>3, <4>2
      <4>3. QED
        BY <4>1, <4>2
    <3>4. QED
      BY <3>1, <3>3 DEF LateOK
  <2>4. QED
    BY <2>2, <2>3
<1>7. QED
  BY <1>2, <1>3, <1>4, <1>5, <1>6 DEF Inv

\* A tab without a request.
LEMMA IdleTyped == Idle \in RunType
<1>1. NoSource \in SourceType
  BY DEF NoSource, SourceType
<1>2. QED
  BY <1>1 DEF Idle, RunType, Codes

\* Every answer has a code.
LEMMA ErrorsNotEmpty == "" \notin Errors
BY DEF Errors

\* A request that is answered is no longer worked on and owns nothing.
LEMMA AnsweredRun ==
    ASSUME RequestsOK, NEW t \in Tabs, NEW code \in Codes, Answer(t, code)
    PROVE  \E r \in RunType :
              run' = [run EXCEPT ![t] = r] /\ ~WorkedOn(r) /\ ~Owns(r) /\ ~Probing(r)
                 /\ ~Committing(r) /\ PositionOK(r)
<1> DEFINE r == IF run[t].applied /\ code \in Errors
                THEN [Idle EXCEPT !.op = run[t].op, !.applied = TRUE, !.code = code]
                ELSE Idle
<1>1. Idle \in RunType
  BY IdleTyped
<1>2. r \in RunType
  BY <1>1 DEF RequestsOK, RunType
<1>3. ~WorkedOn(r)
  <2>1. CASE run[t].applied /\ code \in Errors
    <3>1. r.code = code
      BY <2>1 DEF Idle
    <3>2. QED
      BY <2>1, <3>1, ErrorsNotEmpty DEF WorkedOn
  <2>2. CASE ~(run[t].applied /\ code \in Errors)
    BY <2>2 DEF WorkedOn, Idle
  <2>3. QED
    BY <2>1, <2>2
<1>4. run' = [run EXCEPT ![t] = r]
  BY DEF Answer
<1> HIDE DEF r
<1>5. ~Owns(r) /\ ~Probing(r) /\ ~Committing(r) /\ PositionOK(r)
  BY <1>3 DEF Owns, Probing, Committing, PositionOK
<1>6. QED
  BY <1>2, <1>3, <1>4, <1>5

\* The locks after an answer.
LEMMA AnsweredLocks ==
    ASSUME LocksOK, NEW t \in Tabs, NEW code, Answer(t, code)
    PROVE  /\ lease' \in Tabs \cup {None} /\ gate' \in Tabs \cup {None}
           /\ \A u \in Tabs \ {t} : (lease' = u <=> lease = u) /\ (gate' = u => gate = u)
           /\ lease' # t /\ gate' # t
BY ReviewsAssumption DEF LocksOK, Answer

\* An answer, with what the handler did to the stores under the lease.
LEMMA AnswerOK ==
    ASSUME Inv, NEW t \in Tabs, NEW code \in Codes, Answer(t, code), StoresOK',
           UNCHANGED <<boot, epoch, session>>, held' = [u \in Tabs |-> held'[u]],
           \A u \in Tabs \ {t} : held'[u] = held[u],
           lease = t \/ UNCHANGED <<host, stores>>,
           \/ late' = late
           \/ session[t] # epoch /\ Committing(run[t]) /\ late' = late + 1
    PROVE  Inv'
<1>1. PICK r \in RunType :
           run' = [run EXCEPT ![t] = r] /\ ~WorkedOn(r) /\ ~Owns(r) /\ ~Probing(r)
              /\ ~Committing(r) /\ PositionOK(r)
  BY AnsweredRun DEF Inv
<1>2. /\ lease' \in Tabs \cup {None} /\ gate' \in Tabs \cup {None}
      /\ \A u \in Tabs \ {t} : (lease' = u <=> lease = u) /\ (gate' = u => gate = u)
      /\ lease' # t /\ gate' # t
  BY AnsweredLocks DEF Inv
<1>3. QED
  BY <1>1, <1>2, TabStep

\* What the locals of a request keep from one step to the next.
SameRequest(l, r) == l.op = r.op /\ l.pc = r.pc /\ l.choice = r.choice /\ l.code = r.code

\* The request with these locals, one step further and not at a probe.
Follower(l, r) ==
    /\ r \in RunType /\ r.op = l.op /\ r.pc = l.pc + 1 /\ r.choice = l.choice
    /\ r.rt = l.rt /\ r.src = l.src /\ r.tree = l.tree /\ r.inv = l.inv
    /\ WorkedOn(r) /\ Program[r.op][r.pc] \notin {"verify", "guard", "observe"}

\* Where the next step is.
LEMMA NextPlace ==
    ASSUME Inv, NEW t \in Tabs, NEW step, At(t, step),
           step \notin {"open", "openCandidate", "lease"},
           NEW l \in RunType, SameRequest(l, run[t]), run[t].pc # Len(Program[run[t].op])
    PROVE  LET r == [l EXCEPT !.pc = l.pc + 1] IN
              Follower(l, r) /\ PositionOK(r) /\ ~Probing(r) /\ (Owns(r) <=> lease = t)
<1> DEFINE r == [l EXCEPT !.pc = l.pc + 1]
<1>1. /\ WorkedOn(run[t]) /\ run[t].op \in Requests
      /\ run[t].pc \in 1..Len(Program[run[t].op])
      /\ Follows(run[t].op, run[t].pc, step)
  BY AtPlace DEF Inv
<1>2. l.pc \in Nat /\ r \in RunType
  BY DEF RunType
<1>3. r.op = l.op /\ r.pc = l.pc + 1 /\ r.choice = l.choice /\ r.rt = l.rt /\ r.src = l.src
      /\ r.tree = l.tree /\ r.inv = l.inv /\ r.code = l.code
  BY DEF RunType
<1> HIDE DEF r
<1>4. WorkedOn(r) /\ r.op = run[t].op /\ r.pc = run[t].pc + 1
  BY <1>1, <1>3 DEF SameRequest, WorkedOn
<1>5. Len(Program[run[t].op]) \in Nat
  BY <1>1, ProgramLength
<1>6. r.pc \in 1..Len(Program[r.op]) /\ run[t].pc < Len(Program[run[t].op])
  BY <1>1, <1>4, <1>5
<1>7. PositionOK(r)
  BY <1>1, <1>3, <1>4, <1>6 DEF Inv, RequestsOK, PositionOK, SameRequest
<1>8. Program[r.op][r.pc] \notin {"verify", "guard", "observe"}
  BY <1>1, <1>4, <1>6 DEF Follows
<1>9. Owns(r) <=> lease = t
  <2>1. Owns(r) <=> run[t].op \in Leased
    BY <1>1, <1>4 DEF Owns
  <2>2. lease = t <=> run[t].op \in Leased /\ run[t].pc > 1
    BY <1>1 DEF Inv, LocksOK, Owns
  <2>3. run[t].op \in Leased => run[t].pc > 1
    BY <1>1 DEF Follows
  <2>4. QED
    BY <2>1, <2>2, <2>3
<1>10. QED
  BY <1>2, <1>3, <1>4, <1>7, <1>8, <1>9 DEF r, Follower, Probing

\* A step that goes on: what has to be shown of the request after it.
LEMMA AdvanceOK ==
    ASSUME Inv, NEW t \in Tabs, NEW step, At(t, step),
           step \notin {"open", "openCandidate", "lease"},
           NEW l \in RunType, SameRequest(l, run[t]), Advance(t, l), StoresOK',
           UNCHANGED <<boot, epoch, session, held>>,
           lease = t \/ UNCHANGED <<host, stores>>, gate = t => l.opened = None,
           lease = t => \A r : Follower(l, r) =>
               OwnerOK(r, held[t], rsel', sel', journal', boot, files', made', storage'),
           \/ late' = late
           \/ session[t] # epoch /\ Committing(run[t]) /\ late' = late + 1,
           \A r : Follower(l, r) /\ Committing(r) =>
               late' = late /\ (Committing(run[t]) \/ session[t] = epoch)
    PROVE  Inv'
<1>1. held' = [u \in Tabs |-> held'[u]]
  BY DEF Inv, RequestsOK
<1>2. CASE run[t].pc = Len(Program[run[t].op])
  <2>1. Answer(t, "ok") /\ "ok" \in Codes
    BY <1>2 DEF Advance, Codes
  <2>2. QED
    BY <1>1, <2>1, AnswerOK
<1>3. CASE run[t].pc # Len(Program[run[t].op])
  <2> DEFINE r == [l EXCEPT !.pc = l.pc + 1]
  <2>1. Follower(l, r) /\ PositionOK(r) /\ ~Probing(r) /\ (Owns(r) <=> lease = t)
    BY <1>3, NextPlace
  <2>2. /\ run' = [run EXCEPT ![t] = r] /\ lease' = lease
        /\ gate' = IF gate = t /\ l.opened = None THEN None ELSE gate
    BY <1>3 DEF Advance
  <2> HIDE DEF r
  <2>3. /\ gate' \in Tabs \cup {None} /\ lease' \in Tabs \cup {None}
        /\ gate' # t /\ \A u \in Tabs \ {t} : gate' = u => gate = u
    BY <2>2, ReviewsAssumption DEF Inv, LocksOK
  <2>4. lease = t => OwnerOK(r, held[t], rsel', sel', journal', boot, files', made', storage')
    BY <2>1
  <2>5. Committing(r) => late' = late /\ (Committing(run[t]) \/ session[t] = epoch)
    BY <2>1
  <2>6. QED
    BY <1>1, <2>1, <2>2, <2>3, <2>4, <2>5, TabStep DEF Follower
<1>4. QED
  BY <1>2, <1>3

\* Steps that leave the stores alone.
LEMMA QuietStores ==
    ASSUME StoresOK, UNCHANGED <<host, stores, boot, events>>
    PROVE  StoresOK'
BY DEF StoresOK, host, stores

LEMMA QuietAnswer ==
    ASSUME Inv, NEW t \in Tabs, NEW code \in Codes, Answer(t, code), Quiet
    PROVE  Inv'
<1>1. StoresOK'
  BY QuietStores DEF Inv, Quiet
<1>2. UNCHANGED <<boot, epoch, session, held, late, host, stores>>
  BY DEF Quiet, sessions
<1>3. held' = [u \in Tabs |-> held'[u]]
  BY <1>2 DEF Inv, RequestsOK
<1>4. QED
  BY <1>1, <1>2, <1>3, AnswerOK

\* An answer that shows the tab something.
LEMMA ShowingAnswer ==
    ASSUME Inv, NEW t \in Tabs, NEW code \in Codes, Answer(t, code),
           UNCHANGED <<host, stores, boot, sessions, events>>,
           NEW h, held' = [held EXCEPT ![t] = h] \/ held' = held
    PROVE  Inv'
<1>1. StoresOK'
  BY QuietStores DEF Inv
<1>2. UNCHANGED <<boot, epoch, session, late, host, stores>>
  BY DEF sessions
<1>3. held' = [u \in Tabs |-> held'[u]] /\ \A u \in Tabs \ {t} : held'[u] = held[u]
  BY DEF Inv, RequestsOK
<1>4. QED
  BY <1>1, <1>2, <1>3, AnswerOK

LEMMA QuietAdvance ==
    ASSUME Inv, NEW t \in Tabs, NEW step, At(t, step),
           step \notin {"open", "openCandidate", "lease"},
           NEW l \in RunType, SameRequest(l, run[t]), Advance(t, l), Quiet,
           gate = t => l.opened = None,
           lease = t => \A r : Follower(l, r) =>
               OwnerOK(r, held[t], rsel, sel, journal, boot, files, made, storage),
           \A r : Follower(l, r) /\ Committing(r) =>
               Committing(run[t]) \/ session[t] = epoch
    PROVE  Inv'
<1>1. StoresOK'
  BY QuietStores DEF Inv, Quiet
<1>2. UNCHANGED <<boot, epoch, session, held, late, host, stores>>
  BY DEF Quiet, sessions
<1>3. UNCHANGED <<rsel, sel, journal, files, made, storage>>
  BY <1>2 DEF host, stores
<1>4. lease = t => \A r : Follower(l, r) =>
          OwnerOK(r, held[t], rsel', sel', journal', boot, files', made', storage')
  BY <1>3
<1>5. \A r : Follower(l, r) /\ Committing(r) =>
          late' = late /\ (Committing(run[t]) \/ session[t] = epoch)
  BY <1>2
<1>6. QED
  BY <1>1, <1>2, <1>4, <1>5, AdvanceOK

\* A step that cannot be carried out; a prepared edit may remove its journal.
LEMMA RefuseOK ==
    ASSUME Inv, NEW t \in Tabs, NEW code \in Codes, Refuse(t, code)
    PROVE  Inv'
<1>1. UNCHANGED <<boot, epoch, session, held, late, host, rsel, sel, events>> /\ Answer(t, code)
  BY DEF Refuse, sessions
<1>2. held' = [u \in Tabs |-> held'[u]]
  BY <1>1 DEF Inv, RequestsOK
<1>3. journal' = journal \/ (lease = t /\ journal' = None)
  BY DEF Refuse, Prepared
<1>4. StoresOK'
  BY <1>1, <1>3 DEF Inv, StoresOK, host
<1>5. lease = t \/ UNCHANGED <<host, stores>>
  BY <1>1, <1>3 DEF stores
<1>6. QED
  BY <1>1, <1>2, <1>4, <1>5, AnswerOK

-----------------------------------------------------------------------------
(* One lemma per action: how a request begins and ends.                    *)

\* Each answer and each locals of a request is typed.
LEMMA CodesKnown ==
    Codes = {"busy", "changed", "invalid", "recovery", "runtime", "unauthorized",
             "unavailable", "", "ok", "ready"}
BY DEF Codes, Errors

LEMMA AuthorizeOK ==
    ASSUME Inv, NEW t \in Tabs, NEW op \in Requests, Authorize(t, op)
    PROVE  Inv'
<1>1. CASE session[t] # epoch \/ ~WellFormed(op, held[t])
  <2>1. PICK code \in Codes : Answer(t, code)
    BY <1>1, CodesKnown DEF Authorize
  <2>2. QED
    BY <2>1, QuietAnswer DEF Authorize
<1>2. CASE session[t] = epoch /\ WellFormed(op, held[t])
  <2>1. PICK c \in Choices(op) : run' = [run EXCEPT ![t] = [Idle EXCEPT !.op = op, !.choice = c]]
    BY <1>2 DEF Authorize
  <2> DEFINE r == [Idle EXCEPT !.op = op, !.choice = c]
  <2>2. r.op = op /\ r.choice = c /\ r.pc = 1 /\ r.code = ""
    BY DEF Idle
  <2>3. c \in Changes \cup Resolutions \cup {None}
    BY DEF Choices
  <2>4. r \in RunType
    BY <2>3, IdleTyped DEF RunType
  <2>5. /\ UNCHANGED <<lease, gate, boot, epoch, session, held, late, host, stores, events>>
        /\ run[t] = Idle
    BY <1>2 DEF Authorize, Quiet, sessions
  <2>6. run' = [run EXCEPT ![t] = r]
    BY <2>1
  <2> HIDE DEF r
  <2>7. ~WorkedOn(run[t]) /\ ~Owns(run[t]) /\ ~Probing(run[t])
    <3>1. Idle.op = "idle"
      BY DEF Idle
    <3>2. QED
      BY <2>5, <3>1 DEF WorkedOn, Owns, Probing
  <2>8. lease # t /\ gate # t
    BY <2>7 DEF Inv, LocksOK
  <2>9. ~Owns(r) /\ ~Committing(r)
    <3>1. \A i : i = 1 => ~(i > 1) /\ i # 6 /\ i # 11 /\ i \notin 8..10
      OBVIOUS
    <3>2. QED
      BY <2>2, <3>1 DEF Owns, Committing
  <2>10. 1 \in 1..Len(Program[op])
    BY ProgramLength
  <2>11. PositionOK(r)
    BY <2>2, <2>10 DEF PositionOK
  <2>12. ~Probing(r)
    <3>1. Places(op, 1, Program[op][1])
      BY <2>10, StepPlaces
    <3>2. Program[op][1] \notin {"verify", "guard", "observe"}
      BY <3>1 DEF Places
    <3>3. QED
      BY <2>2, <3>2 DEF Probing
  <2>13. StoresOK'
    BY <2>5, QuietStores DEF Inv
  <2>14. held' = [u \in Tabs |-> held'[u]] /\ lease' \in Tabs \cup {None}
         /\ gate' \in Tabs \cup {None}
    BY <2>5 DEF Inv, RequestsOK, LocksOK
  <2>15. QED
    BY <2>4, <2>5, <2>6, <2>8, <2>9, <2>11, <2>12, <2>13, <2>14, TabStep
<1>3. QED
  BY <1>1, <1>2

LEMMA ReplyOK ==
    ASSUME Inv, NEW t \in Tabs, Reply(t)
    PROVE  Inv'
<1>1. run' = [run EXCEPT ![t] = Idle] /\ run[t].code # ""
  BY DEF Reply
<1>2. UNCHANGED <<lease, gate, boot, epoch, session, held, late, host, stores, events>>
  BY DEF Reply, sessions
<1>3. Idle.op = "idle"
  BY DEF Idle
<1>4. ~WorkedOn(Idle) /\ ~Owns(Idle) /\ ~Probing(Idle) /\ ~Committing(Idle) /\ PositionOK(Idle)
  BY <1>3 DEF WorkedOn, Owns, Probing, Committing, PositionOK
<1>5. lease # t /\ gate # t
  BY <1>1 DEF Inv, LocksOK, Owns, Probing, WorkedOn
<1>6. StoresOK'
  BY <1>2, QuietStores DEF Inv
<1>7. held' = [u \in Tabs |-> held'[u]] /\ lease' \in Tabs \cup {None}
      /\ gate' \in Tabs \cup {None}
  BY <1>2 DEF Inv, RequestsOK, LocksOK
<1>8. QED
  BY <1>1, <1>2, <1>4, <1>5, <1>6, <1>7, IdleTyped, TabStep

LEMMA SignInOK ==
    ASSUME Inv, NEW t \in Tabs, SignIn(t)
    PROVE  Inv'
<1>1. /\ run[t] = Idle /\ session' = [session EXCEPT ![t] = epoch]
      /\ UNCHANGED <<lease, gate, boot, epoch, held, late, host, stores, events, run>>
  BY DEF SignIn
<1>2. SessionsOK' /\ session'[t] = epoch /\ \A u \in Tabs \ {t} : session'[u] = session[u]
  BY <1>1 DEF Inv, SessionsOK
<1>3. LateOK'
  BY <1>1, <1>2 DEF Inv, LateOK
<1>4. StoresOK'
  BY <1>1, QuietStores DEF Inv
<1>5. UNCHANGED <<rsel, sel, journal, files, made, storage>>
  BY <1>1 DEF host, stores
<1>6. RequestsOK' /\ LocksOK' /\ OwnersOK'
  BY <1>1, <1>5 DEF Inv, RequestsOK, LocksOK, OwnersOK
<1>7. QED
  BY <1>2, <1>3, <1>4, <1>6 DEF Inv

\* The lease is taken only while nobody has it, and there is nothing to rely on yet.
LEMMA AcquireOK ==
    ASSUME Inv, NEW t \in Tabs, AcquireWorkspaceLease(t)
    PROVE  Inv'
<1>1. At(t, "lease") /\ Quiet
  BY DEF AcquireWorkspaceLease
<1>2. CASE lease # None
  BY <1>1, <1>2, QuietAnswer, CodesKnown DEF AcquireWorkspaceLease
<1>3. CASE lease = None
  <2> DEFINE r == [run[t] EXCEPT !.pc = run[t].pc + 1]
  <2>1. /\ WorkedOn(run[t]) /\ run[t] \in RunType /\ run[t].op \in Requests
        /\ Program[run[t].op][run[t].pc] = "lease"
        /\ Places(run[t].op, run[t].pc, "lease") /\ Follows(run[t].op, run[t].pc, "lease")
        /\ run[t].pc \in 1..Len(Program[run[t].op])
    BY <1>1, AtPlace DEF Inv
  <2>2. run[t].pc = 1 /\ run[t].op \in Leased /\ 2 <= Len(Program[run[t].op])
    BY <2>1 DEF Places, Follows
  <2>3. r \in RunType
    BY <2>1 DEF RunType
  <2>4. r.op = run[t].op /\ r.pc = 2 /\ r.choice = run[t].choice /\ r.code = run[t].code
    BY <2>1, <2>2 DEF RunType
  <2>5. run' = [run EXCEPT ![t] = r] /\ lease' = t /\ gate' = gate
    BY <1>3 DEF AcquireWorkspaceLease
  <2>6. UNCHANGED <<boot, epoch, session, held, late, host, stores, events>>
    BY <1>1 DEF Quiet, sessions
  <2> HIDE DEF r
  <2>7. WorkedOn(r) /\ Owns(r) /\ ~Committing(r)
    <3>1. \A i : i = 2 => i > 1 /\ i # 6 /\ i # 11 /\ i \notin 8..10
      OBVIOUS
    <3>2. QED
      BY <2>1, <2>2, <2>4, <3>1 DEF WorkedOn, Owns, Committing
  <2>8. 2 \in 1..Len(Program[r.op]) /\ Program[r.op][1] = "lease"
    BY <2>1, <2>2, <2>4
  <2>9. PositionOK(r)
    BY <2>1, <2>4, <2>8 DEF Inv, RequestsOK, PositionOK
  <2>10. Program[r.op][r.pc] \notin {"verify", "guard", "observe"}
    BY <2>1, <2>2, <2>4, <2>8 DEF Follows
  <2>11. ~Probing(r)
    BY <2>10 DEF Probing
  <2>12. OwnerOK(r, held[t], rsel, sel, journal, boot, files, made, storage)
    <3>1. \A i : i = 2 => ~(i > 2) /\ ~(i > 4) /\ ~(i > 5) /\ ~(i > 9) /\ i \notin {6, 7, 8, 9}
                          /\ i \notin 3..10 /\ i \notin 3..11
      OBVIOUS
    <3>2. QED
      BY <2>4, <2>10, <3>1
      DEF OwnerOK, RuntimeOK, AdoptionOK, ListingOK, EditOK, ResolutionOK
  <2>13. UNCHANGED <<rsel, sel, journal, boot, files, made, storage>>
    BY <2>6 DEF host, stores
  <2>14. gate # t
    BY <2>1 DEF Inv, LocksOK, Probing
  <2>15. held' = [u \in Tabs |-> held'[u]] /\ lease' \in Tabs \cup {None}
         /\ gate' \in Tabs \cup {None}
    BY <2>5, <2>6 DEF Inv, RequestsOK, LocksOK
  <2>16. StoresOK'
    BY <2>6, QuietStores DEF Inv
  <2>17. \A u \in Tabs \ {t} : (lease' = u <=> lease = u) /\ (gate' = u => gate = u)
    BY <1>3, <2>5, ReviewsAssumption
  <2>18. OwnerOK(r, held'[t], rsel', sel', journal', boot', files', made', storage')
    BY <2>6, <2>12, <2>13
  <2>19. QED
    BY <2>3, <2>5, <2>6, <2>7, <2>9, <2>11, <2>14, <2>15, <2>16, <2>17, <2>18, TabStep
<1>4. QED
  BY <1>2, <1>3

-----------------------------------------------------------------------------
(* Steps that only look: the journal, the session, the executable.         *)

\* Only these steps stand before or within a commit.
LEMMA BeforeCommit ==
    ASSUME Inv, NEW t \in Tabs, NEW step, At(t, step), NEW l, SameRequest(l, run[t]),
           NEW r, Follower(l, r), Committing(r)
    PROVE  step \in {"reauthorize", "open", "guard"}
<1>1. /\ Program[run[t].op][run[t].pc] = step /\ run[t].pc \in Nat
  BY AtPlace DEF Inv, RunType
<1>2. \/ run[t].op = "adoptRuntime" /\ run[t].pc = 5
      \/ run[t].op = "adoptWorkspace" /\ run[t].pc = 10
      \/ run[t].op \in Edits \cup {"resolve"} /\ run[t].pc \in {7, 8, 9}
  BY <1>1 DEF Committing, Follower, SameRequest
<1>3. QED
  BY <1>1, <1>2, AdoptionPrograms, EditPrograms, ResolvePrograms

LEMMA NotProbing ==
    ASSUME Inv, NEW t \in Tabs, NEW step, At(t, step),
           step \notin {"verify", "guard", "observe"}
    PROVE  gate # t
BY AtPlace DEF Inv, LocksOK, Probing

LEMMA OwnerRelies ==
    ASSUME Inv, NEW t \in Tabs, lease = t
    PROVE  OwnerOK(run[t], held[t], rsel, sel, journal, boot, files, made, storage)
BY DEF Inv, OwnersOK

\* A step that goes on, between two steps of no commit.
LEMMA PlainAdvance ==
    ASSUME Inv, NEW t \in Tabs, NEW step, At(t, step),
           step \notin {"open", "openCandidate", "lease", "reauthorize", "guard"},
           NEW l \in RunType, SameRequest(l, run[t]), Advance(t, l), Quiet,
           step \in {"verify", "observe"} => l.opened = None,
           lease = t => \A r : Follower(l, r) =>
               OwnerOK(r, held[t], rsel, sel, journal, boot, files, made, storage)
    PROVE  Inv'
<1>1. gate = t => l.opened = None
  BY NotProbing
<1>2. \A r : Follower(l, r) /\ Committing(r) => Committing(run[t]) \/ session[t] = epoch
  BY BeforeCommit
<1>3. QED
  BY <1>1, <1>2, QuietAdvance

LEMMA RequireClearOK ==
    ASSUME Inv, NEW t \in Tabs, RequireClearNativeEditJournal(t)
    PROVE  Inv'
<1>1. At(t, "journal") /\ Quiet
  BY DEF RequireClearNativeEditJournal
<1>2. CASE journal # None
  BY <1>1, <1>2, QuietAnswer, CodesKnown DEF RequireClearNativeEditJournal
<1>3. CASE journal = None
  <2>1. /\ run[t] \in RunType /\ run[t].op \in Adoptions /\ run[t].pc = 2
        /\ Advance(t, run[t]) /\ SameRequest(run[t], run[t])
    BY <1>1, <1>3, AtPlace DEF RequireClearNativeEditJournal, Inv, Places, SameRequest
  <2>2. ASSUME NEW r, Follower(run[t], r)
        PROVE  OwnerOK(r, held[t], rsel, sel, journal, boot, files, made, storage)
    <3>1. r.op \in Adoptions /\ r.pc = 3 /\ Program[r.op][r.pc] \notin {"verify", "guard"}
      BY <2>1, <2>2 DEF Follower
    <3>2. QED
      BY <1>3, <3>1 DEF OwnerOK, RuntimeOK, AdoptionOK, ListingOK, EditOK,
         ResolutionOK, Adoptions, Listings, Edits
  <2>3. QED
    BY <1>1, <2>1, <2>2, PlainAdvance
<1>4. QED
  BY <1>2, <1>3

LEMMA ReauthorizeOK ==
    ASSUME Inv, NEW t \in Tabs, Reauthorize(t)
    PROVE  Inv'
<1>1. At(t, "reauthorize")
  BY DEF Reauthorize
<1>2. CASE session[t] # epoch
  BY <1>2, RefuseOK, CodesKnown DEF Reauthorize
<1>3. CASE session[t] = epoch
  <2>1. Advance(t, run[t]) /\ Quiet /\ SameRequest(run[t], run[t]) /\ gate # t
    BY <1>1, <1>3, NotProbing DEF Reauthorize, SameRequest
  <2>2. /\ run[t] \in RunType
        /\ \/ run[t].op = "adoptRuntime" /\ run[t].pc = 5
           \/ run[t].op = "adoptWorkspace" /\ run[t].pc = 10
           \/ run[t].op \in Edits \cup {"resolve"} /\ run[t].pc = 7
    BY <1>1, AtPlace DEF Inv, Places
  <2>3. ASSUME NEW r, Follower(run[t], r), lease = t
        PROVE  OwnerOK(r, held[t], rsel, sel, journal, boot, files, made, storage)
    <3>1. OwnerOK(run[t], held[t], rsel, sel, journal, boot, files, made, storage)
      BY <2>3, OwnerRelies
    <3>2. CASE run[t].op = "adoptRuntime" /\ run[t].pc = 5
      BY <2>3, <3>1, <3>2 DEF Follower, OwnerOK, RuntimeOK, AdoptionOK, ListingOK,
         EditOK, ResolutionOK, Adoptions, Listings, Edits
    <3>3. CASE run[t].op = "adoptWorkspace" /\ run[t].pc = 10
      BY <2>3, <3>1, <3>3 DEF Follower, OwnerOK, RuntimeOK, AdoptionOK, ListingOK,
         EditOK, ResolutionOK, Adoptions, Listings, Edits
    <3>4. CASE run[t].op \in Edits \cup {"resolve"} /\ run[t].pc = 7
      BY <2>3, <3>1, <3>4 DEF Follower, OwnerOK, RuntimeOK, AdoptionOK, ListingOK,
         EditOK, ResolutionOK, Adoptions, Listings, Edits
    <3>5. QED
      BY <2>2, <3>2, <3>3, <3>4
  <2>4. QED
    BY <1>1, <1>3, <2>1, <2>2, <2>3, QuietAdvance
<1>4. QED
  BY <1>2, <1>3

\* The executable is opened; what is selected cannot change while the owner of
\* the lease probes it.
LEMMA BeginInspectionOK ==
    ASSUME Inv, NEW t \in Tabs, BeginInspection(t)
    PROVE  Inv'
<1> DEFINE r == [run[t] EXCEPT !.pc = run[t].pc + 1, !.opened = Opened]
<1>1. PICK step \in {"open", "openCandidate"} : At(t, step)
  BY DEF BeginInspection
<1>2. /\ WorkedOn(run[t]) /\ run[t] \in RunType /\ run[t].op \in Requests
      /\ Program[run[t].op][run[t].pc] = step
      /\ Places(run[t].op, run[t].pc, step) /\ Follows(run[t].op, run[t].pc, step)
      /\ run[t].pc \in 1..Len(Program[run[t].op])
  BY <1>1, AtPlace DEF Inv
<1>3. /\ UNCHANGED <<lease, boot, epoch, session, held, late, host, stores, events>>
      /\ gate = None /\ gate' = t
  BY DEF BeginInspection, Quiet, sessions
<1>4. Opened \in OpenedType /\ Opened.of = rsel
  BY DEF Inv, StoresOK, Opened, OpenedType
<1>5. run[t].pc \in Nat /\ r \in RunType
  <2>1. run[t].pc \in Nat /\ run[t].pc + 1 \in Nat /\ Opened \in OpenedType \cup {None}
    BY <1>2, <1>4 DEF RunType
  <2>2. QED
    BY <1>2, <2>1 DEF RunType
<1>6. /\ r.op = run[t].op /\ r.pc = run[t].pc + 1 /\ r.choice = run[t].choice
      /\ r.code = run[t].code /\ r.rt = run[t].rt /\ r.src = run[t].src
      /\ r.tree = run[t].tree /\ r.inv = run[t].inv /\ r.opened = Opened
  BY <1>2 DEF RunType
<1>7. run' = [run EXCEPT ![t] = r]
  BY <1>2 DEF BeginInspection, RunType
<1> HIDE DEF r
<1>8. WorkedOn(r) /\ r.pc \in 1..Len(Program[r.op]) /\ Probing(r)
  <2>1. WorkedOn(r)
    BY <1>2, <1>6 DEF WorkedOn
  <2>2. r.pc <= Len(Program[r.op]) /\ Program[r.op][r.pc] \in {"verify", "guard", "observe"}
    BY <1>1, <1>2, <1>6 DEF Follows
  <2>3. QED
    BY <1>2, <1>5, <1>6, <2>1, <2>2, ProgramLength DEF Probing
<1>9. PositionOK(r)
  BY <1>2, <1>6, <1>8 DEF Inv, RequestsOK, PositionOK
<1>10. lease' = t <=> Owns(r)
  <2>1. lease = t <=> run[t].op \in Leased /\ run[t].pc > 1
    BY <1>2 DEF Inv, LocksOK, Owns
  <2>2. run[t].op \in Leased => run[t].pc > 1
    BY <1>1, <1>2 DEF Follows
  <2>3. Owns(r) <=> r.op \in Leased
    BY <1>2, <1>6, <1>8 DEF Owns
  <2>4. QED
    BY <1>3, <1>6, <2>1, <2>2, <2>3
<1>11. Committing(r) => Committing(run[t])
  BY <1>1, <1>2, <1>6, <1>8 DEF Committing, Places, Edits
<1>12. ASSUME lease = t
       PROVE  OwnerOK(r, held[t], rsel, sel, journal, boot, files, made, storage)
  <2>1. OwnerOK(run[t], held[t], rsel, sel, journal, boot, files, made, storage)
    BY <1>12, OwnerRelies
  <2>2. run[t].op \in Leased /\ run[t].pc \in {2, 3, 8, 12, 13}
    BY <1>1, <1>2, <1>12 DEF Inv, LocksOK, Owns, Places, Leased
  <2>3. \/ run[t].pc \in {2, 3}
        \/ run[t].op \in Edits \cup {"resolve"} /\ run[t].pc \in {8, 12, 13}
    BY <1>1, <1>2, <2>2 DEF Places
  <2>4. RuntimeOK(r, rsel)
    BY <1>4, <1>6, <2>1, <2>2, <2>3 DEF OwnerOK, RuntimeOK
  <2>5. AdoptionOK(r, held[t], journal)
    <3>1. run[t].op \in Adoptions => run[t].pc = 3
      BY <1>1, <1>2, <2>3, AdoptionPrograms DEF Adoptions, Edits
    <3>2. QED
      BY <1>6, <2>1, <3>1 DEF OwnerOK, AdoptionOK, Adoptions
  <2>6. ListingOK(r, sel, files, made, storage)
    <3>1. run[t].op \in Listings => run[t].pc = 3
      BY <1>1, <1>2, <2>3, AdoptionPrograms, ReadingPrograms DEF Listings, Edits
    <3>2. QED
      BY <1>6, <2>1, <3>1 DEF OwnerOK, ListingOK
  <2>7. EditOK(r, held[t], sel, journal, boot, made)
    <3>1. run[t].op \in Edits => run[t].pc \in {3, 8, 12, 13}
      BY <1>1, <1>2, <2>2, EditPrograms DEF Edits
    <3>2. QED
      BY <1>6, <2>1, <3>1 DEF OwnerOK, EditOK
  <2>8. ResolutionOK(r, held[t], journal, made)
    <3>1. run[t].op = "resolve" => run[t].pc \in {3, 8, 12}
      BY <1>1, <1>2, <2>2, ResolvePrograms
    <3>2. QED
      BY <1>6, <2>1, <3>1 DEF OwnerOK, ResolutionOK
  <2>9. QED
    BY <2>4, <2>5, <2>6, <2>7, <2>8 DEF OwnerOK
<1>13. UNCHANGED <<rsel, sel, journal, boot, files, made, storage>>
  BY <1>3 DEF host, stores
<1>14. held' = [u \in Tabs |-> held'[u]] /\ lease' \in Tabs \cup {None}
       /\ gate' \in Tabs \cup {None} /\ StoresOK'
  BY <1>3, QuietStores DEF Inv, RequestsOK, LocksOK
<1>15. \A u \in Tabs \ {t} : (lease' = u <=> lease = u) /\ (gate' = u => gate = u)
  BY <1>3
<1>16. lease' = t => OwnerOK(r, held'[t], rsel', sel', journal', boot', files', made', storage')
  BY <1>3, <1>12, <1>13
<1>17. Probing(r) => r.opened \in OpenedType
  BY <1>4, <1>6
<1>18. QED
  BY <1>3, <1>5, <1>7, <1>8, <1>9, <1>10, <1>11, <1>14, <1>15, <1>16, <1>17, TabStep

\* The refusals: a busy Inspector, no selection, moved sources, a fault.
LEMMA RefusalsOK ==
    ASSUME Inv, NEW t \in Tabs,
           InspectionBusy(t) \/ NoSelectedRuntime(t) \/ SourcesMoved(t) \/ Fault(t)
    PROVE  Inv'
<1>1. PICK code \in Codes : Refuse(t, code)
  BY CodesKnown DEF InspectionBusy, NoSelectedRuntime, SourcesMoved, Fault, RuntimeBusy,
     RuntimeMissing
<1>2. QED
  BY <1>1, RefuseOK

LEMMA VerifyOK ==
    ASSUME Inv, NEW t \in Tabs, Verify(t)
    PROVE  Inv'
<1> DEFINE l == [run[t] EXCEPT !.opened = None, !.rt = run[t].opened.of]
<1>1. At(t, "verify") /\ Quiet
  BY DEF Verify
<1>2. CASE ~Unchanged(run[t].opened)
  <2>1. PICK code \in Codes : Answer(t, code)
    BY <1>2, CodesKnown DEF Verify, RuntimeChanged
  <2>2. QED
    BY <1>1, <2>1, QuietAnswer
<1>3. CASE Unchanged(run[t].opened)
  <2>1. /\ run[t] \in RunType /\ WorkedOn(run[t]) /\ run[t].pc \in Nat
        /\ Program[run[t].op][run[t].pc] = "verify"
        /\ Places(run[t].op, run[t].pc, "verify")
    BY <1>1, AtPlace DEF Inv, RunType
  <2>2. run[t].opened \in OpenedType
    <3>1. Probing(run[t])
      BY <2>1 DEF Probing
    <3>2. QED
      BY <3>1 DEF Inv, RequestsOK
  <2>3. run[t].opened.of \in RuntimeType \cup {None}
    BY <2>2 DEF OpenedType
  <2>4. Advance(t, l)
    BY <1>3 DEF Verify
  <2>5. /\ l \in RunType /\ SameRequest(l, run[t]) /\ l.opened = None
        /\ l.rt = run[t].opened.of /\ l.src = run[t].src
        /\ l.tree = run[t].tree /\ l.inv = run[t].inv
    BY <2>1, <2>3 DEF RunType, SameRequest
  <2> HIDE DEF l
  <2>6. ASSUME NEW r, Follower(l, r), lease = t
        PROVE  OwnerOK(r, held[t], rsel, sel, journal, boot, files, made, storage)
    <3>1. OwnerOK(run[t], held[t], rsel, sel, journal, boot, files, made, storage)
      BY <2>6, OwnerRelies
    <3>2. /\ r.op = run[t].op /\ r.pc = run[t].pc + 1 /\ r.choice = run[t].choice
          /\ r.rt = run[t].opened.of /\ r.src = run[t].src
          /\ r.tree = run[t].tree /\ r.inv = run[t].inv
          /\ Program[r.op][r.pc] \notin {"verify", "guard"}
      BY <2>5, <2>6 DEF Follower, SameRequest
    <3>3. r.rt = rsel
      BY <2>1, <3>1, <3>2 DEF OwnerOK, RuntimeOK
    <3>4. /\ run[t].op # "adoptRuntime" /\ run[t].pc \in {3, 4, 13, 14}
          /\ run[t].pc \in {13, 14} => run[t].op \in Edits \cup {"resolve"}
      <4>1. run[t].op # "getRuntime"
        BY <2>6 DEF Inv, LocksOK, Owns, Leased
      <4>2. QED
        BY <2>1, <4>1 DEF Places
    <3>5. RuntimeOK(r, rsel)
      BY <3>2, <3>3 DEF RuntimeOK
    <3>6. AdoptionOK(r, held[t], journal)
      BY <3>1, <3>2, <3>4 DEF OwnerOK, AdoptionOK, Adoptions, Edits
    <3>7. ListingOK(r, sel, files, made, storage)
      BY <3>1, <3>2, <3>4 DEF OwnerOK, ListingOK, Listings, Edits
    <3>8. EditOK(r, held[t], sel, journal, boot, made)
      <4>1. r.op \in Edits => run[t].pc \in {4, 14}
        BY <2>1, <3>2, EditPrograms DEF Places, Edits
      <4>2. QED
        BY <3>1, <3>2, <4>1 DEF OwnerOK, EditOK
    <3>9. ResolutionOK(r, held[t], journal, made)
      <4>1. r.op = "resolve" => run[t].pc \in {4, 13}
        BY <2>1, <3>2, ResolvePrograms DEF Places, Edits
      <4>2. QED
        BY <3>1, <3>2, <4>1 DEF OwnerOK, ResolutionOK
    <3>10. QED
      BY <3>5, <3>6, <3>7, <3>8, <3>9 DEF OwnerOK
  <2>7. QED
    BY <1>1, <2>4, <2>5, <2>6, PlainAdvance
<1>4. QED
  BY <1>2, <1>3

LEMMA GuardOK ==
    ASSUME Inv, NEW t \in Tabs, Guard(t)
    PROVE  Inv'
<1> DEFINE l == [run[t] EXCEPT !.opened = None]
<1>1. At(t, "guard")
  BY DEF Guard
<1>2. CASE ~(Unchanged(run[t].opened) /\ run[t].opened.of = run[t].rt)
  BY <1>2, RefuseOK, CodesKnown DEF Guard
<1>3. CASE Unchanged(run[t].opened) /\ run[t].opened.of = run[t].rt
  <2>1. /\ run[t] \in RunType /\ WorkedOn(run[t])
        /\ run[t].op \in Edits \cup {"resolve"} /\ run[t].pc = 9
    BY <1>1, AtPlace DEF Inv, Places
  <2>2. Advance(t, l) /\ Quiet
    BY <1>3 DEF Guard
  <2>3. /\ l \in RunType /\ SameRequest(l, run[t]) /\ l.opened = None
        /\ l.rt = run[t].rt /\ l.src = run[t].src
        /\ l.tree = run[t].tree /\ l.inv = run[t].inv
    BY <2>1 DEF RunType, SameRequest
  <2> HIDE DEF l
  <2>4. ASSUME NEW r, Follower(l, r), lease = t
        PROVE  OwnerOK(r, held[t], rsel, sel, journal, boot, files, made, storage)
    <3>1. OwnerOK(run[t], held[t], rsel, sel, journal, boot, files, made, storage)
      BY <2>4, OwnerRelies
    <3>2. /\ r.op = run[t].op /\ r.pc = 10 /\ r.choice = run[t].choice
          /\ r.rt = run[t].rt /\ r.src = run[t].src
          /\ r.tree = run[t].tree /\ r.inv = run[t].inv
          /\ Program[r.op][r.pc] \notin {"verify", "guard"}
      BY <2>1, <2>3, <2>4 DEF Follower, SameRequest
    <3>3. QED
      BY <2>1, <3>1, <3>2 DEF OwnerOK, RuntimeOK, AdoptionOK, ListingOK, EditOK,
         ResolutionOK, Adoptions, Listings, Edits
  <2>5. Committing(run[t])
    BY <2>1 DEF Committing
  <2>6. QED
    BY <1>1, <2>2, <2>3, <2>4, <2>5, QuietAdvance
<1>4. QED
  BY <1>2, <1>3

LEMMA PresentCandidateOK ==
    ASSUME Inv, NEW t \in Tabs, PresentCandidate(t)
    PROVE  Inv'
<1>1. Answer(t, "ok") /\ UNCHANGED <<host, stores, boot, sessions, events>>
  BY DEF PresentCandidate
<1>2. \E h : held' = [held EXCEPT ![t] = h]
  BY DEF PresentCandidate
<1>3. QED
  BY <1>1, <1>2, ShowingAnswer, CodesKnown

LEMMA CompareRuntimeOK ==
    ASSUME Inv, NEW t \in Tabs, CompareRuntime(t)
    PROVE  Inv'
<1> DEFINE rt == Runtime(run[t].opened.exe, Classify(run[t].opened.exe))
           l == [run[t] EXCEPT !.opened = None, !.rt = rt]
<1>1. At(t, "observe") /\ run[t].op = "adoptRuntime" /\ Quiet
  BY DEF CompareRuntime
<1>2. CASE ~(InspectOpen(run[t].opened) /\ SameRuntimeReview(t, rt))
  BY <1>1, <1>2, QuietAnswer, CodesKnown DEF CompareRuntime
<1>3. CASE InspectOpen(run[t].opened) /\ SameRuntimeReview(t, rt)
  <2>1. /\ run[t] \in RunType /\ WorkedOn(run[t]) /\ run[t].pc = 4
        /\ Program[run[t].op][run[t].pc] = "observe"
    BY <1>1, AtPlace DEF Inv, Places
  <2>2. run[t].opened \in OpenedType
    <3>1. Probing(run[t])
      BY <2>1 DEF Probing
    <3>2. QED
      BY <3>1 DEF Inv, RequestsOK
  <2>3. rt \in RuntimeType
    <3>1. /\ run[t].opened.exe \in Executables /\ boot \in Boots
          /\ Classify(run[t].opened.exe) # None
      BY <1>3, <2>2 DEF InspectOpen, OpenedType, Inv, StoresOK
    <3>2. Classify(run[t].opened.exe) \in Manifests
      BY <3>1 DEF Classify, Manifests
    <3>3. QED
      BY <3>1, <3>2 DEF RuntimeType, Runtime
  <2>4. Advance(t, l)
    BY <1>3 DEF CompareRuntime
  <2>5. held[t] = RuntimeReviewed(rt)
    BY <1>3 DEF SameRuntimeReview
  <2> HIDE DEF rt
  <2>6. /\ l \in RunType /\ SameRequest(l, run[t]) /\ l.opened = None /\ l.rt = rt
    BY <2>1, <2>3 DEF RunType, SameRequest
  <2> HIDE DEF l
  <2>7. ASSUME NEW r, Follower(l, r), lease = t
        PROVE  OwnerOK(r, held[t], rsel, sel, journal, boot, files, made, storage)
    <3>1. OwnerOK(run[t], held[t], rsel, sel, journal, boot, files, made, storage)
      BY <2>7, OwnerRelies
    <3>2. /\ r.op = "adoptRuntime" /\ r.pc = 5 /\ r.rt = rt
          /\ Program[r.op][r.pc] \notin {"verify", "guard"}
      BY <1>1, <2>1, <2>6, <2>7 DEF Follower, SameRequest
    <3>3. QED
      BY <1>1, <2>1, <2>5, <3>1, <3>2 DEF OwnerOK, RuntimeOK, AdoptionOK, ListingOK, EditOK,
         ResolutionOK, Adoptions, Listings, Edits
  <2>8. QED
    BY <1>1, <2>4, <2>6, <2>7, PlainAdvance
<1>4. QED
  BY <1>2, <1>3

\* A request about to take effect has had its session checked, and owns the lease.
LEMMA EffectOK ==
    ASSUME Inv, NEW t \in Tabs, TakesEffect(t), Committing(run[t])
    PROVE  /\ lease = t
           /\ \/ late' = late
              \/ session[t] # epoch /\ Committing(run[t]) /\ late' = late + 1
BY TheRequests DEF Inv, LocksOK, Owns, Committing, Leased, Edits, TakesEffect

LEMMA SaveRuntimeOK ==
    ASSUME Inv, NEW t \in Tabs, SaveRuntime(t)
    PROVE  Inv'
<1>1. /\ At(t, "saveRuntime") /\ rsel' = run[t].rt /\ Answer(t, "ok") /\ TakesEffect(t)
      /\ UNCHANGED <<host, sel, journal, boot, epoch, session, page, held, events>>
  BY DEF SaveRuntime
<1>2. /\ run[t] \in RunType /\ WorkedOn(run[t]) /\ run[t].op = "adoptRuntime" /\ run[t].pc = 6
  BY <1>1, AtPlace DEF Inv, Places
<1>3. Committing(run[t])
  BY <1>2 DEF Committing
<1>4. StoresOK'
  BY <1>1, <1>2 DEF Inv, StoresOK, host, RunType
<1>5. held' = [u \in Tabs |-> held'[u]]
  BY <1>1 DEF Inv, RequestsOK
<1>6. QED
  BY <1>1, <1>3, <1>4, <1>5, EffectOK, AnswerOK, CodesKnown

-----------------------------------------------------------------------------
(* The steps of the workspace handlers.                                    *)

LEMMA LoadSelectionOK ==
    ASSUME Inv, NEW t \in Tabs, LoadSelection(t)
    PROVE  Inv'
<1>1. At(t, "load") /\ Quiet
  BY DEF LoadSelection
<1>2. CASE sel = None
  BY <1>1, <1>2, QuietAnswer, CodesKnown DEF LoadSelection
<1>3. CASE sel # None
  <2>1. /\ run[t] \in RunType /\ run[t].op = "getWorkspace" /\ run[t].pc = 2
        /\ Advance(t, run[t]) /\ SameRequest(run[t], run[t])
    BY <1>1, <1>3, AtPlace DEF LoadSelection, Inv, Places, SameRequest
  <2>2. ASSUME NEW r, Follower(run[t], r)
        PROVE  OwnerOK(r, held[t], rsel, sel, journal, boot, files, made, storage)
    <3>1. /\ r.op = "getWorkspace" /\ r.pc = 3 /\ sel \in 1..made
          /\ Program[r.op][r.pc] \notin {"verify", "guard"}
      BY <1>3, <2>1, <2>2 DEF Follower, Inv, StoresOK
    <3>2. QED
      BY <3>1 DEF OwnerOK, RuntimeOK, AdoptionOK, ListingOK, EditOK,
         ResolutionOK, Adoptions, Listings, Edits
  <2>3. QED
    BY <1>1, <2>1, <2>2, PlainAdvance
<1>4. QED
  BY <1>2, <1>3

\* The answers that end a request by looking only.
LEMMA LookingOK ==
    ASSUME Inv, NEW t \in Tabs,
           InspectFiles(t) \/ Ready(t) \/ View(t) \/ PrepareCandidate(t) \/ PrepareCreation(t)
    PROVE  Inv'
<1>1. CASE Ready(t)
  BY <1>1, QuietAnswer, CodesKnown DEF Ready
<1>2. CASE InspectFiles(t) \/ View(t) \/ PrepareCandidate(t) \/ PrepareCreation(t)
  <2>1. Answer(t, "ok") /\ UNCHANGED <<host, stores, boot, sessions, events>>
    BY <1>2 DEF InspectFiles, View, PrepareCandidate, PrepareCreation, Candidate
  <2>2. \E h : held' = [held EXCEPT ![t] = h] \/ held' = held
    BY <1>2 DEF InspectFiles, View, PrepareCandidate, PrepareCreation, Candidate
  <2>3. QED
    BY <2>1, <2>2, ShowingAnswer, CodesKnown
<1>3. QED
  BY <1>1, <1>2

\* The versions are numbers.
LEMMA StoreNumbers ==
    ASSUME Inv
    PROVE  /\ made \in Nat \ {0} /\ files \in Nat /\ files <= made /\ storage \in Nat
           /\ sel # None => sel \in 1..made
BY ReviewsAssumption DEF Inv, StoresOK

\* The sources a step can leave behind.
LEMMA SourceTyped ==
    /\ \A kind \in {"base", "creation", "recovery", "current"}, of \in Nat :
          Source(kind, of, "") \in SourceType
    /\ \A of \in Nat, state \in {"applied", "unapplied", "mixed"} :
          Source("recovery", of, state) \in SourceType
    /\ \A kind, of, state :
          Source(kind, of, state).kind = kind /\ Source(kind, of, state).of = of
BY DEF Source, SourceType

\* The files were those of the selection, or of the review, before and after
\* the listing: then the listing was made from them.
LEMMA VerifiedOK ==
    ASSUME Inv, NEW t \in Tabs, run[t].op \in Listings, run[t].pc \in {5, 9}, lease = t,
           run[t].op = "getWorkspace" => files = sel,
           run[t].op = "adoptWorkspace" => held[t] = WorkspaceReviewed(files),
           files \in 1..made, NEW l, SameRequest(l, run[t]), l.src.of = files,
           l.rt = run[t].rt, l.tree = run[t].tree, l.inv = run[t].inv,
           NEW r, Follower(l, r)
    PROVE  OwnerOK(r, held[t], rsel, sel, journal, boot, files, made, storage)
<1>1. OwnerOK(run[t], held[t], rsel, sel, journal, boot, files, made, storage)
  BY OwnerRelies
<1>2. /\ r.op = run[t].op /\ r.pc = run[t].pc + 1 /\ r.rt = run[t].rt /\ r.src.of = files
      /\ r.tree = run[t].tree /\ r.inv = run[t].inv
      /\ Program[r.op][r.pc] \notin {"verify", "guard"} /\ r.op \in Listings
  BY DEF Follower, SameRequest
<1>3. r.op \notin Edits \cup {"resolve", "adoptRuntime"}
  BY <1>2 DEF Listings, Edits
<1>4. RuntimeOK(r, rsel) /\ EditOK(r, held[t], sel, journal, boot, made)
      /\ ResolutionOK(r, held[t], journal, made)
  BY <1>1, <1>2, <1>3 DEF OwnerOK, RuntimeOK, EditOK, ResolutionOK
<1>5. AdoptionOK(r, held[t], journal)
  BY <1>1, <1>2 DEF OwnerOK, AdoptionOK, Listings
<1>6. ListingOK(r, sel, files, made, storage)
  <2>1. CASE run[t].pc = 5
    BY <1>2, <2>1 DEF ListingOK, Listings
  <2>2. CASE run[t].pc = 9
    <3>1. /\ r.pc = 10 /\ run[t].inv \in ListingType /\ run[t].inv.storage = run[t].tree
          /\ run[t].inv.files = run[t].src.of \/ files # run[t].src.of
      BY <1>1, <1>2, <2>2 DEF OwnerOK, ListingOK
    <3>2. run[t].src.of = files
      <4>1. CASE run[t].op = "getWorkspace"
        BY <1>1, <2>2, <4>1 DEF OwnerOK, ListingOK, Listings
      <4>2. CASE run[t].op = "adoptWorkspace"
        <5>1. WorkspaceReviewed(run[t].src.of) = WorkspaceReviewed(files)
          BY <1>1, <2>2, <4>2 DEF OwnerOK, AdoptionOK
        <5>2. QED
          BY <5>1 DEF WorkspaceReviewed, Review
      <4>3. QED
        BY <4>1, <4>2 DEF Listings
    <3>3. run[t].inv = [files |-> files, storage |-> run[t].tree]
      BY <3>1, <3>2 DEF ListingType
    <3>4. QED
      BY <1>1, <1>2, <3>1, <3>2, <3>3 DEF OwnerOK, ListingOK, Listings
  <2>3. QED
    BY <2>1, <2>2
<1>7. QED
  BY <1>4, <1>5, <1>6 DEF OwnerOK

LEMMA VerifyFilesOK ==
    ASSUME Inv, NEW t \in Tabs, VerifyFiles(t)
    PROVE  Inv'
<1> DEFINE l == [run[t] EXCEPT !.src = Source("base", files, "")]
<1>1. At(t, "verifyFiles") /\ Quiet
  BY DEF VerifyFiles
<1>2. CASE files # sel
  BY <1>1, <1>2, QuietAnswer, CodesKnown DEF VerifyFiles, Audited
<1>3. CASE files = sel
  <2>1. run[t] \in RunType /\ run[t].op = "getWorkspace" /\ run[t].pc \in {5, 9}
    BY <1>1, AtPlace DEF Inv, Places
  <2>2. Source("base", files, "") \in SourceType /\ Source("base", files, "").of = files
    BY StoreNumbers, SourceTyped
  <2>3. Advance(t, l)
    BY <1>3 DEF VerifyFiles, Audited
  <2>4. /\ l \in RunType /\ SameRequest(l, run[t]) /\ l.src.of = files
        /\ l.rt = run[t].rt /\ l.tree = run[t].tree /\ l.inv = run[t].inv
    BY <2>1, <2>2 DEF RunType, SameRequest
  <2> HIDE DEF l
  <2>5. ASSUME NEW r, Follower(l, r), lease = t
        PROVE  OwnerOK(r, held[t], rsel, sel, journal, boot, files, made, storage)
    <3>1. sel \in 1..made
      <4>1. ListingOK(run[t], sel, files, made, storage)
        BY <2>5, OwnerRelies DEF OwnerOK
      <4>2. QED
        BY <2>1, <4>1 DEF ListingOK, Listings
    <3>2. QED
      <4>1. run[t].op \in Listings /\ run[t].op # "adoptWorkspace" /\ files \in 1..made
        BY <1>3, <2>1, <3>1 DEF Listings
      <4>2. QED
        BY <1>3, <2>1, <2>4, <2>5, <4>1, VerifiedOK
  <2>6. QED
    BY <1>1, <2>3, <2>4, <2>5, PlainAdvance
<1>4. QED
  BY <1>2, <1>3

LEMMA CompareFilesOK ==
    ASSUME Inv, NEW t \in Tabs, CompareFiles(t)
    PROVE  Inv'
<1> DEFINE l == [run[t] EXCEPT !.src = Source("base", files, "")]
<1>1. At(t, "compareFiles") /\ Quiet
  BY DEF CompareFiles
<1>2. CASE ~(Adoptable(files) /\ SameWorkspaceReview(t))
  BY <1>1, <1>2, QuietAnswer, CodesKnown DEF CompareFiles, Audited
<1>3. CASE Adoptable(files) /\ SameWorkspaceReview(t)
  <2>1. run[t] \in RunType /\ run[t].op = "adoptWorkspace" /\ run[t].pc \in {5, 9}
    BY <1>1, AtPlace DEF Inv, Places
  <2>2. Source("base", files, "") \in SourceType /\ Source("base", files, "").of = files
    BY StoreNumbers, SourceTyped
  <2>3. Advance(t, l)
    BY <1>3 DEF CompareFiles, Audited
  <2>4. /\ l \in RunType /\ SameRequest(l, run[t]) /\ l.src.of = files
        /\ l.rt = run[t].rt /\ l.tree = run[t].tree /\ l.inv = run[t].inv
    BY <2>1, <2>2 DEF RunType, SameRequest
  <2> HIDE DEF l
  <2>5. files \in 1..made /\ held[t] = WorkspaceReviewed(files)
    BY <1>3 DEF Inv, StoresOK, Adoptable, Absent, SameWorkspaceReview, Audited
  <2>6. ASSUME NEW r, Follower(l, r), lease = t
        PROVE  OwnerOK(r, held[t], rsel, sel, journal, boot, files, made, storage)
    BY <2>1, <2>4, <2>5, <2>6, VerifiedOK DEF Listings
  <2>7. QED
    BY <1>1, <2>3, <2>4, <2>6, PlainAdvance
<1>4. QED
  BY <1>2, <1>3

\* The audit, the listing and the second audit of the certificate storage.
LEMMA StorageStepsOK ==
    ASSUME Inv, NEW t \in Tabs, AuditStorage(t) \/ List(t) \/ ReauditStorage(t)
    PROVE  Inv'
<1> DEFINE Owner(r) == OwnerOK(r, held[t], rsel, sel, journal, boot, files, made, storage)
<1>1. ASSUME NEW step, At(t, step), step \in {"auditStorage", "list", "reauditStorage"}
      PROVE  /\ run[t] \in RunType /\ run[t].op \in Listings
             /\ run[t].op \notin Edits \cup {"resolve", "adoptRuntime"}
             /\ run[t].pc = IF step = "auditStorage" THEN 6 ELSE IF step = "list" THEN 7 ELSE 8
  BY <1>1, AtPlace DEF Inv, Places, Listings, Edits
\* What the other parts say does not depend on the listing.
<1>2. ASSUME NEW r, run[t].op \in Listings, run[t].pc \in {6, 7, 8}, lease = t,
             r.op = run[t].op, r.pc = run[t].pc + 1, r.rt = run[t].rt, r.src = run[t].src,
             Program[r.op][r.pc] \notin {"verify", "guard", "observe"},
             ListingOK(r, sel, files, made, storage)
      PROVE  Owner(r)
  <2>1. Owner(run[t])
    BY <1>2, OwnerRelies
  <2>2. r.op \notin Edits \cup {"resolve", "adoptRuntime"}
    BY <1>2 DEF Listings, Edits
  <2>3. RuntimeOK(r, rsel) /\ EditOK(r, held[t], sel, journal, boot, made)
        /\ ResolutionOK(r, held[t], journal, made)
    BY <1>2, <2>1, <2>2 DEF OwnerOK, RuntimeOK, EditOK, ResolutionOK
  <2>4. AdoptionOK(r, held[t], journal)
    BY <1>2, <2>1 DEF OwnerOK, AdoptionOK
  <2>5. QED
    BY <1>2, <2>3, <2>4 DEF OwnerOK
<1>3. CASE AuditStorage(t)
  <2> DEFINE l == [run[t] EXCEPT !.tree = storage]
  <2>1. At(t, "auditStorage") /\ Quiet /\ Advance(t, l)
    BY <1>3 DEF AuditStorage
  <2>2. run[t] \in RunType /\ run[t].op \in Listings /\ run[t].pc = 6
    BY <1>1, <2>1
  <2>3. /\ l \in RunType /\ SameRequest(l, run[t]) /\ l.tree = storage
        /\ l.src = run[t].src /\ l.rt = run[t].rt
    BY <2>2, StoreNumbers DEF RunType, SameRequest
  <2> HIDE DEF l
  <2>4. ASSUME NEW r, Follower(l, r), lease = t
        PROVE  Owner(r)
    <3>1. ListingOK(run[t], sel, files, made, storage)
      BY <2>4, OwnerRelies DEF OwnerOK
    <3>2. /\ r.op = run[t].op /\ r.pc = 7 /\ r.tree = storage /\ r.src = run[t].src
          /\ r.rt = run[t].rt
      BY <2>2, <2>3, <2>4 DEF Follower, SameRequest
    <3>3. ListingOK(r, sel, files, made, storage)
      BY <2>2, <3>1, <3>2, StoreNumbers DEF ListingOK
    <3>4. QED
      BY <1>2, <2>2, <2>4, <3>2, <3>3 DEF Follower
  <2>5. QED
    BY <2>1, <2>3, <2>4, PlainAdvance
<1>4. CASE List(t)
  <2> DEFINE inv == [files |-> files, storage |-> storage]
             l == [run[t] EXCEPT !.inv = inv]
  <2>1. At(t, "list") /\ Quiet /\ Advance(t, l)
    BY <1>4 DEF List
  <2>2. run[t] \in RunType /\ run[t].op \in Listings /\ run[t].pc = 7
    BY <1>1, <2>1
  <2>3. inv \in ListingType /\ inv.files = files /\ inv.storage = storage
    BY StoreNumbers DEF ListingType
  <2> HIDE DEF inv
  <2>4. /\ l \in RunType /\ SameRequest(l, run[t]) /\ l.tree = run[t].tree
        /\ l.src = run[t].src /\ l.rt = run[t].rt /\ l.inv = inv
    BY <2>2, <2>3 DEF RunType, SameRequest
  <2> HIDE DEF l
  <2>5. ASSUME NEW r, Follower(l, r), lease = t
        PROVE  Owner(r)
    <3>1. ListingOK(run[t], sel, files, made, storage)
      BY <2>5, OwnerRelies DEF OwnerOK
    <3>2. /\ r.op = run[t].op /\ r.pc = 8 /\ r.tree = run[t].tree /\ r.src = run[t].src
          /\ r.rt = run[t].rt /\ r.inv = inv
      BY <2>2, <2>4, <2>5 DEF Follower, SameRequest
    <3>3. ListingOK(r, sel, files, made, storage)
      BY <2>2, <2>3, <3>1, <3>2, StoreNumbers DEF ListingOK
    <3>4. QED
      BY <1>2, <2>2, <2>5, <3>2, <3>3 DEF Follower
  <2>6. QED
    BY <2>1, <2>4, <2>5, PlainAdvance
<1>5. CASE ReauditStorage(t)
  <2>1. At(t, "reauditStorage") /\ Quiet
    BY <1>5 DEF ReauditStorage
  <2>2. run[t] \in RunType /\ run[t].op \in Listings /\ run[t].pc = 8
        /\ SameRequest(run[t], run[t])
    BY <1>1, <2>1 DEF SameRequest
  <2>3. CASE storage # run[t].tree
    BY <1>5, <2>1, <2>3, QuietAnswer, CodesKnown DEF ReauditStorage
  <2>4. CASE storage = run[t].tree
    <3>1. Advance(t, run[t])
      BY <1>5, <2>4 DEF ReauditStorage
    <3>2. ASSUME NEW r, Follower(run[t], r), lease = t
          PROVE  Owner(r)
      <4>1. ListingOK(run[t], sel, files, made, storage)
        BY <3>2, OwnerRelies DEF OwnerOK
      <4>2. /\ r.op = run[t].op /\ r.pc = 9 /\ r.tree = run[t].tree /\ r.src = run[t].src
            /\ r.rt = run[t].rt /\ r.inv = run[t].inv
        BY <2>2, <3>2 DEF Follower
      <4>3. run[t].inv \in ListingType /\ run[t].inv.storage = run[t].tree
        <5>1. /\ run[t].inv \in ListingType /\ run[t].tree <= run[t].inv.storage
              /\ run[t].inv.storage <= storage
          BY <2>2, <4>1 DEF ListingOK
        <5>2. QED
          BY <2>2, <2>4, <5>1, StoreNumbers DEF ListingType
      <4>4. ListingOK(r, sel, files, made, storage)
        BY <2>2, <4>1, <4>2, <4>3 DEF ListingOK
      <4>5. QED
        BY <1>2, <2>2, <3>2, <4>2, <4>4 DEF Follower
    <3>3. QED
      BY <2>1, <2>2, <3>1, <3>2, PlainAdvance
  <2>5. QED
    BY <2>3, <2>4
<1>6. QED
  BY <1>3, <1>4, <1>5

LEMMA SaveWorkspaceOK ==
    ASSUME Inv, NEW t \in Tabs, SaveWorkspace(t)
    PROVE  Inv'
<1>1. /\ At(t, "saveWorkspace") /\ sel' = run[t].src.of /\ Answer(t, "ready") /\ TakesEffect(t)
      /\ UNCHANGED <<host, rsel, journal, boot, epoch, session, page, held, events>>
  BY DEF SaveWorkspace
<1>2. run[t] \in RunType /\ WorkedOn(run[t]) /\ run[t].op = "adoptWorkspace" /\ run[t].pc = 11
  BY <1>1, AtPlace DEF Inv, Places
<1>3. Committing(run[t])
  BY <1>2 DEF Committing
<1>4. lease = t
  BY <1>1, <1>3, EffectOK
<1>5. journal = None /\ run[t].src.of \in 1..made
  <2>1. AdoptionOK(run[t], held[t], journal) /\ ListingOK(run[t], sel, files, made, storage)
    BY <1>4, OwnerRelies DEF OwnerOK
  <2>2. QED
    BY <1>2, <2>1 DEF AdoptionOK, ListingOK, Adoptions, Listings
<1>6. StoresOK'
  BY <1>1, <1>5 DEF Inv, StoresOK, host
<1>7. held' = [u \in Tabs |-> held'[u]]
  BY <1>1 DEF Inv, RequestsOK
<1>8. QED
  BY <1>1, <1>3, <1>4, <1>6, <1>7, EffectOK, AnswerOK, CodesKnown

-----------------------------------------------------------------------------
(* The steps of the configuration service.                                 *)

\* Away from the edits' and the resolution's own stretch the owner relies on
\* the runtime only.
LEMMA Unbound ==
    ASSUME Inv, NEW t \in Tabs, lease = t, NEW r,
           r.op \in Configuration, r.op = run[t].op, r.pc = run[t].pc + 1,
           run[t].pc \in Nat, r.rt = run[t].rt, r.pc # 5,
           Program[r.op][r.pc] \notin {"verify", "guard", "observe"},
           EditOK(r, held[t], sel, journal, boot, made),
           ResolutionOK(r, held[t], journal, made)
    PROVE  OwnerOK(r, held[t], rsel, sel, journal, boot, files, made, storage)
<1>1. OwnerOK(run[t], held[t], rsel, sel, journal, boot, files, made, storage)
  BY OwnerRelies
<1>2. r.op \notin Adoptions \cup Listings
  BY DEF Configuration, Adoptions, Listings, Edits
<1>3. RuntimeOK(r, rsel)
  BY <1>1 DEF OwnerOK, RuntimeOK
<1>4. AdoptionOK(r, held[t], journal) /\ ListingOK(r, sel, files, made, storage)
  BY <1>2 DEF AdoptionOK, ListingOK, Adoptions
<1>5. QED
  BY <1>3, <1>4 DEF OwnerOK

LEMMA SnapshotOK ==
    ASSUME Inv, NEW t \in Tabs, Snapshot(t)
    PROVE  Inv'
<1>1. At(t, "snapshot") /\ Quiet
  BY DEF Snapshot
<1>2. /\ run[t] \in RunType
      /\ \/ run[t].op = "getConfiguration" /\ run[t].pc = 2
         \/ run[t].op \in Edits /\ run[t].pc = 12
         \/ run[t].op = "resolve" /\ run[t].pc = 11
  BY <1>1, AtPlace DEF Inv, Places
<1>3. CASE Answer(t, "changed")
  BY <1>1, <1>3, QuietAnswer, CodesKnown
<1>4. ASSUME NEW s \in SourceType, Advance(t, [run[t] EXCEPT !.src = s])
      PROVE  Inv'
  <2> DEFINE l == [run[t] EXCEPT !.src = s]
  <2>1. l \in RunType /\ SameRequest(l, run[t]) /\ l.rt = run[t].rt
    BY <1>2 DEF RunType, SameRequest
  <2>2. Advance(t, l)
    BY <1>4
  <2> HIDE DEF l
  <2>3. ASSUME NEW r, Follower(l, r), lease = t
        PROVE  OwnerOK(r, held[t], rsel, sel, journal, boot, files, made, storage)
    <3>1. /\ r.op = run[t].op /\ r.pc = run[t].pc + 1 /\ r.rt = run[t].rt
          /\ Program[r.op][r.pc] \notin {"verify", "guard", "observe"}
      BY <2>1, <2>3 DEF Follower, SameRequest
    <3>2. r.op \in Configuration /\ r.pc # 5 /\ run[t].pc \in Nat
      BY <1>2, <3>1 DEF Configuration
    <3>3. EditOK(r, held[t], sel, journal, boot, made)
      BY <1>2, <3>1 DEF EditOK, Edits
    <3>4. ResolutionOK(r, held[t], journal, made)
      BY <1>2, <3>1 DEF ResolutionOK, Edits
    <3>5. QED
      BY <2>3, <3>1, <3>2, <3>3, <3>4, Unbound
  <2>4. QED
    BY <1>1, <2>1, <2>2, <2>3, PlainAdvance
<1>5. CASE journal # None
  <2>1. journal.id \in Nat /\ RecoveryState(journal, files) \in {"applied", "unapplied", "mixed"}
    BY <1>5, StoreNumbers DEF Inv, StoresOK, RecoveryState
  <2>2. Source("recovery", journal.id, RecoveryState(journal, files)) \in SourceType
    BY <2>1, SourceTyped
  <2>3. QED
    BY <1>4, <1>5, <2>2 DEF Snapshot
<1>6. CASE journal = None /\ sel = None
  <2>1. Source("creation", Absent, "") \in SourceType
    BY SourceTyped DEF Absent
  <2>2. QED
    BY <1>4, <1>6, <2>1 DEF Snapshot
<1>7. CASE journal = None /\ sel # None /\ files = sel
  <2>1. Source("base", files, "") \in SourceType
    BY StoreNumbers, SourceTyped
  <2>2. QED
    BY <1>4, <1>7, <2>1 DEF Snapshot
<1>8. QED
  BY <1>3, <1>5, <1>6, <1>7 DEF Snapshot

\* An edit or a creation, or their preview, starts from what is selected now.
LEMMA SourcesOK ==
    ASSUME Inv, NEW t \in Tabs, Sources(t) \/ Unselected(t)
    PROVE  Inv'
<1>1. PICK step \in {"sources", "unselected"} : At(t, step) /\ Quiet
  BY DEF Sources, Unselected
<1>2. /\ run[t] \in RunType /\ run[t].pc = 2
      /\ run[t].op \in {"preview", "save", "previewCreation", "create"}
  BY <1>1, AtPlace DEF Inv, Places
<1>3. CASE \E code \in Codes : Answer(t, code)
  BY <1>1, <1>3, QuietAnswer
<1>4. ASSUME NEW s \in SourceType, Advance(t, [run[t] EXCEPT !.src = s]),
             run[t].op = "save" => s.kind = "base" /\ sel # None,
             run[t].op = "create" => s.kind = "creation" /\ s.of = Absent
      PROVE  Inv'
  <2> DEFINE l == [run[t] EXCEPT !.src = s]
  <2>1. l \in RunType /\ SameRequest(l, run[t]) /\ l.rt = run[t].rt /\ l.src = s
    BY <1>2 DEF RunType, SameRequest
  <2>2. Advance(t, l)
    BY <1>4
  <2> HIDE DEF l
  <2>3. ASSUME NEW r, Follower(l, r), lease = t
        PROVE  OwnerOK(r, held[t], rsel, sel, journal, boot, files, made, storage)
    <3>1. /\ r.op = run[t].op /\ r.pc = run[t].pc + 1 /\ r.rt = run[t].rt /\ r.src = s
          /\ Program[r.op][r.pc] \notin {"verify", "guard", "observe"}
      BY <2>1, <2>3 DEF Follower, SameRequest
    <3>2. r.op \in Configuration /\ r.pc = 3 /\ run[t].pc \in Nat
      BY <1>2, <3>1 DEF Configuration, Edits
    <3>3. EditOK(r, held[t], sel, journal, boot, made)
      BY <1>4, <3>1, <3>2 DEF EditOK, Edits
    <3>4. ResolutionOK(r, held[t], journal, made)
      BY <1>2, <3>1 DEF ResolutionOK
    <3>5. QED
      BY <2>3, <3>1, <3>2, <3>3, <3>4, Unbound
  <2>4. QED
    BY <1>1, <2>1, <2>2, <2>3, PlainAdvance
<1>5. CASE Sources(t)
  <2>1. run[t].op \in {"preview", "save"}
    BY <1>5, AtPlace DEF Inv, Places, Sources
  <2>2. CASE ~(journal # None \/ sel = None) /\ files = sel
    <3>1. Source("base", files, "") \in SourceType /\ Source("base", files, "").kind = "base"
      BY StoreNumbers, SourceTyped
    <3>2. Advance(t, [run[t] EXCEPT !.src = Source("base", files, "")])
      BY <1>5, <2>2 DEF Sources
    <3>3. QED
      BY <1>4, <2>1, <2>2, <3>1, <3>2
  <2>3. CASE ~(~(journal # None \/ sel = None) /\ files = sel)
    BY <1>3, <1>5, <2>3, CodesKnown DEF Sources
  <2>4. QED
    BY <2>2, <2>3
<1>6. CASE Unselected(t)
  <2>1. run[t].op \in {"previewCreation", "create"}
    BY <1>6, AtPlace DEF Inv, Places, Unselected
  <2>2. CASE ~(journal # None \/ sel # None)
    <3> DEFINE s == Source("creation", Absent, "")
    <3>1. s \in SourceType /\ s.kind = "creation" /\ s.of = Absent
      BY SourceTyped DEF Absent
    <3>2. Advance(t, [run[t] EXCEPT !.src = s])
      BY <1>6, <2>2 DEF Unselected
    <3> HIDE DEF s
    <3>3. QED
      BY <1>4, <2>1, <2>2, <3>1, <3>2
  <2>3. CASE journal # None \/ sel # None
    BY <1>3, <1>6, <2>3, CodesKnown DEF Unselected
  <2>4. QED
    BY <2>2, <2>3
<1>7. QED
  BY <1>5, <1>6

\* The token of an edit's sources.
LEMMA TokenOfSources ==
    ASSUME NEW t \in Tabs, run[t].op \in Edits,
           run[t].src.kind = IF run[t].op = "create" THEN "creation" ELSE "base",
           run[t].op = "create" => run[t].src.of = Absent
    PROVE  Token(t) = BaseOf(run[t].op, boot, run[t].rt, run[t].src.of)
BY DEF Token, BaseOf, CreationBaseToken, BaseToken, Edits

LEMMA MatchOK ==
    ASSUME Inv, NEW t \in Tabs, Match(t)
    PROVE  Inv'
<1>1. At(t, "match") /\ Quiet
  BY DEF Match
<1>2. CASE Answer(t, "changed")
  BY <1>1, <1>2, QuietAnswer, CodesKnown
<1>3. CASE Advance(t, run[t]) /\ TokenMatches(Expected(t), held[t])
  <2>1. /\ run[t] \in RunType /\ run[t].pc = 5
        /\ run[t].op \in Edits \cup {"preview", "previewCreation"}
        /\ SameRequest(run[t], run[t])
    BY <1>1, AtPlace DEF Inv, Places, SameRequest
  <2>2. ASSUME NEW r, Follower(run[t], r), lease = t
        PROVE  OwnerOK(r, held[t], rsel, sel, journal, boot, files, made, storage)
    <3>1. /\ r.op = run[t].op /\ r.pc = 6 /\ r.rt = run[t].rt /\ r.src = run[t].src
          /\ r.choice = run[t].choice
          /\ Program[r.op][r.pc] \notin {"verify", "guard", "observe"}
      BY <2>1, <2>2 DEF Follower
    <3>2. r.op \in Configuration
      BY <2>1, <3>1 DEF Configuration
    <3>3. EditOK(run[t], held[t], sel, journal, boot, made)
      BY <2>2, OwnerRelies DEF OwnerOK
    <3>4. EditOK(r, held[t], sel, journal, boot, made)
      <4>1. SUFFICES ASSUME r.op \in Edits PROVE EditOK(r, held[t], sel, journal, boot, made)
        BY DEF EditOK
      <4>2. /\ run[t].src.kind = IF run[t].op = "create" THEN "creation" ELSE "base"
            /\ IF run[t].op = "create" THEN run[t].src.of = Absent ELSE sel # None
        BY <2>1, <3>1, <3>3, <4>1 DEF EditOK
      <4>3. held[t] = PreviewToken(BaseOf(run[t].op, boot, run[t].rt, run[t].src.of),
                                   run[t].choice)
        BY <1>3, <3>1, <4>1, <4>2, TokenOfSources DEF TokenMatches, Expected
      <4>4. QED
        BY <3>1, <4>2, <4>3 DEF EditOK
    <3>5. ResolutionOK(r, held[t], journal, made)
      BY <2>1, <3>1 DEF ResolutionOK, Edits
    <3>6. QED
      BY <2>1, <2>2, <3>1, <3>2, <3>4, <3>5, Unbound
  <2>3. QED
    BY <1>1, <1>3, <2>1, <2>2, PlainAdvance
<1>4. QED
  BY <1>2, <1>3 DEF Match

\* The journal of an edit names what its request read and what it will write.
LEMMA BeginOK ==
    ASSUME Inv, NEW t \in Tabs, Begin(t)
    PROVE  Inv'
<1> DEFINE J == [id |-> made + 1, from |-> files, choice |-> run[t].choice,
                 bootstrap |-> run[t].op = "create"]
<1>1. /\ At(t, "begin")
      /\ UNCHANGED <<exe, files, storage, rsel, sel, boot, sessions, held, events>>
      /\ UNCHANGED <<epoch, session, late>>
  BY DEF Begin, sessions
<1>2. held' = [u \in Tabs |-> held'[u]]
  BY <1>1 DEF Inv, RequestsOK
<1>3. /\ run[t] \in RunType /\ run[t].op \in Edits /\ run[t].pc = 6 /\ WorkedOn(run[t])
      /\ SameRequest(run[t], run[t])
  BY <1>1, AtPlace DEF Inv, Places, SameRequest
<1>4. lease = t
  BY <1>3, TheRequests DEF Inv, LocksOK, Owns, Leased, Edits
<1>5. OwnerOK(run[t], held[t], rsel, sel, journal, boot, files, made, storage)
  BY <1>4, OwnerRelies
<1>6. CASE \E code \in Codes : Answer(t, code) /\ UNCHANGED <<journal, made>>
  <2>1. StoresOK'
    BY <1>1, <1>6 DEF Inv, StoresOK
  <2>2. QED
    BY <1>1, <1>2, <1>4, <1>6, <2>1, AnswerOK
<1>7. CASE /\ made # MaxMade
           /\ IF run[t].op = "create" THEN AuditBootstrap(t) ELSE AuditCandidate(t)
           /\ made' = made + 1 /\ journal' = J /\ Advance(t, run[t])
  <2>1. /\ run[t].src.kind = IF run[t].op = "create" THEN "creation" ELSE "base"
        /\ IF run[t].op = "create" THEN run[t].src.of = Absent ELSE sel # None
        /\ held[t] = PreviewToken(BaseOf(run[t].op, boot, run[t].rt, run[t].src.of), run[t].choice)
    BY <1>3, <1>5 DEF OwnerOK, EditOK
  <2>2. files = run[t].src.of /\ (run[t].op = "create" <=> sel = None)
    BY <1>7, <2>1 DEF AuditBootstrap, AuditCandidate, Audited
  <2>3. run[t].choice \in Changes
    <3>1. run[t].choice \in Choices(run[t].op)
      BY <1>3 DEF Inv, RequestsOK, PositionOK
    <3>2. QED
      BY <1>3, <3>1 DEF Choices, Edits
  <2>4. /\ J.id = made + 1 /\ J.from = files /\ J.choice = run[t].choice
        /\ J.bootstrap = (run[t].op = "create")
    OBVIOUS
  <2> HIDE DEF J
  <2>5. made' \in 1..MaxMade /\ made' \in Nat /\ files \in 0..made'
        /\ (sel # None => sel \in 1..made') /\ J.id \in 1..made'
    <3>1. made \in 1..MaxMade /\ made < MaxMade
      BY <1>7, ReviewsAssumption DEF Inv, StoresOK
    <3>2. made' = made + 1 /\ J.id = made'
      BY <1>7, <2>4
    <3>3. QED
      BY <3>1, <3>2, StoreNumbers, ReviewsAssumption
  <2>6. J.bootstrap = (sel = None)
    BY <2>2, <2>4
  <2>7. StoresOK'
    <3>1. sel' \in (1..made') \cup {None}
      BY <1>1, <2>5
    <3>2. /\ journal'.id \in 1..made' /\ journal'.from \in 0..made'
          /\ journal'.choice \in Changes /\ journal'.bootstrap = (sel' = None)
      BY <1>1, <1>7, <2>3, <2>4, <2>5, <2>6
    <3>3. QED
      BY <1>1, <2>5, <3>1, <3>2 DEF Inv, StoresOK
  <2>8. ASSUME NEW r, Follower(run[t], r)
        PROVE  OwnerOK(r, held[t], rsel', sel', journal', boot, files', made', storage')
    <3>1. /\ r.op = run[t].op /\ r.pc = 7 /\ r.rt = run[t].rt /\ r.src = run[t].src
          /\ r.choice = run[t].choice
          /\ Program[r.op][r.pc] \notin {"verify", "guard", "observe"}
      BY <1>3, <2>8 DEF Follower
    <3>2. RuntimeOK(r, rsel')
      BY <1>1, <1>3, <1>5, <3>1 DEF OwnerOK, RuntimeOK
    <3>3. AdoptionOK(r, held[t], journal') /\ ListingOK(r, sel', files', made', storage')
          /\ ResolutionOK(r, held[t], journal', made')
      BY <1>3, <3>1 DEF AdoptionOK, ListingOK, ResolutionOK, Adoptions, Listings, Edits
    <3>4. EditOK(r, held[t], sel', journal', boot, made')
      BY <1>1, <1>7, <2>1, <2>2, <2>4, <2>5, <3>1 DEF EditOK
    <3>5. QED
      BY <3>2, <3>3, <3>4 DEF OwnerOK
  <2>9. gate # t
    BY <1>1, NotProbing
  <2>10. \A r : Follower(run[t], r) => ~Committing(r)
    BY <1>1, <1>3, BeforeCommit
  <2>11. QED
    <3>1. "begin" \notin {"open", "openCandidate", "lease"} /\ Advance(t, run[t])
      BY <1>7
    <3>2. UNCHANGED <<boot, epoch, session, held>> /\ late' = late
      BY <1>1
    <3>3. QED
      BY <1>1, <1>3, <1>4, <2>7, <2>8, <2>9, <2>10, <3>1, <3>2, AdvanceOK
<1>8. QED
  BY <1>6, <1>7, CodesKnown DEF Begin

\* What an edit past its Begin can rely on.
LEMMA EditRelies ==
    ASSUME Inv, NEW t \in Tabs, NEW step, At(t, step), step \in {"activate", "finalize"}
    PROVE  /\ run[t] \in RunType /\ run[t].op \in Edits /\ WorkedOn(run[t]) /\ lease = t
           /\ run[t].pc = IF step = "activate" THEN 10 ELSE 11
           /\ run[t].rt = rsel /\ journal.id \in 1..made
           /\ OwnerOK(run[t], held[t], rsel, sel, journal, boot, files, made, storage)
<1>1. /\ run[t] \in RunType /\ run[t].op \in Edits /\ WorkedOn(run[t])
      /\ run[t].pc = IF step = "activate" THEN 10 ELSE 11
  BY AtPlace DEF Inv, Places
<1>2. lease = t
  BY <1>1, TheRequests DEF Inv, LocksOK, Owns, Leased, Edits
<1>3. OwnerOK(run[t], held[t], rsel, sel, journal, boot, files, made, storage)
  BY <1>2, OwnerRelies
<1>4. run[t].rt = rsel
  BY <1>1, <1>3 DEF OwnerOK, RuntimeOK, Edits
<1>5. journal.id \in 1..made
  BY <1>1, <1>3 DEF OwnerOK, EditOK
<1>6. QED
  BY <1>1, <1>2, <1>3, <1>4, <1>5

LEMMA ActivateOK ==
    ASSUME Inv, NEW t \in Tabs, Activate(t)
    PROVE  Inv'
<1> DEFINE l == [run[t] EXCEPT !.applied = TRUE]
<1>1. /\ At(t, "activate") /\ files' = journal.id /\ Advance(t, l) /\ TakesEffect(t)
      /\ UNCHANGED <<exe, made, storage, stores, boot, epoch, session, page, held, events>>
  BY DEF Activate
<1>2. /\ run[t] \in RunType /\ run[t].op \in Edits /\ WorkedOn(run[t]) /\ lease = t
      /\ run[t].pc = 10 /\ run[t].rt = rsel /\ journal.id \in 1..made
      /\ OwnerOK(run[t], held[t], rsel, sel, journal, boot, files, made, storage)
  BY <1>1, EditRelies
<1>3. UNCHANGED <<rsel, sel, journal>>
  BY <1>1 DEF stores
<1>4. StoresOK'
  BY <1>1, <1>2, <1>3, StoreNumbers DEF Inv, StoresOK
<1>5. /\ l \in RunType /\ SameRequest(l, run[t]) /\ l.rt = run[t].rt /\ l.src = run[t].src
      /\ l.choice = run[t].choice
  BY <1>2 DEF RunType, SameRequest
<1> HIDE DEF l
<1>6. ASSUME NEW r, Follower(l, r)
      PROVE  OwnerOK(r, held[t], rsel', sel', journal', boot, files', made', storage')
  <2>1. /\ r.op = run[t].op /\ r.pc = 11 /\ r.rt = run[t].rt /\ r.src = run[t].src
        /\ r.choice = run[t].choice
        /\ Program[r.op][r.pc] \notin {"verify", "guard", "observe"}
    BY <1>2, <1>5, <1>6 DEF Follower, SameRequest
  <2>2. RuntimeOK(r, rsel')
    BY <1>2, <1>3, <2>1 DEF RuntimeOK
  <2>3. AdoptionOK(r, held[t], journal') /\ ListingOK(r, sel', files', made', storage')
        /\ ResolutionOK(r, held[t], journal', made')
    BY <1>2, <2>1 DEF AdoptionOK, ListingOK, ResolutionOK, Adoptions, Listings, Edits
  <2>4. EditOK(run[t], held[t], sel, journal, boot, made)
    BY <1>2 DEF OwnerOK
  <2>5. EditOK(r, held[t], sel', journal', boot, made')
    BY <1>1, <1>2, <1>3, <2>1, <2>4 DEF EditOK
  <2>6. QED
    BY <2>2, <2>3, <2>5 DEF OwnerOK
<1>7. gate # t /\ \A r : Follower(l, r) => ~Committing(r)
  BY <1>1, <1>5, NotProbing, BeforeCommit
<1>8. \/ late' = late
      \/ session[t] # epoch /\ Committing(run[t]) /\ late' = late + 1
  <2>1. Committing(run[t])
    BY <1>2 DEF Committing
  <2>2. QED
    BY <1>1, <2>1, EffectOK
<1>9. QED
  <2>1. "activate" \notin {"open", "openCandidate", "lease"}
    OBVIOUS
  <2>2. QED
    BY <1>1, <1>2, <1>4, <1>5, <1>6, <1>7, <1>8, <2>1, AdvanceOK

LEMMA ActivatePartlyOK ==
    ASSUME Inv, NEW t \in Tabs, ActivatePartly(t)
    PROVE  Inv'
<1> DEFINE r == [Idle EXCEPT !.op = run[t].op, !.applied = TRUE, !.code = "unavailable"]
<1>1. /\ At(t, "activate") /\ made < MaxMade /\ made' = made + 1 /\ files' = made + 1
      /\ run' = [run EXCEPT ![t] = r] /\ lease' = None /\ TakesEffect(t)
      /\ UNCHANGED <<exe, storage, stores, gate, boot, epoch, session, page, held, events>>
  BY DEF ActivatePartly
<1>2. run[t] \in RunType /\ run[t].op \in Edits /\ WorkedOn(run[t]) /\ lease = t /\ run[t].pc = 10
  BY <1>1, EditRelies
<1>3. UNCHANGED <<rsel, sel, journal>>
  BY <1>1 DEF stores
<1>4. made' \in 1..MaxMade /\ files' \in 0..made' /\ 1..made \subseteq 1..made'
      /\ 0..made \subseteq 0..made'
  BY <1>1, StoreNumbers, ReviewsAssumption
<1>5. StoresOK'
  BY <1>1, <1>3, <1>4 DEF Inv, StoresOK
<1>6. run[t].op \in Requests \cup {"idle"} /\ "unavailable" \in Codes
  BY <1>2, CodesKnown DEF RunType
<1>7. r \in RunType
  BY <1>6, IdleTyped DEF RunType
<1>8. r.code = "unavailable"
  BY DEF Idle
<1> HIDE DEF r
<1>9. ~WorkedOn(r) /\ ~Owns(r) /\ ~Probing(r) /\ ~Committing(r) /\ PositionOK(r)
  BY <1>8 DEF WorkedOn, Owns, Probing, Committing, PositionOK
<1>10. \/ late' = late
       \/ session[t] # epoch /\ Committing(run[t]) /\ late' = late + 1
  <2>1. Committing(run[t])
    BY <1>2 DEF Committing
  <2>2. QED
    BY <1>1, <2>1, EffectOK
<1>11. held' = [u \in Tabs |-> held'[u]] /\ gate' \in Tabs \cup {None} /\ gate' # t
  BY <1>1, NotProbing DEF Inv, RequestsOK, LocksOK
<1>12. \A u \in Tabs \ {t} : (lease' = u <=> lease = u) /\ (gate' = u => gate = u)
  BY <1>1, <1>2, ReviewsAssumption
<1>13. lease' # t
  BY <1>1, ReviewsAssumption
<1>14. QED
  BY <1>1, <1>2, <1>5, <1>7, <1>9, <1>10, <1>11, <1>12, <1>13, TabStep

LEMMA FinalizeOK ==
    ASSUME Inv, NEW t \in Tabs, Finalize(t)
    PROVE  Inv'
<1>1. /\ At(t, "finalize") /\ UNCHANGED <<host, rsel, boot, sessions, held, events>>
      /\ UNCHANGED <<exe, files, made, storage, epoch, session, late>>
  BY DEF Finalize, sessions, host
<1>2. /\ run[t] \in RunType /\ run[t].op \in Edits /\ WorkedOn(run[t]) /\ lease = t
      /\ run[t].pc = 11 /\ run[t].rt = rsel /\ journal.id \in 1..made
  BY <1>1, EditRelies
<1>3. held' = [u \in Tabs |-> held'[u]]
  BY <1>1 DEF Inv, RequestsOK
<1>4. CASE files # journal.id
  <2>1. (\E code \in Codes : Answer(t, code)) /\ UNCHANGED <<sel, journal>>
    BY <1>4, CodesKnown DEF Finalize
  <2>2. StoresOK'
    BY <1>1, <2>1 DEF Inv, StoresOK
  <2>3. QED
    BY <1>1, <1>2, <1>3, <2>1, <2>2, AnswerOK
<1>5. CASE files = journal.id
  <2>1. sel' = files /\ journal' = None /\ Advance(t, run[t]) /\ SameRequest(run[t], run[t])
    BY <1>5 DEF Finalize, SameRequest
  <2>2. StoresOK'
    BY <1>1, <1>2, <1>5, <2>1 DEF Inv, StoresOK
  <2>3. ASSUME NEW r, Follower(run[t], r)
        PROVE  OwnerOK(r, held[t], rsel', sel', journal', boot, files', made', storage')
    <3>1. /\ r.op = run[t].op /\ r.pc = 12 /\ r.rt = run[t].rt
          /\ Program[r.op][r.pc] \notin {"verify", "guard", "observe"}
      BY <1>2, <2>3 DEF Follower
    <3>2. RuntimeOK(r, rsel')
      BY <1>1, <1>2, <3>1 DEF RuntimeOK
    <3>3. AdoptionOK(r, held[t], journal') /\ ListingOK(r, sel', files', made', storage')
          /\ ResolutionOK(r, held[t], journal', made')
      BY <1>2, <3>1 DEF AdoptionOK, ListingOK, ResolutionOK, Adoptions, Listings, Edits
    <3>4. EditOK(r, held[t], sel', journal', boot, made')
      BY <3>1 DEF EditOK
    <3>5. QED
      BY <3>2, <3>3, <3>4 DEF OwnerOK
  <2>4. gate # t /\ \A r : Follower(run[t], r) => ~Committing(r)
    BY <1>1, <2>1, NotProbing, BeforeCommit
  <2>5. "finalize" \notin {"open", "openCandidate", "lease"}
    OBVIOUS
  <2>6. QED
    BY <1>1, <1>2, <2>1, <2>2, <2>3, <2>4, <2>5, AdvanceOK
<1>6. QED
  BY <1>4, <1>5

-----------------------------------------------------------------------------
(* The steps of a resolution.                                              *)

\* The request of a resolution that owns the lease.
LEMMA ResolutionRelies ==
    ASSUME Inv, NEW t \in Tabs, NEW step, At(t, step),
           step \in {"inspectRecovery", "matchRecovery", "readCurrent", "resolve"}
    PROVE  /\ run[t] \in RunType /\ run[t].op = "resolve" /\ WorkedOn(run[t]) /\ lease = t
           /\ step = "inspectRecovery" => run[t].pc = 2
           /\ step = "matchRecovery" => run[t].pc = 5
           /\ step = "readCurrent" => run[t].pc = 6
           /\ step = "resolve" => run[t].pc = 10
           /\ ResolutionOK(run[t], held[t], journal, made)
           /\ run[t].pc > 4 => run[t].rt = rsel
           /\ run[t].choice \in Resolutions
<1>1. /\ run[t] \in RunType /\ run[t].op = "resolve" /\ WorkedOn(run[t])
      /\ step = "inspectRecovery" => run[t].pc = 2
      /\ step = "matchRecovery" => run[t].pc = 5
      /\ step = "readCurrent" => run[t].pc = 6
      /\ step = "resolve" => run[t].pc = 10
  BY AtPlace DEF Inv, Places
<1>2. lease = t
  BY <1>1, TheRequests DEF Inv, LocksOK, Owns, Leased
<1>3. ResolutionOK(run[t], held[t], journal, made) /\ RuntimeOK(run[t], rsel)
  BY <1>2, OwnerRelies DEF OwnerOK
<1>4. run[t].pc > 4 => run[t].rt = rsel
  BY <1>1, <1>3 DEF RuntimeOK
<1>5. run[t].choice \in Choices("resolve")
  BY <1>1 DEF Inv, RequestsOK, PositionOK
<1>6. run[t].choice \in Resolutions
  BY <1>5 DEF Choices, Edits
<1>7. QED
  BY <1>1, <1>2, <1>3, <1>4, <1>6

\* Of the next step only the resolution's own part has to be shown.
LEMMA ResolutionUnbound ==
    ASSUME NEW r, NEW h, NEW R, NEW D, NEW J, NEW B, NEW F, NEW M, NEW S,
           r.op = "resolve", r.pc > 4 => r.rt = R,
           Program[r.op][r.pc] \notin {"verify", "guard", "observe"},
           ResolutionOK(r, h, J, M)
    PROVE  OwnerOK(r, h, R, D, J, B, F, M, S)
BY DEF OwnerOK, RuntimeOK, AdoptionOK, ListingOK, EditOK, Adoptions, Listings, Edits

LEMMA InspectRecoveryOK ==
    ASSUME Inv, NEW t \in Tabs, InspectRecovery(t)
    PROVE  Inv'
<1> DEFINE s == Source("recovery", journal.id, RecoveryState(journal, files))
           l == [run[t] EXCEPT !.src = s]
<1>1. At(t, "inspectRecovery") /\ Quiet
  BY DEF InspectRecovery
<1>2. CASE journal = None
  BY <1>1, <1>2, QuietAnswer, CodesKnown DEF InspectRecovery
<1>3. CASE journal # None
  <2>1. run[t] \in RunType /\ run[t].op = "resolve" /\ run[t].pc = 2
    BY <1>1, ResolutionRelies
  <2>2. journal.id \in Nat /\ RecoveryState(journal, files) \in {"applied", "unapplied", "mixed"}
    BY <1>3, StoreNumbers DEF Inv, StoresOK, RecoveryState
  <2>3. s \in SourceType /\ s.kind = "recovery" /\ s.of = journal.id
    <3>1. s \in SourceType
      BY <2>2, SourceTyped
    <3>2. s.kind = "recovery" /\ s.of = journal.id
      BY DEF Source
    <3>3. QED
      BY <3>1, <3>2
  <2>4. Advance(t, l)
    BY <1>3 DEF InspectRecovery
  <2> HIDE DEF s
  <2>5. l \in RunType /\ SameRequest(l, run[t]) /\ l.src = s
    BY <2>1, <2>3 DEF RunType, SameRequest
  <2> HIDE DEF l
  <2>6. ASSUME NEW r, Follower(l, r)
        PROVE  OwnerOK(r, held[t], rsel, sel, journal, boot, files, made, storage)
    <3>1. /\ r.op = "resolve" /\ r.pc = 3 /\ r.src = s
          /\ Program[r.op][r.pc] \notin {"verify", "guard", "observe"}
      BY <2>1, <2>5, <2>6 DEF Follower, SameRequest
    <3>2. ResolutionOK(r, held[t], journal, made) /\ ~(r.pc > 4)
      BY <1>3, <2>3, <3>1 DEF ResolutionOK
    <3>3. QED
      BY <3>1, <3>2, ResolutionUnbound
  <2>7. QED
    BY <1>1, <2>4, <2>5, <2>6, PlainAdvance
<1>4. QED
  BY <1>2, <1>3

LEMMA MatchRecoveryOK ==
    ASSUME Inv, NEW t \in Tabs, MatchRecovery(t)
    PROVE  Inv'
<1>1. At(t, "matchRecovery") /\ Quiet
  BY DEF MatchRecovery
<1>2. CASE ~TokenMatches(Token(t), held[t])
  BY <1>1, <1>2, QuietAnswer, CodesKnown DEF MatchRecovery
<1>3. CASE TokenMatches(Token(t), held[t])
  <2>1. /\ run[t] \in RunType /\ run[t].op = "resolve" /\ run[t].pc = 5
        /\ ResolutionOK(run[t], held[t], journal, made) /\ run[t].rt = rsel
    <3>1. /\ run[t] \in RunType /\ run[t].op = "resolve" /\ run[t].pc = 5
          /\ ResolutionOK(run[t], held[t], journal, made)
          /\ run[t].pc > 4 => run[t].rt = rsel
      BY <1>1, ResolutionRelies
    <3>2. QED
      BY <3>1
  <2>2. journal # None /\ run[t].src.kind = "recovery" /\ run[t].src.of = journal.id
    BY <2>1 DEF ResolutionOK
  <2>3. held[t].of = journal.id
    <3>1. held[t] = RecoveryToken(run[t].rt, run[t].src.of, run[t].src.state)
      BY <1>3, <2>2 DEF TokenMatches, Token
    <3>2. QED
      BY <2>2, <3>1 DEF RecoveryToken, Review
  <2>4. Advance(t, run[t]) /\ SameRequest(run[t], run[t])
    BY <1>3 DEF MatchRecovery, SameRequest
  <2>5. ASSUME NEW r, Follower(run[t], r)
        PROVE  OwnerOK(r, held[t], rsel, sel, journal, boot, files, made, storage)
    <3>1. /\ r.op = "resolve" /\ r.pc = 6 /\ r.rt = rsel
          /\ Program[r.op][r.pc] \notin {"verify", "guard", "observe"}
      BY <2>1, <2>5 DEF Follower
    <3>2. ResolutionOK(r, held[t], journal, made)
      BY <2>2, <2>3, <3>1 DEF ResolutionOK
    <3>3. QED
      BY <3>1, <3>2, ResolutionUnbound
  <2>6. QED
    BY <1>1, <2>1, <2>4, <2>5, PlainAdvance
<1>4. QED
  BY <1>2, <1>3

LEMMA ReadCurrentOK ==
    ASSUME Inv, NEW t \in Tabs, ReadCurrent(t)
    PROVE  Inv'
<1> DEFINE s == Source("current", files, "")
           l == [run[t] EXCEPT !.src = s]
<1>1. At(t, "readCurrent") /\ Quiet
  BY DEF ReadCurrent
<1>2. CASE ~Permits(run[t].choice)
  BY <1>1, <1>2, QuietAnswer, CodesKnown DEF ReadCurrent
<1>3. CASE Permits(run[t].choice)
  <2>1. /\ run[t] \in RunType /\ run[t].op = "resolve" /\ run[t].pc = 6
        /\ ResolutionOK(run[t], held[t], journal, made) /\ run[t].rt = rsel
        /\ run[t].choice \in Resolutions
    BY <1>1, ResolutionRelies
  <2>2. journal # None /\ held[t].of = journal.id
    BY <2>1 DEF ResolutionOK
  <2>3. journal.id \in 1..made
    BY <2>2 DEF Inv, StoresOK
  <2>4. run[t].choice # "discard" => files \in 1..made
    <3>1. CASE run[t].choice = "finalize"
      BY <1>3, <2>3, <3>1 DEF Permits, RecoveryState
    <3>2. CASE run[t].choice = "adopt"
      BY <1>3, <3>2, StoreNumbers DEF Permits, Adoptable, Absent
    <3>3. QED
      BY <2>1, <3>1, <3>2 DEF Resolutions
  <2>5. s \in SourceType /\ s.of = files
    BY StoreNumbers, SourceTyped
  <2>6. Advance(t, l)
    BY <1>3 DEF ReadCurrent
  <2> HIDE DEF s
  <2>7. l \in RunType /\ SameRequest(l, run[t]) /\ l.src = s /\ l.rt = run[t].rt
    BY <2>1, <2>5 DEF RunType, SameRequest
  <2> HIDE DEF l
  <2>8. ASSUME NEW r, Follower(l, r)
        PROVE  OwnerOK(r, held[t], rsel, sel, journal, boot, files, made, storage)
    <3>1. /\ r.op = "resolve" /\ r.pc = 7 /\ r.src = s /\ r.rt = rsel /\ r.choice = run[t].choice
          /\ Program[r.op][r.pc] \notin {"verify", "guard", "observe"}
      BY <2>1, <2>7, <2>8 DEF Follower, SameRequest
    <3>2. ResolutionOK(r, held[t], journal, made)
      BY <2>2, <2>4, <2>5, <3>1 DEF ResolutionOK
    <3>3. QED
      BY <3>1, <3>2, ResolutionUnbound
  <2>9. QED
    BY <1>1, <2>6, <2>7, <2>8, PlainAdvance
<1>4. QED
  BY <1>2, <1>3

LEMMA ResolveOK ==
    ASSUME Inv, NEW t \in Tabs, Resolve(t)
    PROVE  Inv'
<1> DEFINE l == [run[t] EXCEPT !.applied = TRUE]
<1>1. /\ At(t, "resolve") /\ UNCHANGED <<host, rsel, boot, epoch, session, page, held, events>>
      /\ UNCHANGED <<exe, files, made, storage>>
  BY DEF Resolve, host
<1>2. /\ run[t] \in RunType /\ run[t].op = "resolve" /\ run[t].pc = 10 /\ WorkedOn(run[t])
      /\ ResolutionOK(run[t], held[t], journal, made) /\ run[t].rt = rsel /\ lease = t
  BY <1>1, ResolutionRelies
<1>3. held' = [u \in Tabs |-> held'[u]]
  BY <1>1 DEF Inv, RequestsOK
<1>4. CASE files # run[t].src.of
  <2>1. Answer(t, "changed") /\ UNCHANGED <<sel, journal, late>>
    BY <1>4 DEF Resolve
  <2>2. StoresOK'
    BY <1>1, <2>1 DEF Inv, StoresOK
  <2>3. QED
    BY <1>1, <1>2, <1>3, <2>1, <2>2, AnswerOK, CodesKnown
<1>5. CASE files = run[t].src.of
  <2>1. /\ journal' = None /\ sel' = (IF run[t].choice = "discard" THEN sel ELSE files)
        /\ Advance(t, l) /\ TakesEffect(t)
    BY <1>5 DEF Resolve
  <2>2. run[t].choice # "discard" => files \in 1..made
    BY <1>2, <1>5 DEF ResolutionOK
  <2>3. StoresOK'
    BY <1>1, <2>1, <2>2 DEF Inv, StoresOK
  <2>4. l \in RunType /\ SameRequest(l, run[t]) /\ l.rt = run[t].rt
    BY <1>2 DEF RunType, SameRequest
  <2> HIDE DEF l
  <2>5. ASSUME NEW r, Follower(l, r)
        PROVE  OwnerOK(r, held[t], rsel', sel', journal', boot, files', made', storage')
    <3>1. /\ r.op = "resolve" /\ r.pc = 11 /\ r.rt = rsel'
          /\ Program[r.op][r.pc] \notin {"verify", "guard", "observe"}
      BY <1>1, <1>2, <2>4, <2>5 DEF Follower, SameRequest
    <3>2. ResolutionOK(r, held[t], journal', made')
      BY <3>1 DEF ResolutionOK
    <3>3. QED
      BY <3>1, <3>2, ResolutionUnbound
  <2>6. gate # t /\ \A r : Follower(l, r) => ~Committing(r)
    BY <1>1, <2>4, NotProbing, BeforeCommit
  <2>7. \/ late' = late
        \/ session[t] # epoch /\ Committing(run[t]) /\ late' = late + 1
    <3>1. Committing(run[t])
      BY <1>2 DEF Committing
    <3>2. QED
      BY <2>1, <3>1, EffectOK
  <2>8. "resolve" \notin {"open", "openCandidate", "lease"}
    OBVIOUS
  <2>9. QED
    BY <1>1, <1>2, <2>1, <2>3, <2>4, <2>5, <2>6, <2>7, <2>8, AdvanceOK
<1>6. QED
  BY <1>4, <1>5

-----------------------------------------------------------------------------
(* The host and the service.                                               *)

\* The files move to a new version, or away: the owner of the lease loses
\* nothing but files that agree with it.
LEMMA FilesMove ==
    ASSUME Inv, made' \in Nat, made <= made', made' <= MaxMade,
           files' \in 0..made', files' \in {Absent, made + 1}, events' \in 0..MaxEvents,
           UNCHANGED <<exe, storage, stores, lease, gate, boot, sessions, held, run>>
    PROVE  Inv'
<1>1. /\ UNCHANGED <<rsel, sel, journal, epoch, session, late, lease, gate, boot, held, run>>
      /\ UNCHANGED <<exe, storage>>
  BY DEF stores, sessions
<1>2. 1..made \subseteq 1..made' /\ 0..made \subseteq 0..made'
  BY StoreNumbers
<1>3. StoresOK'
  BY <1>1, <1>2, StoreNumbers DEF Inv, StoresOK
<1>4. SessionsOK' /\ RequestsOK' /\ LocksOK' /\ LateOK'
  BY <1>1 DEF Inv, SessionsOK, RequestsOK, LocksOK, LateOK
<1>5. OwnersOK'
  <2>1. SUFFICES ASSUME NEW t \in Tabs, lease = t
                 PROVE  OwnerOK(run[t], held[t], rsel, sel, journal, boot, files', made', storage)
    BY <1>1 DEF OwnersOK
  <2>2. OwnerOK(run[t], held[t], rsel, sel, journal, boot, files, made, storage)
    BY <2>1, OwnerRelies
  <2>3. ListingOK(run[t], sel, files', made', storage)
    <3>1. \A v \in 1..made : files' # v
      BY StoreNumbers DEF Absent
    <3>2. run[t].pc \in {8, 9} => run[t].pc > 5
      OBVIOUS
    <3>3. QED
      BY <1>2, <2>2, <3>1, <3>2 DEF OwnerOK, ListingOK
  <2>4. EditOK(run[t], held[t], sel, journal, boot, made')
    BY <1>2, <2>2 DEF OwnerOK, EditOK
  <2>5. ResolutionOK(run[t], held[t], journal, made')
    BY <1>2, <2>2 DEF OwnerOK, ResolutionOK
  <2>6. QED
    BY <2>2, <2>3, <2>4, <2>5 DEF OwnerOK
<1>6. QED
  BY <1>3, <1>4, <1>5 DEF Inv

LEMMA EventCounted ==
    ASSUME Inv, Event
    PROVE  events' \in 0..MaxEvents
BY ReviewsAssumption DEF Event, Inv, StoresOK

LEMMA FileEventsOK ==
    ASSUME Inv, EditFiles \/ RemoveFiles
    PROVE  Inv'
<1>1. events' \in 0..MaxEvents
  BY EventCounted DEF EditFiles, RemoveFiles
<1>2. made <= MaxMade
  BY ReviewsAssumption DEF Inv, StoresOK
<1>3. CASE EditFiles
  BY <1>1, <1>3, FilesMove, StoreNumbers, ReviewsAssumption DEF EditFiles
<1>4. CASE RemoveFiles
  BY <1>1, <1>2, <1>4, FilesMove, StoreNumbers, ReviewsAssumption DEF RemoveFiles, Absent
<1>5. QED
  BY <1>3, <1>4

LEMMA StorageEventOK ==
    ASSUME Inv, ChangeStorage
    PROVE  Inv'
<1>1. /\ storage' = storage + 1 /\ events' \in 0..MaxEvents
      /\ UNCHANGED <<exe, files, made, rsel, sel, journal, lease, gate, boot, held, run>>
      /\ UNCHANGED <<epoch, session, late>>
  BY EventCounted DEF ChangeStorage, stores, sessions
<1>2. StoresOK'
  BY <1>1 DEF Inv, StoresOK
<1>3. SessionsOK' /\ RequestsOK' /\ LocksOK' /\ LateOK'
  BY <1>1 DEF Inv, SessionsOK, RequestsOK, LocksOK, LateOK
<1>4. OwnersOK'
  <2>1. SUFFICES ASSUME NEW t \in Tabs, lease = t
                 PROVE  OwnerOK(run[t], held[t], rsel, sel, journal, boot, files, made, storage')
    BY <1>1 DEF OwnersOK
  <2>2. OwnerOK(run[t], held[t], rsel, sel, journal, boot, files, made, storage)
    BY <2>1, OwnerRelies
  <2>3. ListingOK(run[t], sel, files, made, storage')
    <3>1. run[t].tree \in Nat /\ storage \in Nat
      BY StoreNumbers DEF Inv, RequestsOK, RunType
    <3>2. run[t].inv \in ListingType => run[t].inv.storage \in Nat
      BY DEF ListingType
    <3>3. ListingOK(run[t], sel, files, made, storage)
      BY <2>2 DEF OwnerOK
    <3>4. QED
      BY <1>1, <3>1, <3>2, <3>3 DEF ListingOK
  <2>4. QED
    BY <2>2, <2>3 DEF OwnerOK
<1>5. QED
  BY <1>2, <1>3, <1>4 DEF Inv

LEMMA ExecutableEventOK ==
    ASSUME Inv, ReplaceExecutable
    PROVE  Inv'
<1>1. /\ exe' \in Executables /\ events' \in 0..MaxEvents
      /\ UNCHANGED <<storage, files, made, rsel, sel, journal, lease, gate, boot, held, run>>
      /\ UNCHANGED <<epoch, session, late>>
  BY EventCounted DEF ReplaceExecutable, stores, sessions
<1>2. StoresOK'
  BY <1>1 DEF Inv, StoresOK
<1>3. SessionsOK' /\ RequestsOK' /\ LocksOK' /\ LateOK' /\ OwnersOK'
  BY <1>1 DEF Inv, SessionsOK, RequestsOK, LocksOK, LateOK, OwnersOK
<1>4. QED
  BY <1>2, <1>3 DEF Inv

\* A revocation starts the count of late orders again.
LEMMA RevokeOK ==
    ASSUME Inv, Revoke
    PROVE  Inv'
<1>1. /\ epoch' = epoch + 1 /\ late' = 0 /\ events' \in 0..MaxEvents
      /\ UNCHANGED <<exe, storage, files, made, rsel, sel, journal, lease, gate, boot, held, run>>
      /\ session' = session
  BY EventCounted DEF Revoke, host, stores
<1>2. StoresOK'
  BY <1>1 DEF Inv, StoresOK
<1>3. SessionsOK'
  BY <1>1 DEF Inv, SessionsOK
<1>4. LateOK'
  BY <1>1 DEF LateOK
<1>5. RequestsOK' /\ LocksOK' /\ OwnersOK'
  BY <1>1 DEF Inv, RequestsOK, LocksOK, OwnersOK
<1>6. QED
  BY <1>2, <1>3, <1>4, <1>5 DEF Inv

LEMMA RestartOK ==
    ASSUME Inv, Restart
    PROVE  Inv'
<1>1. /\ run' = [t \in Tabs |-> Idle] /\ lease' = None /\ gate' = None
      /\ boot' \in Boots /\ events' \in 0..MaxEvents
      /\ UNCHANGED <<exe, storage, files, made, rsel, sel, journal, held, epoch, session, late>>
  BY EventCounted DEF Restart, host, stores, sessions
<1>2. Idle.op = "idle"
  BY DEF Idle
<1>3. ~WorkedOn(Idle) /\ ~Owns(Idle) /\ ~Probing(Idle) /\ ~Committing(Idle) /\ PositionOK(Idle)
  BY <1>2 DEF WorkedOn, Owns, Probing, Committing, PositionOK
<1>4. StoresOK' /\ SessionsOK'
  BY <1>1 DEF Inv, StoresOK, SessionsOK
<1>5. RequestsOK'
  BY <1>1, <1>3, IdleTyped DEF Inv, RequestsOK
<1>6. LocksOK' /\ OwnersOK'
  BY <1>1, <1>3, ReviewsAssumption DEF LocksOK, OwnersOK
<1>7. LateOK'
  BY <1>1, <1>3 DEF Inv, LateOK
<1>8. QED
  BY <1>4, <1>5, <1>6, <1>7 DEF Inv

-----------------------------------------------------------------------------
(* The invariant, and what follows from it.                                *)

LEMMA InitOK ==
    ASSUME Init
    PROVE  Inv
<1>1. PICK s \in InitialSelections :
          /\ rsel = (IF s.runtime THEN Runtime(1, ManifestOf[1][1]) ELSE None)
          /\ sel = (IF s.files THEN 1 ELSE None)
  BY DEF Init
<1>2. 1 \in Executables /\ 1 \in Boots
  BY ReviewsAssumption DEF Executables
<1>3. rsel \in RuntimeType \cup {None}
  <2>1. s.runtime => ManifestOf[1][1] \in Manifests \ {None}
    BY <1>2, ReviewsAssumption DEF Manifests
  <2>2. QED
    BY <1>1, <1>2, <2>1 DEF RuntimeType, Runtime
<1>4. StoresOK
  BY <1>1, <1>2, <1>3, ReviewsAssumption DEF Init, StoresOK, Absent
<1>5. SessionsOK /\ LateOK
  <2>1. \A t \in Tabs : session[t] = 1
    BY DEF Init
  <2>2. session \in [Tabs -> Nat]
    BY DEF Init
  <2>3. QED
    BY <2>1, <2>2 DEF Init, SessionsOK, LateOK
<1>6. Idle.op = "idle"
  BY DEF Idle
<1>7. ~WorkedOn(Idle) /\ ~Owns(Idle) /\ ~Probing(Idle) /\ PositionOK(Idle)
  BY <1>6 DEF WorkedOn, Owns, Probing, PositionOK
<1>8. RequestsOK
  BY <1>7, IdleTyped DEF Init, RequestsOK
<1>9. LocksOK /\ OwnersOK
  BY <1>7, ReviewsAssumption DEF Init, LocksOK, OwnersOK
<1>10. QED
  BY <1>4, <1>5, <1>8, <1>9 DEF Inv

LEMMA NextOK ==
    ASSUME Inv, [Next]_vars
    PROVE  Inv'
<1>1. CASE UNCHANGED vars
  BY <1>1 DEF vars, Inv, StoresOK, SessionsOK, RequestsOK, LocksOK, OwnersOK, LateOK
<1>2. ASSUME NEW t \in Tabs, NEW op \in Requests, Authorize(t, op) PROVE Inv'
  BY <1>2, AuthorizeOK
<1>3. ASSUME NEW t \in Tabs,
             \/ Reply(t) \/ SignIn(t) \/ AcquireWorkspaceLease(t)
             \/ RequireClearNativeEditJournal(t) \/ Reauthorize(t) \/ Fault(t)
      PROVE  Inv'
  BY <1>3, ReplyOK, SignInOK, AcquireOK, RequireClearOK, ReauthorizeOK, RefusalsOK
<1>4. ASSUME NEW t \in Tabs, Inspection(t) PROVE Inv'
  BY <1>4, BeginInspectionOK, RefusalsOK, VerifyOK, GuardOK, PresentCandidateOK,
     CompareRuntimeOK, SaveRuntimeOK DEF Inspection
<1>5. ASSUME NEW t \in Tabs, Workspace(t) PROVE Inv'
  BY <1>5, LoadSelectionOK, VerifyFilesOK, LookingOK, CompareFilesOK, StorageStepsOK,
     SaveWorkspaceOK DEF Workspace
<1>6. ASSUME NEW t \in Tabs, Service(t) PROVE Inv'
  BY <1>6, SnapshotOK, LookingOK, SourcesOK, MatchOK, BeginOK, ActivateOK, RefusalsOK,
     ActivatePartlyOK, FinalizeOK, InspectRecoveryOK, MatchRecoveryOK, ReadCurrentOK,
     ResolveOK DEF Service
<1>7. CASE \/ ReplaceExecutable \/ EditFiles \/ RemoveFiles \/ ChangeStorage
           \/ Revoke \/ Restart
  BY <1>7, ExecutableEventOK, FileEventsOK, StorageEventOK, RevokeOK, RestartOK
<1>8. QED
  BY <1>1, <1>2, <1>3, <1>4, <1>5, <1>6, <1>7 DEF Next

\* The invariant of the requests, the stores and the locks.
THEOREM Invariance == Spec => []Inv
<1>1. Init => Inv
  BY InitOK
<1>2. Inv /\ [Next]_vars => Inv'
  BY NextOK
<1>3. QED
  BY <1>1, <1>2, PTL DEF Spec

\* TypeOK: selections name what can be adopted, and only a request that is
\* being worked on holds the workspace lease or the Inspector.
THEOREM TypeTheorem == Spec => []TypeOK
<1>1. Inv => TypeOK
  <2>1. SUFFICES ASSUME Inv PROVE TypeOK
    OBVIOUS
  <2>2. made \in 1..MaxMade /\ MaxMade \in Nat
    BY <2>1, ReviewsAssumption DEF Inv, StoresOK
  <2>3. 1..made \subseteq Versions /\ 0..made \subseteq Versions \cup {Absent}
        /\ made \in Versions
    BY <2>2 DEF Versions, Absent
  <2>4. ASSUME NEW t \in Tabs
        PROVE  /\ session[t] \in 1..epoch /\ run[t].op \in Requests \cup {"idle"}
               /\ run[t].rt \in RuntimeType \cup {None}
               /\ lease = t \/ gate = t => Working(t)
    <3>1. session[t] \in 1..epoch
      BY <2>1 DEF Inv, SessionsOK
    <3>2. run[t].op \in Requests \cup {"idle"} /\ run[t].rt \in RuntimeType \cup {None}
      BY <2>1 DEF Inv, RequestsOK, RunType
    <3>3. lease = t \/ gate = t => Working(t)
      BY <2>1 DEF Inv, LocksOK, Owns, Probing, WorkedOn, Working
    <3>4. QED
      BY <3>1, <3>2, <3>3
  <2>5. /\ exe \in Executables /\ files \in Versions \cup {Absent}
        /\ rsel \in RuntimeType \cup {None} /\ sel \in Versions \cup {None}
        /\ boot \in Boots /\ events \in 0..MaxEvents
    BY <2>1, <2>3 DEF Inv, StoresOK
  <2>6. journal # None =>
           /\ journal.id \in Versions /\ journal.from \in Versions \cup {Absent}
           /\ journal.choice \in Changes /\ journal.bootstrap = (sel = None)
    BY <2>1, <2>3 DEF Inv, StoresOK
  <2>7. QED
    BY <2>3, <2>4, <2>5, <2>6 DEF TypeOK
<1>2. QED
  BY <1>1, Invariance, PTL

\* RevocationBound: at most one order takes effect after its revocation
\* (reauthorizeMutation inside the lease).
THEOREM RevocationTheorem == Spec => []RevocationBound
<1>1. Inv => RevocationBound
  BY DEF Inv, LateOK, RevocationBound
<1>2. QED
  BY <1>1, Invariance, PTL

\* ReadyIsCoherent: a workspace about to be reported ready shows the inventory
\* of the shown files, in the audited storage, by the selected executable.
THEOREM ReadyTheorem == Spec => []ReadyIsCoherent
<1>1. ASSUME Inv, NEW t \in Tabs, NEW step \in {"ready", "saveWorkspace"}, At(t, step)
      PROVE  /\ run[t].inv = [files |-> run[t].src.of, storage |-> run[t].tree]
             /\ run[t].rt = rsel
  <2>1. run[t].op \in Listings /\ run[t].pc \in {10, 11} /\ WorkedOn(run[t])
    BY <1>1, AtPlace DEF Inv, Places, Listings
  <2>2. lease = t
    BY <1>1, <2>1, TheRequests DEF Inv, LocksOK, Owns, Leased, Listings
  <2>3. RuntimeOK(run[t], rsel) /\ ListingOK(run[t], sel, files, made, storage)
    BY <1>1, <2>2, OwnerRelies DEF OwnerOK
  <2>4. QED
    BY <2>1, <2>3 DEF RuntimeOK, ListingOK, Listings
<1>2. Inv => ReadyIsCoherent
  BY <1>1 DEF ReadyIsCoherent
<1>3. QED
  BY <1>2, Invariance, PTL

-----------------------------------------------------------------------------
(* What changes the selections and the files.                              *)

Kept == UNCHANGED <<rsel, sel, files>>

\* The steps that only look, answer or refuse.
LEMMA QuietKeeps ==
    ASSUME NEW t \in Tabs,
           \/ Quiet
           \/ \E code : Refuse(t, code)
           \/ UNCHANGED <<host, stores, boot, sessions, events>>
    PROVE  Kept
BY DEF Kept, Quiet, Refuse, host, stores

\* The selected executable, the selected workspace and the files change in
\* these actions only.
LEMMA Changers ==
    ASSUME [Next]_vars
    PROVE  /\ rsel' # rsel => \E t \in Tabs : SaveRuntime(t)
           /\ sel' # sel => \E t \in Tabs : SaveWorkspace(t) \/ Finalize(t) \/ Resolve(t)
           /\ files' # files =>
                 EditFiles \/ RemoveFiles \/ \E t \in Tabs : Activate(t) \/ ActivatePartly(t)
<1> DEFINE Goal ==
      /\ rsel' # rsel => \E t \in Tabs : SaveRuntime(t)
      /\ sel' # sel => \E t \in Tabs : SaveWorkspace(t) \/ Finalize(t) \/ Resolve(t)
      /\ files' # files =>
            EditFiles \/ RemoveFiles \/ \E t \in Tabs : Activate(t) \/ ActivatePartly(t)
<1>1. Kept => Goal
  BY DEF Kept
<1>2. CASE UNCHANGED vars
  BY <1>1, <1>2 DEF vars, Kept
<1>3. ASSUME NEW t \in Tabs, NEW op \in Requests, Authorize(t, op) PROVE Goal
  BY <1>1, <1>3, QuietKeeps DEF Authorize
<1>4. ASSUME NEW t \in Tabs,
             \/ Reply(t) \/ SignIn(t) \/ AcquireWorkspaceLease(t)
             \/ RequireClearNativeEditJournal(t) \/ Reauthorize(t) \/ Fault(t)
      PROVE  Goal
  <2>1. Kept
    <3>1. CASE Reply(t) \/ SignIn(t)
      BY <3>1 DEF Reply, SignIn, Kept, host, stores
    <3>2. CASE AcquireWorkspaceLease(t) \/ RequireClearNativeEditJournal(t)
      BY <3>2, QuietKeeps DEF AcquireWorkspaceLease, RequireClearNativeEditJournal
    <3>3. CASE Reauthorize(t) \/ Fault(t)
      BY <3>3, QuietKeeps DEF Reauthorize, Fault
    <3>4. QED
      BY <1>4, <3>1, <3>2, <3>3
  <2>2. QED
    BY <1>1, <2>1
<1>5. ASSUME NEW t \in Tabs, Inspection(t) PROVE Goal
  <2>1. CASE SaveRuntime(t)
    BY <2>1 DEF SaveRuntime, host
  <2>2. CASE BeginInspection(t) \/ InspectionBusy(t) \/ NoSelectedRuntime(t) \/ PresentCandidate(t)
    BY <1>1, <2>2, QuietKeeps
    DEF BeginInspection, InspectionBusy, NoSelectedRuntime, PresentCandidate
  <2>3. CASE Verify(t) \/ Guard(t) \/ CompareRuntime(t)
    BY <1>1, <2>3, QuietKeeps DEF Verify, Guard, CompareRuntime
  <2>4. QED
    BY <1>5, <2>1, <2>2, <2>3 DEF Inspection
<1>6. ASSUME NEW t \in Tabs, Workspace(t) PROVE Goal
  <2>1. CASE SaveWorkspace(t)
    BY <2>1 DEF SaveWorkspace, host
  <2>2. CASE LoadSelection(t) \/ VerifyFiles(t) \/ InspectFiles(t) \/ CompareFiles(t)
    BY <1>1, <2>2, QuietKeeps DEF LoadSelection, VerifyFiles, InspectFiles, CompareFiles
  <2>3. CASE AuditStorage(t) \/ List(t) \/ ReauditStorage(t) \/ Ready(t)
    BY <1>1, <2>3, QuietKeeps DEF AuditStorage, List, ReauditStorage, Ready
  <2>4. QED
    BY <1>6, <2>1, <2>2, <2>3 DEF Workspace
<1>7. ASSUME NEW t \in Tabs, Service(t) PROVE Goal
  <2>1. CASE Activate(t) \/ ActivatePartly(t)
    BY <2>1 DEF Activate, ActivatePartly, stores
  <2>2. CASE Finalize(t) \/ Resolve(t)
    BY <2>2 DEF Finalize, Resolve, host
  <2>3. CASE Begin(t)
    BY <1>1, <2>3 DEF Begin, Kept
  <2>4. CASE Snapshot(t) \/ View(t) \/ Sources(t) \/ Unselected(t) \/ Match(t)
    BY <1>1, <2>4, QuietKeeps DEF Snapshot, View, Sources, Unselected, Match
  <2>5. CASE PrepareCandidate(t) \/ PrepareCreation(t) \/ SourcesMoved(t)
    BY <1>1, <2>5, QuietKeeps DEF PrepareCandidate, PrepareCreation, Candidate, SourcesMoved
  <2>6. CASE InspectRecovery(t) \/ MatchRecovery(t) \/ ReadCurrent(t)
    BY <1>1, <2>6, QuietKeeps DEF InspectRecovery, MatchRecovery, ReadCurrent
  <2>7. QED
    BY <1>7, <2>1, <2>2, <2>3, <2>4, <2>5, <2>6 DEF Service
<1>8. CASE EditFiles \/ RemoveFiles
  BY <1>8 DEF EditFiles, RemoveFiles, stores
<1>9. CASE ReplaceExecutable \/ ChangeStorage \/ Revoke \/ Restart
  BY <1>1, <1>9 DEF ReplaceExecutable, ChangeStorage, Revoke, Restart, Kept, host, stores
<1>10. QED
  BY <1>2, <1>3, <1>4, <1>5, <1>6, <1>7, <1>8, <1>9 DEF Next

\* An adoption is carried out only without a journal, and as reviewed.
LEMMA AdoptionRelies ==
    ASSUME Inv, NEW t \in Tabs, NEW step, At(t, step), step \in {"saveRuntime", "saveWorkspace"}
    PROVE  /\ lease = t /\ journal = None
           /\ step = "saveRuntime" =>
                 run[t].op = "adoptRuntime" /\ held[t] = RuntimeReviewed(run[t].rt)
           /\ step = "saveWorkspace" =>
                 run[t].op = "adoptWorkspace" /\ held[t] = WorkspaceReviewed(run[t].src.of)
<1>1. /\ run[t] \in RunType /\ WorkedOn(run[t]) /\ run[t].op \in Adoptions
      /\ step = "saveRuntime" => run[t].op = "adoptRuntime" /\ run[t].pc = 6
      /\ step = "saveWorkspace" => run[t].op = "adoptWorkspace" /\ run[t].pc = 11
  BY AtPlace DEF Inv, Places, Adoptions
<1>2. lease = t
  BY <1>1, TheRequests DEF Inv, LocksOK, Owns, Leased, Adoptions
<1>3. AdoptionOK(run[t], held[t], journal)
  BY <1>2, OwnerRelies DEF OwnerOK
<1>4. QED
  BY <1>1, <1>2, <1>3 DEF AdoptionOK

\* RecoveryFirst: while an interrupted edit awaits its resolution neither
\* selection changes, except in the very step that clears the journal.
THEOREM RecoveryTheorem == Spec => RecoveryFirst
<1>1. ASSUME Inv, [Next]_vars, journal # None
      PROVE  rsel' = rsel /\ (sel' # sel => journal' = None)
  <2>1. \A t \in Tabs : ~SaveRuntime(t) /\ ~SaveWorkspace(t)
    BY <1>1, AdoptionRelies DEF SaveRuntime, SaveWorkspace
  <2>2. ASSUME NEW t \in Tabs, Finalize(t) \/ Resolve(t), sel' # sel PROVE journal' = None
    BY <2>2 DEF Finalize, Resolve
  <2>3. QED
    BY <1>1, <2>1, <2>2, Changers
<1>2. Inv /\ [Next]_vars => [journal # None => rsel' = rsel /\ (sel' # sel => journal' = None)]_vars
  BY <1>1
<1>3. QED
  BY <1>2, Invariance, PTL DEF Spec, RecoveryFirst

\* What a token of a preview names.
LEMMA PreviewNames ==
    ASSUME NEW op, NEW b, NEW rt, NEW v, NEW c
    PROVE  /\ PreviewToken(BaseOf(op, b, rt, v), c).of = v
           /\ PreviewToken(BaseOf(op, b, rt, v), c).choice = c
BY DEF PreviewToken, BaseOf, Review

\* An edit about to replace the files, or to record them, holds the preview of
\* this very change of these very files under the selected executable.
LEMMA EditReviewed ==
    ASSUME Inv, NEW t \in Tabs, NEW step, At(t, step), step \in {"activate", "finalize"}
    PROVE  /\ lease = t /\ run[t].op \in Edits
           /\ held[t].of = journal.from /\ held[t].choice = journal.choice
           /\ journal.from = run[t].src.of
           /\ held[t] = PreviewToken(
                 IF journal.bootstrap THEN CreationBaseToken(rsel)
                 ELSE BaseToken(rsel, run[t].src.of), journal.choice)
<1>1. /\ run[t].op \in Edits /\ lease = t /\ run[t].rt = rsel
      /\ run[t].pc = IF step = "activate" THEN 10 ELSE 11
      /\ EditOK(run[t], held[t], sel, journal, boot, made)
  BY EditRelies DEF OwnerOK
<1>2. /\ run[t].op = "create" => run[t].src.of = Absent
      /\ held[t] = PreviewToken(BaseOf(run[t].op, boot, rsel, run[t].src.of), run[t].choice)
      /\ journal.from = run[t].src.of /\ journal.choice = run[t].choice
      /\ journal.bootstrap = (run[t].op = "create")
  BY <1>1 DEF EditOK
<1>3. BaseOf(run[t].op, boot, rsel, run[t].src.of) =
        IF journal.bootstrap THEN CreationBaseToken(rsel) ELSE BaseToken(rsel, run[t].src.of)
  BY <1>2 DEF BaseOf, CreationBaseToken, BaseToken
<1>4. held[t].of = run[t].src.of /\ held[t].choice = run[t].choice
  BY <1>2, PreviewNames
<1>5. QED
  BY <1>1, <1>2, <1>3, <1>4

\* ChangesAsReviewed: what an order changes is what its tab was shown
\* (ReviewFingerprint, tokenMatches and the commit guard).
THEOREM ReviewedTheorem == Spec => ChangesAsReviewed
<1> DEFINE RuntimeReviewedBy == \E t \in Tabs :
             lease = t /\ run[t].op = "adoptRuntime" /\ held[t] = RuntimeReviewed(rsel')
           WorkspaceReviewedBy == \E t \in Tabs : lease = t /\
             \/ run[t].op = "adoptWorkspace" /\ held[t] = WorkspaceReviewed(sel')
             \/ run[t].op \in Edits /\ sel' = journal.id
                   /\ held[t].of = journal.from /\ held[t].choice = journal.choice
             \/ run[t].op = "resolve" /\ held[t].of = journal.id /\ sel' = files
           EditReviewedBy == \E t \in Tabs : lease = t /\ held[t] = PreviewToken(
                IF journal.bootstrap THEN CreationBaseToken(rsel) ELSE BaseToken(rsel, files),
                journal.choice)
<1>1. ASSUME Inv, [Next]_vars, rsel' # rsel PROVE RuntimeReviewedBy
  <2>1. PICK t \in Tabs : SaveRuntime(t)
    BY <1>1, Changers
  <2>2. At(t, "saveRuntime") /\ rsel' = run[t].rt
    BY <2>1 DEF SaveRuntime
  <2>3. lease = t /\ run[t].op = "adoptRuntime" /\ held[t] = RuntimeReviewed(run[t].rt)
    BY <1>1, <2>2, AdoptionRelies
  <2>4. QED
    BY <2>2, <2>3
<1>2. ASSUME Inv, [Next]_vars, sel' # sel PROVE WorkspaceReviewedBy
  <2>1. PICK t \in Tabs : SaveWorkspace(t) \/ Finalize(t) \/ Resolve(t)
    BY <1>2, Changers
  <2>2. CASE SaveWorkspace(t)
    <3>1. At(t, "saveWorkspace") /\ sel' = run[t].src.of
      BY <2>2 DEF SaveWorkspace
    <3>2. lease = t /\ run[t].op = "adoptWorkspace" /\ held[t] = WorkspaceReviewed(run[t].src.of)
      BY <1>2, <3>1, AdoptionRelies
    <3>3. QED
      BY <3>1, <3>2
  <2>3. CASE Finalize(t)
    <3>1. At(t, "finalize") /\ sel' = files /\ files = journal.id
      BY <1>2, <2>3 DEF Finalize
    <3>2. /\ lease = t /\ run[t].op \in Edits
          /\ held[t].of = journal.from /\ held[t].choice = journal.choice
      BY <1>2, <3>1, EditReviewed
    <3>3. QED
      BY <3>1, <3>2
  <2>4. CASE Resolve(t)
    <3>1. At(t, "resolve") /\ sel' = files
      BY <1>2, <2>4 DEF Resolve
    <3>2. /\ lease = t /\ run[t].op = "resolve" /\ run[t].pc = 10
          /\ ResolutionOK(run[t], held[t], journal, made)
      BY <1>2, <3>1, ResolutionRelies
    <3>3. held[t].of = journal.id
      BY <3>2 DEF ResolutionOK
    <3>4. QED
      BY <3>1, <3>2, <3>3
  <2>5. QED
    BY <2>1, <2>2, <2>3, <2>4
<1>3. ASSUME Inv, [Next]_vars, journal # None, files' # files, files' = journal.id
      PROVE  EditReviewedBy
  <2>1. journal.id \in 1..made
    BY <1>3 DEF Inv, StoresOK
  <2>2. journal.id # made + 1 /\ journal.id # Absent
    BY <1>3, <2>1, StoreNumbers DEF Absent
  <2>3. ~EditFiles /\ ~RemoveFiles /\ \A t \in Tabs : ~ActivatePartly(t)
    BY <1>3, <2>2 DEF EditFiles, RemoveFiles, ActivatePartly
  <2>4. PICK t \in Tabs : Activate(t)
    BY <1>3, <2>3, Changers
  <2>5. At(t, "activate") /\ files = run[t].src.of
    BY <2>4 DEF Activate
  <2>6. QED
    BY <1>3, <2>5, EditReviewed
<1>4. Inv /\ [Next]_vars =>
        [/\ rsel' # rsel => RuntimeReviewedBy
         /\ sel' # sel => WorkspaceReviewedBy
         /\ (journal # None /\ files' # files /\ files' = journal.id) => EditReviewedBy]_vars
  BY <1>1, <1>2, <1>3
<1>5. QED
  BY <1>4, Invariance, PTL DEF Spec, ChangesAsReviewed
=============================================================================
