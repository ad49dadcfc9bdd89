----------------------- MODULE EditTransactionSafety ------------------------
(***************************************************************************)
(* The deeper promises of EditTransaction, each with the invariant it adds *)
(* to the one of EditTransactionProofs: active files are whole, the work   *)
(* of others is kept, the classification after a crash is true, and an     *)
(* edit happens to all of its files or to none.                            *)
(***************************************************************************)
EXTENDS EditTransactionProofs

-----------------------------------------------------------------------------
(* Active files are whole.                                                 *)

\* Files whose candidate is written, until all are renamed or given up.
Candidates ==
    IF pc \in {"recheck", "replacing", "authorize"} THEN Files
    ELSE IF pc \in {"stage", "write"} THEN 1..(at - 1)
    ELSE IF pc = "mark" THEN 1..at
    ELSE {}

CandidatesOK == \A f \in Files : f \in Candidates => cand[f].content = edits

\* Files whose stage, if there is one, may take the active name: a candidate,
\* a displaced original or somebody's work.
Filled ==
    IF pc \in {"rename"} \cup Exchanged THEN at..NumEdits
    ELSE IF pc \in Placed \/ Committing THEN (at + 1)..NumEdits
    ELSE {}

FilledOK ==
    \A f \in Files : f \in Filled /\ dir[f].stage # 0 =>
        inodes[dir[f].stage].content # Empty

\* What is about to be selected exists and was read from an entry.
SeenOK ==
    pc = "finalize" =>
        \A p \in Paths :
            /\ dir[p].target = 0 => seen[p].ino = 0
            /\ seen[p].ino = 0 => seen[p] = Missing

WholeInv == CandidatesOK /\ FilledOK /\ SeenOK /\ ActiveFilesWhole

\* Where a step that leads to these places comes from.
LEMMA Landing ==
    ASSUME Inv, [Next]_vars
    PROVE  /\ pc' \in Before =>
                \/ CreateJournal \/ StageCreate \/ StageWrite \/ MarkCandidate
                \/ RecheckStaged \/ EnterReplacing \/ External \/ UNCHANGED vars
           /\ pc' = "finalize" =>
                InspectCommitted \/ RecheckCurrent \/ External \/ UNCHANGED vars
           /\ pc' \in Activating \/ Committing' =>
                \/ Authorize \/ Rename \/ VerifyActive \/ CheckRollback
                \/ MarkPlacement \/ SyncActive \/ ConfirmActive \/ MarkApplied
                \/ /\ Committing
                   /\ CleanOpen \/ Quarantine \/ VerifyQuarantine \/ Scrub \/ Unlink
                \/ External \/ UNCHANGED vars
  <1> DEFINE Goal ==
        /\ pc' \notin Before /\ pc' # "finalize" /\ pc' \notin Activating
        /\ ~Committing'
  <1>1. pc' \in {"idle", "prepare", "abort", "clear", "finalizing", "inspect",
                 "recheck_discard", "recheck_final"} \cup Asking => Goal
    BY DEF Before, Activating, Exchanged, Placed, Committing, Cleaning, Opened, Asking
  <1>2. CASE Begin \/ StageFails \/ Resolve
    <2>1. pc' \in {"prepare", "abort"} \cup Asking
      BY <1>2 DEF Begin, StageFails, Resolve, ResolveDiscard, ResolveCurrent, Abort, Discard,
         Goto, Asking
    <2> QED
      BY <1>1, <2>1
  <1>3. CASE HostCleanup \/ Crash \/ PowerFailure \/ ClearAborted \/ ClearDiscarded
             \/ FinalizeEdit \/ ValidateCurrent
    <2>1. pc' \in {"idle"} \cup Asking
      BY <1>3 DEF HostCleanup, Crash, PowerFailure, ClearAborted, ClearDiscarded,
         FinalizeEdit, ValidateCurrent, Return, Refuse, Goto, Asking
    <2> QED
      BY <1>1, <2>1
  <1>4. CASE ExchangeBack \/ EnterFinalizing
    <2>1. pc' \in {"idle", "abort", "inspect"}
      BY <1>4 DEF ExchangeBack, EnterFinalizing, Abort, Discard, Return, Refuse, Goto
    <2> QED
      BY <1>1, <2>1
  <1>5. CASE AuthorizeDiscard \/ AuthorizeCurrent
    <2>1. pc' = "idle" \/ (pc' = "clean" /\ rm'.caller = "recover")
      BY <1>5 DEF AuthorizeDiscard, AuthorizeCurrent, Return, Refuse, Goto, NoRemoval
    <2> QED
      BY <1>1, <2>1 DEF Before, Activating, Exchanged, Placed, Committing
  <1>6. CASE DiscardPrepared
    <2>1. pc = "abort" /\ rm.caller = "abort" /\ rm \in Removals
      BY <1>6 DEF DiscardPrepared, Inv, PlaceOK, MemoryOK
    <2>2. pc' \in {"clear", "abort"} \/ (pc' = "clean" /\ rm' = rm)
      BY <1>6 DEF DiscardPrepared, Goto
    <2> QED
      BY <1>1, <2>1, <2>2 DEF Before, Activating, Exchanged, Placed, Committing
  <1>7. CASE CleanOpen \/ Quarantine \/ VerifyQuarantine \/ Scrub \/ Unlink
    <2>1. pc \in Cleaning /\ rm \in Removals
      BY <1>7 DEF CleanOpen, Quarantine, VerifyQuarantine, Scrub, Unlink, Cleaning,
         Opened, Inv, MemoryOK
    <2>2. CASE rm.caller = "commit"
      <3>1. Committing
        BY <2>1, <2>2 DEF Committing
      <3>2. \/ CleanupFails
            \/ Cleaned
            \/ pc' \in Opened
        BY <1>7 DEF CleanOpen, Quarantine, VerifyQuarantine, Scrub, Unlink, Goto, Opened
      <3>3. pc' \notin Before /\ pc' # "finalize"
        BY <2>2, <3>2 DEF CleanupFails, Cleaned, Advance, Goto, Return, Before, Opened
      <3> QED
        BY <1>7, <3>1, <3>3
    <2>3. CASE rm.caller # "commit"
      <3>1. rm.caller \in {"abort", "recover"}
        BY <2>1, <2>3 DEF Removals
      <3>2. \/ CleanupFails
            \/ Cleaned
            \/ pc' \in Opened /\ rm'.caller = rm.caller
        BY <1>7, <2>1 DEF CleanOpen, Quarantine, VerifyQuarantine, Scrub, Unlink, Goto,
           Opened, mem, Removals
      <3>3. \/ pc' \in {"idle", "abort", "clear", "recheck_discard", "recheck_final"}
            \/ pc' \in Cleaning /\ rm'.caller = rm.caller
        BY <3>1, <3>2 DEF CleanupFails, Cleaned, Goto, Return, Cleaning, Opened
      <3> QED
        BY <1>1, <2>3, <3>3 DEF Before, Activating, Exchanged, Placed, Committing,
           Cleaning, Opened
    <2> QED
      BY <2>2, <2>3
  <1>8. CASE CreateJournal \/ StageCreate \/ StageWrite \/ MarkCandidate
             \/ RecheckStaged \/ EnterReplacing
    <2>1. pc' \in {"idle", "abort"} \cup Before
      BY <1>8 DEF CreateJournal, StageCreate, StageWrite, MarkCandidate, RecheckStaged,
         EnterReplacing, Refuse, Return, Abort, Discard, Goto, Before
    <2> QED
      BY <1>1, <1>8, <2>1 DEF Before, Activating, Exchanged, Placed, Committing,
         Cleaning, Opened
  <1>9. CASE InspectCommitted \/ RecheckCurrent
    <2>1. pc' \in {"idle", "finalize"}
      BY <1>9 DEF InspectCommitted, RecheckCurrent, Refuse, Return, Goto
    <2> QED
      BY <1>1, <1>9, <2>1 DEF Before, Activating, Exchanged, Placed, Committing,
         Cleaning, Opened
  <1>10. CASE \/ Authorize \/ Rename \/ VerifyActive \/ CheckRollback
              \/ MarkPlacement \/ SyncActive \/ ConfirmActive \/ MarkApplied
    <2>1. pc' \in {"idle", "abort", "finalizing", "clean"} \cup Activating
      BY <1>10 DEF Authorize, Rename, VerifyActive, CheckRollback, MarkPlacement,
         SyncActive, ConfirmActive, MarkApplied, ActivationFails, Advance, Refuse, Return,
         Abort, Discard, Goto, Activating, Exchanged, Placed
    <2> QED
      BY <1>10, <2>1 DEF Before, Activating, Exchanged, Placed
  <1>11. CASE External \/ UNCHANGED vars
    BY <1>11
  <1> HIDE DEF Goal
  <1>12. CASE Next /\ ~External
    <2>1. CASE Goal
      BY <2>1 DEF Goal
    <2>2. CASE ~Goal
      BY <1>2, <1>3, <1>4, <1>5, <1>6, <1>7, <1>8, <1>9, <1>10, <1>12 DEF Next, Service,
         Staging, Activation, Cleanup, Recovery
    <2> QED
      BY <2>1, <2>2
  <1> QED
    BY <1>11, <1>12

LEMMA CandidatesStep == ASSUME Inv, CandidatesOK, [Next]_vars  PROVE CandidatesOK'
  <1> USE DEF mem, CandidatesOK
  <1>0. at \in Files /\ cand \in [Paths -> Entries] /\ Files \subseteq Paths
        /\ Files \subseteq Nat /\ NumEdits \in Nat /\ Files = 1..NumEdits
    BY FileType, PathsAssumption DEF Inv, MemoryOK, Files
  <1>1. CASE pc' \notin Before
    BY <1>1 DEF Candidates, Before
  <1>2. CASE CreateJournal /\ pc' \in Before
    <2>1. pc' = "stage" /\ at' = 1
      BY <1>2 DEF CreateJournal, Refuse, Return, Goto, Before
    <2>2. Candidates' = 1..(1 - 1)
      BY <2>1 DEF Candidates
    <2> QED
      BY <2>2
  <1>3. CASE StageCreate /\ pc' \in Before
    <2>1. pc = "stage" /\ pc' = "write" /\ at' = at /\ UNCHANGED <<cand, edits>>
      BY <1>3 DEF StageCreate, Abort, Discard, Goto, Before
    <2> QED
      BY <2>1 DEF Candidates
  <1>4. CASE StageWrite
    <2>1. /\ pc = "write" /\ pc' = "mark" /\ at' = at /\ edits' = edits
          /\ cand' = [cand EXCEPT ![at] = [ino |-> rm.fd, content |-> edits,
                                           stamp |-> inodes'[rm.fd].stamp]]
      BY <1>4 DEF StageWrite, Goto
    <2>2. Candidates = 1..(at - 1) /\ Candidates' = 1..at
      BY <2>1 DEF Candidates
    <2>3. cand'[at].content = edits
      BY <1>0, <2>1
    <2>4. \A f \in Files : f \in 1..at /\ f # at => f \in 1..(at - 1) /\ cand'[f] = cand[f]
      BY <1>0, <2>1
    <2> QED
      BY <2>1, <2>2, <2>3, <2>4
  <1>5. CASE MarkCandidate
    <2>1. pc = "mark" /\ UNCHANGED <<cand, edits>>
      BY <1>5 DEF MarkCandidate
    <2>2. Candidates = 1..at
      BY <2>1 DEF Candidates
    <2>3. CASE at = NumEdits
      BY <1>0, <2>1, <2>2, <2>3
    <2>4. CASE at # NumEdits
      <3>1. pc' = "stage" /\ at' = at + 1
        BY <1>5, <2>4 DEF MarkCandidate, Goto
      <3>2. Candidates' = 1..at
        BY <1>0, <3>1 DEF Candidates
      <3> QED
        BY <2>1, <2>2, <3>2
    <2> QED
      BY <2>3, <2>4
  <1>6. CASE (RecheckStaged \/ EnterReplacing) /\ pc' \in Before
    <2>1. /\ pc \in {"recheck", "replacing"} /\ pc' \in {"replacing", "authorize"}
          /\ UNCHANGED <<cand, edits>>
      BY <1>6 DEF RecheckStaged, EnterReplacing, Abort, Discard, Goto, Before
    <2> QED
      BY <2>1 DEF Candidates
  <1>7. CASE External \/ UNCHANGED vars
    <2>1. UNCHANGED <<pc, at, cand, edits>>
      BY <1>7 DEF External, vars
    <2> QED
      BY <2>1 DEF Candidates
  <1> QED
    BY <1>1, <1>2, <1>3, <1>4, <1>5, <1>6, <1>7, Landing

LEMMA SeenStep == ASSUME Inv, SeenOK, [Next]_vars  PROVE SeenOK'
  <1> USE DEF mem
  <1>0. FsOK
    BY DEF Inv
  <1>1. CASE pc' # "finalize"
    BY <1>1 DEF SeenOK
  <1>2. CASE (InspectCommitted \/ RecheckCurrent) /\ pc' = "finalize"
    <2>1. UNCHANGED fs /\ seen' = Current
      BY <1>2 DEF InspectCommitted, RecheckCurrent, Refuse, Return
    <2>2. \A p \in Paths : /\ dir[p].target = 0 => Entry(p, "target").ino = 0
                           /\ Entry(p, "target").ino = 0 => Entry(p, "target") = Missing
      BY <1>0, EntryFacts, SlotNames
    <2> QED
      BY <2>1, <2>2 DEF SeenOK, Current, fs
  <1>3. CASE External
    <2>1. PICK p \in Paths, w \in Works \ used :
            ExternalSave(p, w) /\ SyncDirectory(p) /\ UNCHANGED <<pc, seen>>
      BY <1>3 DEF External, ExternalSave
    <2>2. Local(p) /\ (dir[p].target # 0 => dir'[p].target # 0)
      BY <1>0, <2>1, SaveEffect
    <2>3. \A q \in Paths : dir[q].target # 0 => dir'[q].target # 0
      BY <1>0, <2>2, Elsewhere
    <2> QED
      BY <2>1, <2>3 DEF SeenOK
  <1>4. CASE UNCHANGED vars
    BY <1>4 DEF SeenOK, vars
  <1> QED
    BY <1>1, <1>2, <1>3, <1>4, Landing

\* A cleanup step changes no other path, and what the disk shows under the
\* active name is what it showed, or what is there.
LEMMA CleanupEffect ==
    ASSUME Inv, CleanOpen \/ Quarantine \/ VerifyQuarantine \/ Scrub \/ Unlink
    PROVE  /\ Local(at) /\ FsOK' /\ UNCHANGED selection
           /\ \/ disk'[at].slots["target"] = dir[at].target
              \/ /\ disk'[at].slots = disk[at].slots
                 /\ FsyncOrders => \A i \in 1..Len(inodes) :
                                      inodes'[i].content = inodes[i].content
  <1> USE DEF db
  <1>0. FsOK /\ at \in Paths /\ rm.fd \in Ids
    BY FileType DEF Inv, MemoryOK, Removals
  <1>1. FsOK /\ at \in Paths /\ rm.fd \in Ids /\ Len(inodes) \in Nat
    BY <1>0 DEF FsOK
  <1>2. UNCHANGED selection
    <2>1. CASE CleanupFails \/ Cleaned
      BY <2>1 DEF CleanupFails, Cleaned
    <2> QED
      BY <2>1 DEF CleanOpen, Quarantine, VerifyQuarantine, Scrub, Unlink
  <1>3. ASSUME UNCHANGED fs
        PROVE  Local(at) /\ FsOK' /\ disk'[at].slots = disk[at].slots
               /\ \A i \in 1..Len(inodes) : inodes'[i].content = inodes[i].content
    BY <1>1, <1>3, StillLocal, LocalFs DEF fs
  <1>4. ASSUME Swap(at, "stage", "remove"), UNCHANGED disk
        PROVE  Local(at) /\ FsOK' /\ disk'[at].slots = disk[at].slots
               /\ \A i \in 1..Len(inodes) : inodes'[i].content = inodes[i].content
    BY <1>1, <1>4, SwapLocal, SlotNames
  <1>5. CASE CleanOpen
    <2>1. UNCHANGED <<inodes, dir>> /\ (UNCHANGED disk \/ SyncDirectory(at))
      BY <1>5 DEF CleanOpen, fs
    <2>2. CASE UNCHANGED disk
      BY <1>2, <1>3, <2>1, <2>2 DEF fs
    <2>3. CASE SyncDirectory(at)
      BY <1>1, <1>2, <2>1, <2>3, SyncLocal
    <2> QED
      BY <2>1, <2>2, <2>3
  <1>6. CASE Quarantine
    <2>1. (Swap(at, "stage", "remove") /\ UNCHANGED disk) \/ UNCHANGED fs
      BY <1>6 DEF Quarantine
    <2> QED
      BY <1>2, <1>3, <1>4, <2>1
  <1>7. CASE VerifyQuarantine
    <2>1. (Swap(at, "stage", "remove") /\ UNCHANGED disk) \/ UNCHANGED fs
      BY <1>7 DEF VerifyQuarantine
    <2> QED
      BY <1>2, <1>3, <1>4, <2>1
  <1>8. CASE Scrub
    <2>1. CASE ScrubOpenFile(at, rm.fd) /\ UNCHANGED dir
      <3>1. rm.fd # 0 /\ \A q \in Paths : Refers(q, rm.fd) => q = at
        BY <1>8 DEF Scrub, Inv, DescriptorOK, Opened
      <3>2. /\ Local(at) /\ FsOK'
            /\ FsyncOrders => disk'[at].slots = dir[at]
            /\ disk'[at].slots \in {disk[at].slots, dir[at]}
        BY <1>1, <2>1, <3>1, ScrubLocal
      <3> QED
        BY <1>2, <3>2
    <2>2. CASE UNCHANGED fs
      BY <1>2, <1>3, <2>2
    <2> QED
      BY <1>8, <2>1, <2>2 DEF Scrub
  <1>9. CASE Unlink
    <2>1. CASE /\ dir' = [dir EXCEPT ![at].remove = 0] /\ UNCHANGED inodes
               /\ UNCHANGED disk \/ SyncDirectory(at)
      <3>1. /\ Local(at) /\ FsOK'
            /\ \A t \in Slots : t # "remove" => dir'[at][t] = dir[at][t]
        BY <1>1, <2>1, RemoveLocal, SlotNames
      <3>2. disk' = disk \/ disk'[at].slots = dir'[at]
        BY <1>1, <2>1, SyncSlots
      <3> QED
        BY <1>2, <2>1, <3>1, <3>2, SlotNames
    <2>2. CASE UNCHANGED fs
      BY <1>2, <1>3, <2>2
    <2> QED
      BY <1>9, <2>1, <2>2 DEF Unlink
  <1> QED
    BY <1>5, <1>6, <1>7, <1>8, <1>9

\* The stage of another file is as it was.
LEMMA FilledElsewhere ==
    ASSUME Inv, FilledOK, NEW p \in Paths, Local(p), NEW f \in Files, f # p, f \in Filled,
           dir'[f].stage # 0
    PROVE  inodes'[dir'[f].stage].content # Empty
  <1>1. f \in Paths /\ FsOK
    BY FileType DEF Inv
  <1>2. dir'[f] = dir[f] /\ Entry(f, "stage")' = Entry(f, "stage")
    BY <1>1, Elsewhere, SlotNames
  <1> QED
    BY <1>2 DEF FilledOK, Entry, Stat

LEMMA FilledStep ==
    ASSUME Inv, WholeInv, [Next]_vars
    PROVE  FilledOK'
  <1> USE DEF db, mem, history
  <1>0. at \in Files /\ at \in Paths /\ FsOK /\ Files \subseteq Paths
        /\ Files \subseteq Nat /\ NumEdits \in Nat /\ Files = 1..NumEdits
        /\ Empty \notin Nat /\ Empty \notin Works /\ edits \in Nat
    BY FileType, PathsAssumption DEF Inv, MemoryOK, Files
  <1>1. CASE pc' \notin Activating /\ ~Committing'
    BY <1>1 DEF FilledOK, Filled, Activating, Exchanged, Placed, Committing
  <1>2. ASSUME UNCHANGED <<inodes, dir>>, \A f \in Files : f \in Filled' => f \in Filled
        PROVE  FilledOK'
    BY <1>2 DEF WholeInv, FilledOK
  <1>3. CASE Authorize /\ (pc' \in Activating \/ Committing')
    <2>1. pc = "authorize" /\ Rechecked /\ pc' = "rename" /\ at' = 1 /\ UNCHANGED fs
      BY <1>3 DEF Authorize, Abort, Discard, Goto, Activating, Exchanged, Placed, Committing,
         Cleaning, Opened
    <2>2. \A f \in Files : cand[f].content = edits
      BY <2>1 DEF WholeInv, CandidatesOK, Candidates
    <2>3. \A f \in Files : dir[f].stage # 0 =>
             inodes[dir[f].stage].content = Entry(f, "stage").content
      BY <1>0, EntryFacts, SlotNames
    <2>4. \A f \in Files : dir[f].stage # 0 => inodes[dir[f].stage].content = edits
      BY <2>1, <2>2, <2>3 DEF Rechecked
    <2> QED
      BY <1>0, <2>1, <2>4 DEF FilledOK, fs
  <1>4. CASE Rename /\ (pc' \in Activating \/ Committing')
    <2>1. /\ pc = "rename" /\ pc' = "verify" /\ at' = at
          /\ Swap(at, "stage", "target") /\ UNCHANGED disk
      BY <1>4 DEF Rename, ActivationFails, Abort, Discard, Refuse, Return, Goto, Activating,
         Exchanged, Placed, Committing, Cleaning, Opened
    <2>2. /\ Local(at) /\ dir'[at].stage = dir[at].target
          /\ \A i \in 1..Len(inodes) : inodes'[i].content = inodes[i].content
      BY <1>0, <2>1, SwapLocal, SlotNames
    <2>3. Filled' = Filled
      BY <2>1 DEF Filled, Exchanged
    <2>4. dir[at].target # 0 => dir[at].target \in 1..Len(inodes)
      BY <1>0, SlotNames DEF FsOK, Ids
    <2>5. dir'[at].stage # 0 => inodes'[dir'[at].stage].content # Empty
      BY <1>0, <2>2, <2>4 DEF WholeInv, ActiveFilesWhole
    <2> QED
      BY <1>0, <2>2, <2>3, <2>5, FilledElsewhere DEF WholeInv, FilledOK
  <1>5. CASE (VerifyActive \/ CheckRollback) /\ (pc' \in Activating \/ Committing')
    <2>1. /\ pc \in Exchanged /\ at' = at /\ UNCHANGED <<inodes, dir>>
          /\ pc' \in Exchanged \cup Placed
      BY <1>5 DEF VerifyActive, CheckRollback, Refuse, Return, Goto, Activating,
         Exchanged, Placed, Committing, Cleaning, Opened, fs
    <2>2. Filled = at..NumEdits /\ (Filled' = at..NumEdits \/ Filled' = (at + 1)..NumEdits)
      BY <2>1 DEF Filled, Exchanged, Placed
    <2> QED
      BY <1>0, <1>2, <2>1, <2>2
  <1>6. CASE (MarkPlacement \/ SyncActive \/ ConfirmActive) /\ (pc' \in Activating \/ Committing')
    <2>1. pc \in Placed /\ pc' \in Placed /\ at' = at /\ UNCHANGED <<inodes, dir>>
      BY <1>6 DEF MarkPlacement, SyncActive, ConfirmActive, Refuse, Return, Goto,
         Activating, Exchanged, Placed, Committing, Cleaning, Opened, fs
    <2>2. Filled = (at + 1)..NumEdits /\ Filled' = (at + 1)..NumEdits
      BY <2>1 DEF Filled, Exchanged, Placed
    <2> QED
      BY <1>2, <2>1, <2>2
  <1>7. ASSUME \/ pc' = "rename" /\ at' = at + 1
               \/ pc' \in {"clean"} \cup Opened /\ at' = at
        PROVE  Filled' \subseteq (at + 1)..NumEdits
    BY <1>7 DEF Filled, Exchanged, Placed, Opened, Committing, Cleaning
  <1>8. CASE MarkApplied /\ (pc' \in Activating \/ Committing')
    <2>1. /\ pc = "apply" /\ UNCHANGED <<inodes, dir>>
          /\ (pc' = "rename" /\ at' = at + 1) \/ (pc' = "clean" /\ at' = at)
      BY <1>8 DEF MarkApplied, Advance, Refuse, Return, Goto, Activating, Exchanged,
         Placed, Committing, Cleaning, Opened, fs
    <2>2. Filled = (at + 1)..NumEdits
      BY <2>1 DEF Filled, Exchanged, Placed
    <2> QED
      BY <1>2, <1>7, <2>1, <2>2
  <1>9. CASE /\ Committing /\ (pc' \in Activating \/ Committing')
             /\ CleanOpen \/ Quarantine \/ VerifyQuarantine \/ Scrub \/ Unlink
    <2>1. Local(at)
      BY <1>9, CleanupEffect
    <2>2. rm.caller = "commit" /\ pc \in Cleaning
      BY <1>9 DEF Committing
    <2>3. \/ CleanupFails
          \/ Cleaned
          \/ pc' \in Opened /\ at' = at
      BY <1>9 DEF CleanOpen, Quarantine, VerifyQuarantine, Scrub, Unlink, Goto, Opened
    <2>4. (pc' = "rename" /\ at' = at + 1) \/ (pc' \in Opened /\ at' = at)
      BY <1>9, <2>2, <2>3 DEF CleanupFails, Cleaned, Advance, Goto, Return, Activating,
         Exchanged, Placed, Committing, Cleaning, Opened
    <2>5. Filled' \subseteq (at + 1)..NumEdits
      BY <1>7, <2>4
    <2>6. Filled = (at + 1)..NumEdits
      BY <1>9, <2>2 DEF Filled, Exchanged, Cleaning, Opened
    <2>7. \A f \in Files : f \in Filled' => f \in Filled /\ f # at
      BY <1>0, <2>5, <2>6
    <2> QED
      BY <1>0, <2>1, <2>7, FilledElsewhere DEF WholeInv, FilledOK
  <1>10. CASE External
    <2>1. PICK p \in Paths, w \in Works \ used :
            ExternalSave(p, w) /\ SyncDirectory(p) /\ UNCHANGED <<pc, at, rm>>
      BY <1>10 DEF External, ExternalSave
    <2>2. Filled' = Filled
      BY <2>1 DEF Filled, Committing
    <2>3. /\ Local(p)
          /\ \A s \in Slots : dir'[p][s] # 0 /\ dir[p][s] = dir'[p][s] =>
                inodes'[dir'[p][s]].content \in {w, inodes[dir[p][s]].content}
          /\ \A s \in Slots : dir'[p][s] # dir[p][s] => inodes'[dir'[p][s]].content = w
      BY <1>0, <2>1, SaveEffect
    <2>4. p \in Files /\ p \in Filled /\ dir'[p].stage # 0 =>
             inodes'[dir'[p].stage].content # Empty
      BY <1>0, <2>3, SlotNames DEF WholeInv, FilledOK
    <2> QED
      BY <2>2, <2>3, <2>4, FilledElsewhere DEF WholeInv, FilledOK
  <1>11. CASE UNCHANGED vars
    <2>1. UNCHANGED <<inodes, dir>> /\ Filled' = Filled
      BY <1>11 DEF vars, Filled, Committing
    <2> QED
      BY <1>2, <2>1
  <1> QED
    BY <1>1, <1>3, <1>4, <1>5, <1>6, <1>8, <1>9, <1>10, <1>11, Landing

\* In the directory of one path the active name, in memory and on disk, shows
\* what it showed or something whole.
LEMMA LocalWhole ==
    ASSUME FsOK, ActiveFilesWhole, NEW p \in Paths, Local(p), UNCHANGED selection,
           \A t \in {dir'[p].target, disk'[p].slots["target"]} :
              \/ /\ t \in {dir[p].target, disk[p].slots["target"]}
                 /\ t # 0 => inodes'[t].content = inodes[t].content
              \/ t # 0 /\ inodes'[t].content # Empty
    PROVE  ActiveFilesWhole'
  <1> SUFFICES ASSUME NEW q \in Paths,
                      NEW t \in {dir'[q].target, disk'[q].slots["target"]}
               PROVE  IF t = 0 THEN selection[q] = Missing ELSE inodes'[t].content # Empty
    BY DEF ActiveFilesWhole
  <1>1. CASE q = p
    BY <1>1 DEF ActiveFilesWhole
  <1>2. CASE q # p
    <2>1. /\ dir'[q] = dir[q] /\ disk'[q].slots = disk[q].slots
          /\ \A i \in Ids : Refers(q, i) => inodes'[i] = inodes[i]
      BY <1>2 DEF Local
    <2>2. t \in Ids /\ (t # 0 => Refers(q, t))
      BY <2>1, SlotNames DEF FsOK, Disks, Refers
    <2> QED
      BY <2>1, <2>2 DEF ActiveFilesWhole
  <1> QED
    BY <1>1, <1>2

LEMMA QuietWhole ==
    ASSUME ActiveFilesWhole, UNCHANGED fs, UNCHANGED selection
    PROVE  ActiveFilesWhole'
  BY DEF fs, ActiveFilesWhole

LEMMA SyncWhole ==
    ASSUME FsOK, ActiveFilesWhole, NEW p \in Paths, UNCHANGED <<inodes, dir>>,
           SyncDirectory(p), UNCHANGED selection
    PROVE  ActiveFilesWhole'
  <1>1. Local(p) /\ disk'[p].slots = dir[p]
    BY SyncLocal
  <1> QED
    BY <1>1, LocalWhole

LEMMA StagingWhole ==
    ASSUME Inv, WholeInv, Staging \/ StageFails
    PROVE  ActiveFilesWhole'
  <1> USE DEF db
  <1>0. FsOK /\ at \in Paths /\ ActiveFilesWhole
    BY FileType DEF Inv, MemoryOK, WholeInv
  <1>1. dir[at].target \in 0..Len(inodes) /\ disk[at].slots["target"] \in 0..Len(inodes)
        /\ Len(inodes) \in Nat
    BY <1>0, SlotNames DEF FsOK, Disks, Ids
  <1>2. CASE CreateJournal
    BY <1>0, <1>2, QuietWhole DEF CreateJournal, Refuse
  <1>3. CASE StageCreate
    <2>1. CASE UNCHANGED fs /\ Abort
      BY <1>0, <2>1, QuietWhole DEF Abort, Discard
    <2>2. CASE /\ inodes' = Append(inodes, [content |-> Empty, stamp |-> 0])
               /\ dir' = [dir EXCEPT ![at].stage = Len(inodes) + 1]
               /\ UNCHANGED <<disk, db>>
      <3>1. Empty \in Contents
        BY DEF Contents
      <3>2. /\ Local(at)
            /\ dir'[at] = [dir[at] EXCEPT !["stage"] = Len(inodes) + 1]
            /\ \A i \in 1..Len(inodes) : inodes'[i] = inodes[i]
        BY <1>0, <2>2, <3>1, CreateLocal, SlotNames
      <3>3. dir'[at].target = dir[at].target
        BY <1>0, <3>2, SlotNames DEF FsOK
      <3> QED
        BY <1>0, <1>1, <2>2, <3>2, <3>3, LocalWhole
    <2> QED
      BY <1>3, <2>1, <2>2 DEF StageCreate
  <1>4. ASSUME pc \in {"write", "mark"}, NEW c \in Contents, inodes' = Write(rm.fd, c),
               UNCHANGED <<dir, selection>>, UNCHANGED disk \/ SyncDirectory(at)
        PROVE  ActiveFilesWhole'
    <2>1. /\ rm.fd \in Ids /\ rm.fd # 0 /\ \A q \in Paths : Refers(q, rm.fd) => q = at
          /\ dir[at].target # rm.fd /\ disk[at].slots["target"] # rm.fd
      BY <1>4, OpenStage DEF Inv, DescriptorOK
    <2>2. Local(at) /\ \A j \in 1..Len(inodes) : j # rm.fd => inodes'[j] = inodes[j]
      BY <1>0, <1>4, <2>1, WriteLocal
    <2>3. disk' = disk \/ disk'[at].slots = dir[at]
      BY <1>0, <1>4, SyncSlots
    <2>4. disk'[at].slots["target"] \in {dir[at].target, disk[at].slots["target"]}
      BY <2>3
    <2> QED
      BY <1>0, <1>1, <1>4, <2>1, <2>2, <2>4, LocalWhole
  <1>5. CASE StageWrite
    <2>1. edits \in Contents
      BY DEF Inv, MemoryOK, Contents
    <2> QED
      BY <1>4, <1>5, <2>1 DEF StageWrite
  <1>6. CASE MarkCandidate
    BY <1>0, <1>6, SyncWhole DEF MarkCandidate
  <1>7. CASE StageFails
    <2>1. /\ pc \in {"write", "mark"} /\ UNCHANGED <<dir, selection>>
          /\ UNCHANGED disk \/ SyncDirectory(at)
          /\ inodes' = Write(rm.fd, Empty) \/ (inodes' = inodes /\ UNCHANGED disk)
      BY <1>7 DEF StageFails, Abort, Discard
    <2>2. Empty \in Contents
      BY DEF Contents
    <2>3. CASE inodes' = inodes /\ UNCHANGED disk
      BY <1>0, <2>1, <2>3, QuietWhole DEF fs
    <2> QED
      BY <1>4, <2>1, <2>2, <2>3
  <1> QED
    BY <1>2, <1>3, <1>5, <1>6, <1>7 DEF Staging

\* The stage and the active name are exchanged.
LEMMA ExchangeWhole ==
    ASSUME Inv, WholeInv, at \in Filled, Swap(at, "stage", "target"), dir[at].stage # 0,
           UNCHANGED disk \/ SyncDirectory(at), UNCHANGED selection
    PROVE  ActiveFilesWhole'
  <1>0. FsOK /\ at \in Paths /\ at \in Files /\ ActiveFilesWhole /\ FilledOK
    BY FileType DEF Inv, MemoryOK, WholeInv
  <1>1. /\ Local(at) /\ dir'[at].target = dir[at].stage
        /\ \A i \in 1..Len(inodes) : inodes'[i].content = inodes[i].content
    BY <1>0, SwapLocal, SlotNames
  <1>2. /\ dir[at].stage \in 1..Len(inodes)
        /\ disk[at].slots["target"] # 0 => disk[at].slots["target"] \in 1..Len(inodes)
    BY <1>0, SlotNames DEF FsOK, Disks, Ids
  <1>3. dir'[at].target # 0 /\ inodes'[dir'[at].target].content # Empty
    BY <1>0, <1>1, <1>2 DEF FilledOK
  <1>4. disk' = disk \/ disk'[at].slots["target"] = dir'[at].target
    BY <1>0, SyncSlots
  <1> QED
    BY <1>0, <1>1, <1>2, <1>3, <1>4, LocalWhole

LEMMA ActivationWhole ==
    ASSUME Inv, WholeInv, Activation
    PROVE  ActiveFilesWhole'
  <1> USE DEF db
  <1>0. FsOK /\ at \in Paths /\ at \in Files /\ ActiveFilesWhole
    BY FileType DEF Inv, MemoryOK, WholeInv
  <1>1. pc \in {"rename"} \cup Exchanged => at \in Filled
    <2>1. at \in at..NumEdits
      BY <1>0, PathsAssumption DEF Files
    <2> QED
      BY <2>1 DEF Filled
  <1>2. CASE RecheckStaged \/ EnterReplacing \/ Authorize
    BY <1>0, <1>2, QuietWhole DEF RecheckStaged, EnterReplacing, Authorize, Abort, Discard
  <1>3. CASE Rename
    <2>1. CASE CanRename /\ Swap(at, "stage", "target") /\ UNCHANGED <<disk, db>>
      BY <1>1, <1>3, <2>1, ExchangeWhole DEF Rename, CanRename
    <2>2. CASE ActivationFails
      BY <1>0, <2>2, QuietWhole DEF ActivationFails, Abort, Discard, Refuse
    <2> QED
      BY <1>3, <2>1, <2>2 DEF Rename
  <1>4. CASE ExchangeBack
    <2>1. CASE /\ dir[at].stage # 0 /\ Swap(at, "stage", "target")
               /\ UNCHANGED disk \/ SyncDirectory(at)
               /\ UNCHANGED selection
      BY <1>1, <1>4, <2>1, ExchangeWhole DEF ExchangeBack, Exchanged
    <2>2. CASE Refuse
      BY <1>0, <2>2, QuietWhole DEF Refuse
    <2> QED
      BY <1>4, <2>1, <2>2 DEF ExchangeBack, Abort, Discard
  <1>5. CASE VerifyActive \/ CheckRollback \/ MarkPlacement \/ ConfirmActive
             \/ MarkApplied \/ EnterFinalizing \/ InspectCommitted
    BY <1>0, <1>5, QuietWhole DEF VerifyActive, CheckRollback, MarkPlacement, Refuse,
       ConfirmActive, MarkApplied, EnterFinalizing, InspectCommitted
  <1>6. CASE SyncActive
    <2>1. CASE UNCHANGED <<inodes, dir>> /\ SyncDirectory(at) /\ UNCHANGED db
      BY <1>0, <2>1, SyncWhole
    <2>2. CASE Refuse
      BY <1>0, <2>2, QuietWhole DEF Refuse
    <2> QED
      BY <1>6, <2>1, <2>2 DEF SyncActive
  <1>7. CASE FinalizeEdit
    <2>1. CASE selection' = [p \in Paths |-> Identity(seen[p])] /\ UNCHANGED fs
      <3>1. pc = "finalize"
        BY <1>7 DEF FinalizeEdit
      <3>2. Synchronised = Files
        BY <3>1 DEF Synchronised, Asking, Cleaning, Opened, Exchanged
      <3>3. \A p \in Paths : disk[p].slots["target"] = dir[p].target
        BY <3>2 DEF Inv, SynchronisedOK
      <3>4. \A p \in Paths : dir[p].target = 0 => seen[p] = Missing
        BY <3>1 DEF WholeInv, SeenOK
      <3>5. Identity(Missing) = Missing
        BY DEF Identity, Missing
      <3>6. \A p \in Paths : dir[p].target = 0 => selection'[p] = Missing
        BY <2>1, <3>4, <3>5
      <3> QED
        BY <1>0, <2>1, <3>3, <3>6 DEF fs, ActiveFilesWhole
    <2>2. CASE Refuse
      BY <1>0, <2>2, QuietWhole DEF Refuse
    <2> QED
      BY <1>7, <2>1, <2>2 DEF FinalizeEdit
  <1> QED
    BY <1>2, <1>3, <1>4, <1>5, <1>6, <1>7 DEF Activation

LEMMA CleanupWhole ==
    ASSUME FsyncOrders, Inv, WholeInv, Cleanup
    PROVE  ActiveFilesWhole'
  <1> USE DEF db
  <1>0. FsOK /\ at \in Paths /\ ActiveFilesWhole
    BY FileType DEF Inv, MemoryOK, WholeInv
  <1>1. CASE DiscardPrepared \/ ClearAborted
    BY <1>0, <1>1, QuietWhole DEF DiscardPrepared, ClearAborted, Refuse
  <1>2. CASE CleanOpen \/ Quarantine \/ VerifyQuarantine \/ Scrub \/ Unlink
    <2>1. /\ Local(at) /\ UNCHANGED selection
          /\ \/ disk'[at].slots["target"] = dir[at].target
             \/ /\ disk'[at].slots = disk[at].slots
                /\ \A i \in 1..Len(inodes) : inodes'[i].content = inodes[i].content
      BY <1>2, CleanupEffect
    <2>2. /\ dir'[at].target = dir[at].target
          /\ dir[at].target # 0 => inodes'[dir[at].target] = inodes[dir[at].target]
      BY <1>0, <1>2, CleanupKept DEF ActiveKept
    <2>3. disk[at].slots["target"] # 0 => disk[at].slots["target"] \in 1..Len(inodes)
      BY <1>0, SlotNames DEF FsOK, Disks, Ids
    <2> QED
      BY <1>0, <2>1, <2>2, <2>3, LocalWhole
  <1> QED
    BY <1>1, <1>2 DEF Cleanup

LEMMA OthersWhole ==
    ASSUME Inv, WholeInv,
           Begin \/ Recovery \/ Resolve \/ External \/ HostCleanup \/ Crash \/ PowerFailure
    PROVE  ActiveFilesWhole'
  <1> USE DEF db
  <1>0. FsOK /\ ActiveFilesWhole
    BY DEF Inv, WholeInv
  <1>1. CASE Begin
    <2>1. UNCHANGED <<inodes, selection>> /\ FreshNames
      BY <1>1 DEF Begin, FreshNames
    <2>2. \A p \in Paths :
             /\ dir'[p].target = dir[p].target
             /\ disk'[p].slots["target"] = disk[p].slots["target"]
      BY <1>0, <2>1, BeginFs
    <2> QED
      BY <1>0, <2>1, <2>2 DEF ActiveFilesWhole
  <1>2. CASE Recovery \/ Resolve \/ Crash
    BY <1>0, <1>2, QuietWhole DEF Recovery, AuthorizeDiscard, ClearDiscarded,
       ValidateCurrent, AuthorizeCurrent, RecheckCurrent, Refuse, Resolve,
       ResolveDiscard, ResolveCurrent, Crash
  <1>3. CASE External
    <2>1. PICK p \in Paths, w \in Works \ used :
            ExternalSave(p, w) /\ SyncDirectory(p) /\ UNCHANGED selection
      BY <1>3 DEF External, ExternalSave
    <2>2. /\ Local(p) /\ disk'[p].slots = dir'[p]
          /\ dir[p].target # 0 => dir'[p].target # 0
          /\ \A s \in Slots : dir'[p][s] = dir[p][s] \/ dir'[p][s] = Len(inodes) + 1
          /\ \A s \in Slots : dir'[p][s] # 0 /\ dir[p][s] = dir'[p][s] =>
                inodes'[dir'[p][s]].content \in {w, inodes[dir[p][s]].content}
          /\ \A s \in Slots : dir'[p][s] # dir[p][s] => inodes'[dir'[p][s]].content = w
      BY <1>0, <2>1, SaveEffect
    <2>3. w # Empty /\ Len(inodes) \in Nat
      BY <1>0, PathsAssumption DEF FsOK
    <2> QED
      BY <1>0, <2>1, <2>2, <2>3, SlotNames, LocalWhole
  <1>4. CASE HostCleanup
    <2>1. PICK f \in Files, s \in {"stage", "remove"} :
            /\ dir' = [dir EXCEPT ![f][s] = 0]
            /\ UNCHANGED <<inodes, selection>> /\ SyncDirectory(f)
      BY <1>4 DEF HostCleanup
    <2>2. f \in Paths /\ s \in Slots /\ "target" # s
      BY FileType, SlotNames
    <2>3. Local(f) /\ dir'[f].target = dir[f].target
      BY <1>0, <2>1, <2>2, RemoveLocal, SlotNames
    <2>4. disk'[f].slots = dir'[f]
      BY <1>0, <2>1, <2>2, SyncSlots
    <2> QED
      BY <1>0, <2>1, <2>2, <2>3, <2>4, LocalWhole
  <1>5. CASE PowerFailure
    <2>1. UNCHANGED selection
      BY <1>5 DEF PowerFailure
    <2>2. /\ \A p \in Paths :
                /\ dir'[p] \in {dir[p], disk[p].slots}
                /\ disk'[p].slots = dir'[p]
          /\ \A i \in 1..Len(inodes) : inodes'[i].content = inodes[i].content
      BY <1>0, <1>5, PowerFailureFs
    <2> SUFFICES ASSUME NEW p \in Paths,
                        NEW t \in {dir'[p].target, disk'[p].slots["target"]}
                 PROVE  IF t = 0 THEN selection[p] = Missing
                                 ELSE inodes'[t].content # Empty
      BY <2>1 DEF ActiveFilesWhole
    <2>3. t \in {dir[p].target, disk[p].slots["target"]}
      BY <2>2
    <2>4. t # 0 => t \in 1..Len(inodes)
      BY <1>0, <2>3, SlotNames DEF FsOK, Disks, Ids
    <2> QED
      BY <1>0, <2>2, <2>3, <2>4 DEF ActiveFilesWhole
  <1> QED
    BY <1>1, <1>2, <1>3, <1>4, <1>5

LEMMA WholeNext ==
    ASSUME FsyncOrders, Inv, WholeInv, [Next]_vars
    PROVE  WholeInv'
  <1>1. CandidatesOK' /\ SeenOK' /\ FilledOK'
    BY CandidatesStep, SeenStep, FilledStep DEF WholeInv
  <1>2. CASE UNCHANGED vars
    <2>1. ActiveFilesWhole'
      BY <1>2, QuietWhole DEF vars, fs, WholeInv
    <2> QED
      BY <1>1, <2>1 DEF WholeInv
  <1>3. CASE Next
    <2>1. ActiveFilesWhole'
      BY <1>3, StagingWhole, ActivationWhole, CleanupWhole, OthersWhole DEF Next, Service
    <2> QED
      BY <1>1, <2>1 DEF WholeInv
  <1> QED
    BY <1>2, <1>3

LEMMA InitWhole == Init => WholeInv
  <1> SUFFICES ASSUME Init  PROVE WholeInv
    OBVIOUS
  <1>1. CandidatesOK /\ FilledOK /\ SeenOK
    BY DEF Init, CandidatesOK, Candidates, FilledOK, Filled, SeenOK, Exchanged, Placed,
       Committing, Cleaning, Opened
  <1>2. \A p \in Paths : disk[p].slots = dir[p]
                         /\ dir[p].target = (IF p \in Created THEN 0 ELSE p)
    BY SlotNames DEF Init
  <1>3. \A p \in Paths : p # 0 /\ inodes[p].content = 0
    BY FileType DEF Init, Paths
  <1>4. \A p \in Created : selection[p] = Missing
    BY FileType, PathsAssumption DEF Init
  <1>5. Empty # 0
    BY PathsAssumption
  <1>6. ActiveFilesWhole
    BY <1>2, <1>3, <1>4, <1>5 DEF ActiveFilesWhole
  <1> QED
    BY <1>1, <1>6 DEF WholeInv

\* On a file system whose fsync of a file persists the earlier renames of it,
\* every active file is whole at every instant and after every power failure,
\* through staging, activation, rollback, cleanup and recovery: never missing
\* once selected, half written or scrubbed.
THEOREM WholeTheorem == FsyncOrders => (Spec => []ActiveFilesWhole)
  <1>1. FsyncOrders /\ Inv /\ WholeInv /\ [Next]_vars => WholeInv'
    BY WholeNext
  <1>2. WholeInv => ActiveFilesWhole
    BY DEF WholeInv
  <1>3. FsyncOrders => (Spec => []WholeInv)
    <2> SUFFICES ASSUME FsyncOrders  PROVE Spec => []WholeInv
      OBVIOUS
    <2>1. Inv /\ WholeInv /\ [Next]_vars => WholeInv'
      BY <1>1
    <2> QED
      BY Invariance, InitWhole, <2>1, PTL DEF Spec
  <1>4. []WholeInv => []ActiveFilesWhole
    BY <1>2, PTL
  <1> QED
    BY <1>3, <1>4

-----------------------------------------------------------------------------
(* External work is kept.  The parts of the invariant take the state they  *)
(* speak of as arguments (inodes n, directories d, their disk k, saved and *)
(* used work), so that the lemmas about them need no primes.               *)

\* A piece of work is the content of one inode.
WorkOK(n, done) ==
    \A i \in 1..Len(n) : n[i].content \in Works =>
        /\ n[i].content \in done
        /\ \A j \in 1..Len(n) : n[j].content = n[i].content => j = i

\* Its inode has a name in memory and one on disk.
KeptOK(n, d, k, works) ==
    \A w \in works : \E p \in Paths, s \in Slots, t \in Slots :
        /\ d[p][s] # 0 /\ n[d[p][s]].content = w
        /\ k[p].slots[t] = d[p][s]

\* No identity e on record fits an inode that was saved to since.
Ahead(e, n, k, works) ==
    e.ino # 0 =>
        /\ e.ino \in 1..Len(n) /\ e.stamp <= n[e.ino].stamp
        /\ n[e.ino].content \in works =>
              /\ e.stamp < n[e.ino].stamp
              /\ \A p \in Paths, t \in Slots :
                    k[p].slots[t] = e.ino => e.stamp < k[p].stamp[t]

\* Commit, or its abort, is under way.
InCommit == pc \notin {"idle"} \cup Asking /\ rm.caller # "recover"

RecordsOK ==
    InCommit => \A f \in Files : \A e \in {orig[f], cand[f],
                       journal.files[f].original, journal.files[f].candidate} :
        Ahead(e, inodes, disk, saved)

\* After a power failure an active file may be older than its record, but not
\* what recovery may destroy: the files under the other two names.
Older(j, i, stamp) ==
    \A e \in {j.original, j.candidate} : e.ino = i => e.stamp < stamp

StaleOK(n, d, k, works, j) ==
    \A f \in Files :
        /\ \A e \in {j[f].original, j[f].candidate} : e.ino \in 0..Len(n)
        /\ \A s \in {"stage", "remove"} :
              /\ d[f][s] # 0 /\ n[d[f][s]].content \in works =>
                    Older(j[f], d[f][s], n[d[f][s]].stamp)
              /\ k[f].slots[s] # 0 /\ n[k[f].slots[s]].content \in works =>
                    Older(j[f], k[f].slots[s], k[f].stamp[s])

\* What was reviewed is nobody's unreviewed work, a candidate nobody's work.
ReviewedOK ==
    \A p \in Paths :
        /\ orig[p].content \notin saved /\ (orig[p].content \in Works => orig[p].content \in used)
        /\ cand[p].content \notin Works

FdOK ==
    pc \in {"write", "mark"} \cup Opened => inodes[rm.fd].content \notin saved

KeptInv ==
    /\ WorkOK(inodes, used) /\ KeptOK(inodes, dir, disk, saved)
    /\ RecordsOK /\ StaleOK(inodes, dir, disk, saved, journal.files)
    /\ ReviewedOK /\ FdOK
    /\ pc = "idle" => cand = NoEntries

\* What a step of the service or the operator does to the files of others:
\* stamps grow, contents stay unless nobody misses them, and what is missed
\* keeps its names.
Preserves ==
    /\ Len(inodes') >= Len(inodes) /\ saved' \subseteq saved
    /\ \A i \in 1..Len(inodes') : i > Len(inodes) => inodes'[i].content \notin Works
    /\ \A i \in 1..Len(inodes) :
          /\ inodes'[i].stamp >= inodes[i].stamp
          /\ \/ inodes'[i].content = inodes[i].content
             \/ inodes'[i].content \notin Works /\ inodes[i].content \notin saved
    /\ \A p \in Paths, s \in Slots : disk'[p].slots[s] # 0 =>
          \/ /\ dir'[p][s] = disk'[p].slots[s]
             /\ disk'[p].stamp[s] = inodes'[disk'[p].slots[s]].stamp
          \/ /\ disk[p].slots[s] = disk'[p].slots[s]
             /\ \/ disk'[p].stamp[s] = disk[p].stamp[s]
                \/ /\ pc = "scrub" /\ disk'[p].slots[s] = rm.fd
                   /\ inodes'[rm.fd].content \notin Works
                   /\ disk'[p].stamp[s] = inodes'[rm.fd].stamp
    /\ \A p \in Paths, s \in Slots :
          dir[p][s] # 0 /\ inodes[dir[p][s]].content \in saved' =>
             /\ \E t \in Slots : dir'[p][t] = dir[p][s]
             /\ \A t \in Slots : disk[p].slots[t] = dir[p][s] =>
                   \E u \in Slots : disk'[p].slots[u] = dir[p][s]

\* What has a stage or quarantine name had one, or is new.
Stays ==
    \A f \in Files, s \in {"stage", "remove"} : dir'[f][s] # 0 =>
        \/ dir'[f][s] > Len(inodes)
        \/ \E t \in {"stage", "remove"} : dir'[f][s] = dir[f][t]

LEMMA IdRange ==
    ASSUME FsOK, NEW p \in Paths, NEW s \in Slots
    PROVE  /\ Len(inodes) \in Nat
           /\ dir[p][s] \in 0..Len(inodes) /\ disk[p].slots[s] \in 0..Len(inodes)
           /\ dir[p][s] # 0 => dir[p][s] \in 1..Len(inodes)
           /\ disk[p].slots[s] # 0 => disk[p].slots[s] \in 1..Len(inodes)
           /\ disk[p].stamp[s] \in Nat
  <1>1. Len(inodes) \in Nat /\ dir[p][s] \in Ids /\ disk[p].slots[s] \in Ids
        /\ disk[p].stamp[s] \in Nat
    BY DEF FsOK, Disks
  <1> QED
    BY <1>1 DEF Ids

LEMMA StampType == ASSUME FsOK, NEW i \in 1..Len(inodes)
                   PROVE  inodes[i].stamp \in Nat /\ inodes[i].content \in Contents
  <1>1. inodes[i] \in INode
    BY ElementOfSeq DEF FsOK
  <1> QED
    BY <1>1 DEF INode

LEMMA PreservesAhead ==
    ASSUME FsOK, FsOK', saved \subseteq Works, Preserves, NEW e \in Entries,
           Ahead(e, inodes, disk, saved)
    PROVE  Ahead(e, inodes', disk', saved')
  <1> SUFFICES ASSUME e.ino # 0
               PROVE  /\ e.ino \in 1..Len(inodes') /\ e.stamp <= inodes'[e.ino].stamp
                      /\ inodes'[e.ino].content \in saved' =>
                            /\ e.stamp < inodes'[e.ino].stamp
                            /\ \A p \in Paths, t \in Slots : disk'[p].slots[t] = e.ino =>
                                  e.stamp < disk'[p].stamp[t]
    BY DEF Ahead
  <1>1. /\ e.ino \in 1..Len(inodes) /\ e.stamp <= inodes[e.ino].stamp
        /\ inodes[e.ino].content \in saved =>
              /\ e.stamp < inodes[e.ino].stamp
              /\ \A p \in Paths, t \in Slots : disk[p].slots[t] = e.ino =>
                    e.stamp < disk[p].stamp[t]
    BY DEF Ahead
  <1>2. Len(inodes) \in Nat /\ Len(inodes') \in Nat /\ Len(inodes') >= Len(inodes)
    BY DEF FsOK, Preserves
  <1>3. e.ino \in 1..Len(inodes') /\ e.stamp \in Nat
    BY <1>1, <1>2 DEF Entries
  <1>4. inodes[e.ino].stamp \in Nat /\ inodes'[e.ino].stamp \in Nat
    <2>1. inodes'[e.ino] \in INode
      BY <1>3, ElementOfSeq DEF FsOK
    <2> QED
      BY <1>1, <2>1, StampType DEF INode
  <1>5. inodes'[e.ino].stamp >= inodes[e.ino].stamp
    BY <1>1 DEF Preserves
  <1>6. ASSUME inodes'[e.ino].content \in saved'
        PROVE  /\ e.stamp < inodes'[e.ino].stamp
               /\ \A p \in Paths, t \in Slots : disk'[p].slots[t] = e.ino =>
                     e.stamp < disk'[p].stamp[t]
    <2>1. inodes'[e.ino].content \in Works /\ inodes'[e.ino].content \in saved
      BY <1>6 DEF Preserves
    <2>2. inodes[e.ino].content \in saved
      BY <1>1, <2>1 DEF Preserves
    <2>3. e.stamp < inodes'[e.ino].stamp
      BY <1>1, <1>3, <1>4, <1>5, <2>2
    <2>4. ASSUME NEW p \in Paths, NEW t \in Slots, disk'[p].slots[t] = e.ino
          PROVE  e.stamp < disk'[p].stamp[t]
      <3>1. CASE disk'[p].stamp[t] = inodes'[disk'[p].slots[t]].stamp
        BY <2>3, <2>4, <3>1
      <3>2. CASE disk[p].slots[t] = e.ino /\ disk'[p].stamp[t] = disk[p].stamp[t]
        BY <1>1, <2>2, <3>2
      <3> QED
        BY <2>1, <2>4, <3>1, <3>2 DEF Preserves
    <2> QED
      BY <2>3, <2>4
  <1> QED
    BY <1>1, <1>3, <1>4, <1>5, <1>6

LEMMA PreservesKept ==
    ASSUME FsOK, FsOK', saved \subseteq Works, Preserves, used' = used,
           WorkOK(inodes, used), KeptOK(inodes, dir, disk, saved)
    PROVE  WorkOK(inodes', used') /\ KeptOK(inodes', dir', disk', saved')
  <1>0. Len(inodes) \in Nat /\ Len(inodes') \in Nat /\ Len(inodes') >= Len(inodes)
    BY DEF FsOK, Preserves
  <1>1. ASSUME NEW i \in 1..Len(inodes'), inodes'[i].content \in Works
        PROVE  i \in 1..Len(inodes) /\ inodes'[i].content = inodes[i].content
    <2>1. i \in 1..Len(inodes)
      BY <1>0, <1>1 DEF Preserves
    <2> QED
      BY <1>1, <2>1 DEF Preserves
  <1>2. WorkOK(inodes', used')
    BY <1>1 DEF WorkOK
  <1>3. ASSUME NEW w \in saved'
        PROVE  \E p \in Paths, s \in Slots, t \in Slots :
                  /\ dir'[p][s] # 0 /\ inodes'[dir'[p][s]].content = w
                  /\ disk'[p].slots[t] = dir'[p][s]
    <2>1. PICK p \in Paths, s \in Slots, t \in Slots :
            /\ dir[p][s] # 0 /\ inodes[dir[p][s]].content = w
            /\ disk[p].slots[t] = dir[p][s]
      BY <1>3 DEF KeptOK, Preserves
    <2>2. PICK s2 \in Slots : dir'[p][s2] = dir[p][s]
      BY <1>3, <2>1 DEF Preserves
    <2>3. PICK t2 \in Slots : disk'[p].slots[t2] = dir[p][s]
      BY <1>3, <2>1 DEF Preserves
    <2>4. dir[p][s] \in 1..Len(inodes) /\ w \in saved
      BY <1>3, <2>1, IdRange DEF Preserves
    <2>5. inodes'[dir[p][s]].content = w
      BY <2>1, <2>4 DEF Preserves
    <2> QED
      BY <2>1, <2>2, <2>3, <2>5
  <1> QED
    BY <1>2, <1>3 DEF KeptOK

\* What is on record is behind every file that was saved to.
LEMMA AheadStale ==
    ASSUME NEW n, NEW d, NEW k, NEW works, NEW j, Len(n) \in Nat,
           \A f \in Files : \A e \in {j[f].original, j[f].candidate} :
              Ahead(e, n, k, works)
    PROVE  StaleOK(n, d, k, works, j)
  <1> SUFFICES ASSUME NEW f \in Files
               PROVE  /\ \A e \in {j[f].original, j[f].candidate} : e.ino \in 0..Len(n)
                      /\ \A s \in {"stage", "remove"} :
                            /\ d[f][s] # 0 /\ n[d[f][s]].content \in works =>
                                  Older(j[f], d[f][s], n[d[f][s]].stamp)
                            /\ k[f].slots[s] # 0 /\ n[k[f].slots[s]].content \in works =>
                                  Older(j[f], k[f].slots[s], k[f].stamp[s])
    BY DEF StaleOK
  <1>1. f \in Paths
    BY FileType
  <1> QED
    BY <1>1, SlotNames DEF Ahead, Older

LEMMA PreservesStale ==
    ASSUME FsOK, FsOK', saved \subseteq Works, Preserves, Stays,
           NEW j \in [Files -> FileRecords], StaleOK(inodes, dir, disk, saved, j)
    PROVE  StaleOK(inodes', dir', disk', saved', j)
  <1>0. Len(inodes) \in Nat /\ Len(inodes') \in Nat /\ Len(inodes') >= Len(inodes)
    BY DEF FsOK, Preserves
  <1> SUFFICES ASSUME NEW f \in Files
               PROVE  /\ \A e \in {j[f].original, j[f].candidate} : e.ino \in 0..Len(inodes')
                      /\ \A s \in {"stage", "remove"} :
                            /\ dir'[f][s] # 0 /\ inodes'[dir'[f][s]].content \in saved' =>
                                  Older(j[f], dir'[f][s], inodes'[dir'[f][s]].stamp)
                            /\ disk'[f].slots[s] # 0
                                  /\ inodes'[disk'[f].slots[s]].content \in saved' =>
                                  Older(j[f], disk'[f].slots[s], disk'[f].stamp[s])
    BY DEF StaleOK
  <1>1. f \in Paths /\ saved' \subseteq saved
        /\ j[f].original \in Entries /\ j[f].candidate \in Entries
    BY FileType DEF Preserves, FileRecords
  <1>2. \A e \in {j[f].original, j[f].candidate} : e.ino \in 0..Len(inodes')
    BY <1>0 DEF StaleOK
  <1>3. ASSUME NEW s \in {"stage", "remove"}, dir'[f][s] # 0,
               inodes'[dir'[f][s]].content \in saved'
        PROVE  Older(j[f], dir'[f][s], inodes'[dir'[f][s]].stamp)
    <2>a. dir'[f] \in [Slots -> Ids'] /\ s \in Slots
      BY <1>1, SlotNames DEF FsOK
    <2>b. dir'[f][s] \in 1..Len(inodes')
      BY <1>0, <1>3, <2>a DEF Ids
    <2>1. dir'[f][s] \in 1..Len(inodes)
      BY <1>0, <1>1, <1>3, <2>b DEF Preserves
    <2>2. PICK t \in {"stage", "remove"} : dir'[f][s] = dir[f][t]
      BY <1>0, <1>3, <2>1 DEF Stays
    <2>3. inodes[dir[f][t]].content \in saved
      BY <1>1, <1>3, <2>1, <2>2 DEF Preserves
    <2>4. Older(j[f], dir[f][t], inodes[dir[f][t]].stamp)
      BY <1>3, <2>2, <2>3 DEF StaleOK
    <2>5. inodes'[dir[f][t]].stamp >= inodes[dir[f][t]].stamp
      BY <2>1, <2>2 DEF Preserves
    <2>6. inodes[dir[f][t]].stamp \in Nat /\ inodes'[dir[f][t]].stamp \in Nat
      <3>1. inodes'[dir[f][t]] \in INode
        BY <2>2, <2>b, ElementOfSeq DEF FsOK
      <3> QED
        BY <2>1, <2>2, <3>1, StampType DEF INode
    <2> QED
      BY <1>1, <2>2, <2>4, <2>5, <2>6 DEF Older, Entries
  <1>4. ASSUME NEW s \in {"stage", "remove"}, disk'[f].slots[s] # 0,
               inodes'[disk'[f].slots[s]].content \in saved'
        PROVE  Older(j[f], disk'[f].slots[s], disk'[f].stamp[s])
    <2>1. s \in Slots
      BY SlotNames
    <2>2. CASE /\ dir'[f][s] = disk'[f].slots[s]
               /\ disk'[f].stamp[s] = inodes'[disk'[f].slots[s]].stamp
      BY <1>3, <1>4, <2>2
    <2>3. CASE /\ disk[f].slots[s] = disk'[f].slots[s]
               /\ disk'[f].stamp[s] = disk[f].stamp[s]
      <3>1. disk[f].slots[s] \in 1..Len(inodes)
        BY <1>1, <1>4, <2>1, <2>3, IdRange
      <3>2. inodes[disk[f].slots[s]].content \in saved
        BY <1>1, <1>4, <2>3, <3>1 DEF Preserves
      <3> QED
        BY <1>4, <2>3, <3>2 DEF StaleOK
    <2> QED
      BY <1>1, <1>4, <2>1, <2>2, <2>3 DEF Preserves
  <1> QED
    BY <1>2, <1>3, <1>4

LEMMA SyncStamps ==
    ASSUME FsOK, NEW p \in Paths, SyncDirectory(p)
    PROVE  /\ disk'[p].slots = dir'[p]
           /\ \A s \in Slots : dir'[p][s] # 0 =>
                 disk'[p].stamp[s] = inodes'[dir'[p][s]].stamp
           /\ \A q \in Paths : q # p => disk'[q] = disk[q]
  <1>1. disk \in [Paths -> Disks]
    BY DEF FsOK
  <1> QED
    BY <1>1 DEF SyncDirectory, Synced

\* Names of one path change, its directory is synchronised or not.
LEMMA MovePreserves ==
    ASSUME FsOK, NEW p \in Paths, Local(p), disk' = disk \/ SyncDirectory(p),
           saved' \subseteq saved,
           \A i \in 1..Len(inodes') : i > Len(inodes) => inodes'[i].content \notin Works,
           \A i \in 1..Len(inodes) :
              /\ inodes'[i].stamp >= inodes[i].stamp
              /\ \/ inodes'[i].content = inodes[i].content
                 \/ inodes'[i].content \notin Works /\ inodes[i].content \notin saved,
           \A s \in Slots : dir[p][s] # 0 /\ inodes[dir[p][s]].content \in saved' =>
              \E t \in Slots : dir'[p][t] = dir[p][s]
    PROVE  Preserves
  <1>1. Len(inodes') >= Len(inodes) /\ \A q \in Paths : q # p => dir'[q] = dir[q]
    BY DEF Local
  <1>2. \/ disk' = disk
        \/ /\ disk'[p].slots = dir'[p]
           /\ \A s \in Slots : dir'[p][s] # 0 =>
                 disk'[p].stamp[s] = inodes'[dir'[p][s]].stamp
           /\ \A q \in Paths : q # p => disk'[q] = disk[q]
    BY SyncStamps
  <1>3. \A q \in Paths, s \in Slots : disk'[q].slots[s] # 0 =>
          \/ /\ dir'[q][s] = disk'[q].slots[s]
             /\ disk'[q].stamp[s] = inodes'[disk'[q].slots[s]].stamp
          \/ /\ disk[q].slots[s] = disk'[q].slots[s]
             /\ disk'[q].stamp[s] = disk[q].stamp[s]
    BY <1>2
  <1>4. ASSUME NEW q \in Paths, NEW s \in Slots, dir[q][s] # 0,
               inodes[dir[q][s]].content \in saved'
        PROVE  /\ \E t \in Slots : dir'[q][t] = dir[q][s]
               /\ \A t \in Slots : disk[q].slots[t] = dir[q][s] =>
                     \E u \in Slots : disk'[q].slots[u] = dir[q][s]
    <2>1. CASE q # p
      BY <1>1, <1>2, <2>1
    <2>2. CASE q = p
      <3>1. PICK t \in Slots : dir'[p][t] = dir[p][s]
        BY <1>4, <2>2
      <3> QED
        BY <1>2, <2>2, <3>1
    <2> QED
      BY <2>1, <2>2
  <1> QED
    BY <1>1, <1>3, <1>4 DEF Preserves

LEMMA QuietPreserves ==
    ASSUME FsOK, UNCHANGED fs, saved' \subseteq saved
    PROVE  Preserves /\ Stays
  <1>1. dir' = dir /\ disk' = disk /\ inodes' = inodes /\ Len(inodes) \in Nat
    BY DEF fs, FsOK
  <1>2. \A i \in 1..Len(inodes) : inodes[i].stamp \in Nat
    BY StampType
  <1> QED
    BY <1>1, <1>2 DEF Preserves, Stays

LEMMA SyncPreserves ==
    ASSUME FsOK, NEW p \in Paths, UNCHANGED <<inodes, dir>>, SyncDirectory(p),
           saved' \subseteq saved
    PROVE  Preserves /\ Stays
  <1>1. Local(p) /\ Len(inodes) \in Nat
    BY SyncLocal DEF FsOK
  <1>2. \A i \in 1..Len(inodes) : inodes[i].stamp \in Nat
    BY StampType
  <1>3. Preserves
    BY <1>1, <1>2, MovePreserves
  <1> QED
    BY <1>3 DEF Stays

\* A new file under the free stage name.
LEMMA CreatePreserves ==
    ASSUME FsOK, NEW p \in Paths, dir[p].stage = 0,
           inodes' = Append(inodes, [content |-> Empty, stamp |-> 0]),
           dir' = [dir EXCEPT ![p].stage = Len(inodes) + 1], disk' = disk,
           saved' \subseteq saved
    PROVE  Preserves
  <1>1. Empty \in Contents /\ Empty \notin Works
    BY PathsAssumption DEF Contents
  <1>2. /\ Local(p)
        /\ dir'[p] = [dir[p] EXCEPT !["stage"] = Len(inodes) + 1]
        /\ \A i \in 1..Len(inodes) : inodes'[i] = inodes[i]
        /\ inodes'[Len(inodes) + 1].content = Empty
        /\ Len(inodes') = Len(inodes) + 1
    BY <1>1, CreateLocal, SlotNames
  <1>3. Len(inodes) \in Nat /\ dir[p] \in [Slots -> Ids]
    BY DEF FsOK
  <1>4. \A i \in 1..Len(inodes') : i > Len(inodes) => inodes'[i].content \notin Works
    <2>1. \A i \in 1..Len(inodes') : i > Len(inodes) => i = Len(inodes) + 1
      BY <1>2, <1>3
    <2> QED
      BY <1>1, <1>2, <2>1
  <1>5. \A i \in 1..Len(inodes) : inodes'[i].stamp >= inodes[i].stamp
    BY <1>2, StampType
  <1>6. \A s \in Slots : dir[p][s] # 0 => dir'[p][s] = dir[p][s]
    BY <1>2, <1>3
  <1> QED
    BY <1>2, <1>4, <1>5, <1>6, MovePreserves

\* A write through a descriptor to a file that nobody misses.
LEMMA WritePreserves ==
    ASSUME FsOK, NEW p \in Paths, NEW i \in Ids, i # 0, NEW c \in Contents, c \notin Works,
           \A q \in Paths : Refers(q, i) => q = p, inodes[i].content \notin saved,
           inodes' = Write(i, c), UNCHANGED dir, disk' = disk \/ SyncDirectory(p),
           saved' \subseteq saved
    PROVE  Preserves /\ Stays
  <1>1. /\ Local(p) /\ Len(inodes') = Len(inodes)
        /\ \A j \in 1..Len(inodes) : j # i => inodes'[j] = inodes[j]
        /\ inodes'[i].content = c
        /\ inodes'[i].stamp = inodes[i].stamp + 1
    BY WriteLocal
  <1>2. Len(inodes) \in Nat /\ \A j \in 1..Len(inodes) : inodes[j].stamp \in Nat
    BY StampType DEF FsOK
  <1>3. \A j \in 1..Len(inodes) :
           /\ inodes'[j].stamp >= inodes[j].stamp
           /\ \/ inodes'[j].content = inodes[j].content
              \/ inodes'[j].content \notin Works /\ inodes[j].content \notin saved
    BY <1>1, <1>2
  <1>4. \A j \in 1..Len(inodes') : j > Len(inodes) => inodes'[j].content \notin Works
    BY <1>1, <1>2
  <1>5. Preserves
    BY <1>1, <1>3, <1>4, MovePreserves
  <1> QED
    BY <1>5 DEF Stays

LEMMA SwapPreserves ==
    ASSUME FsOK, NEW p \in Paths, NEW a \in Slots, NEW b \in Slots, a # b,
           Swap(p, a, b), disk' = disk \/ SyncDirectory(p), saved' \subseteq saved
    PROVE  Preserves /\ ({a, b} = {"stage", "remove"} => Stays)
  <1>1. /\ Local(p) /\ Len(inodes') = Len(inodes)
        /\ dir'[p][a] = dir[p][b] /\ dir'[p][b] = dir[p][a]
        /\ \A s \in Slots : s # a /\ s # b => dir'[p][s] = dir[p][s]
        /\ \A i \in 1..Len(inodes) : inodes'[i].content = inodes[i].content
    BY SwapLocal
  <1>2. Len(inodes) \in Nat /\ DOMAIN inodes = 1..Len(inodes)
        /\ \A j \in 1..Len(inodes) : inodes[j].stamp \in Nat /\ inodes[j] \in INode
    BY StampType, ElementOfSeq DEF FsOK
  <1>3. \A j \in 1..Len(inodes) : inodes'[j].stamp >= inodes[j].stamp
    BY <1>2 DEF Swap, Touch, INode
  <1>4. \A j \in 1..Len(inodes') : j > Len(inodes) => inodes'[j].content \notin Works
    BY <1>1, <1>2
  <1>5. \A s \in Slots : \E t \in Slots : dir'[p][t] = dir[p][s]
    BY <1>1
  <1>6. Preserves
    BY <1>1, <1>3, <1>4, <1>5, MovePreserves
  <1>7. ASSUME {a, b} = {"stage", "remove"}, NEW f \in Files, NEW s \in {"stage", "remove"}
        PROVE  \E t \in {"stage", "remove"} : dir'[f][s] = dir[f][t]
    <2>1. CASE f # p
      BY <1>1, <2>1, FileType DEF Local
    <2>2. CASE f = p
      BY <1>1, <1>7, <2>2
    <2> QED
      BY <2>1, <2>2
  <1> QED
    BY <1>6, <1>7 DEF Stays

\* A name is dropped of a file that nobody misses.
LEMMA RemovePreserves ==
    ASSUME FsOK, NEW p \in Paths, NEW s \in Slots, UNCHANGED inodes,
           dir' = [dir EXCEPT ![p][s] = 0], disk' = disk \/ SyncDirectory(p),
           saved' \subseteq saved, inodes[dir[p][s]].content \notin saved'
    PROVE  Preserves /\ Stays
  <1>1. /\ Local(p) /\ dir'[p][s] = 0
        /\ \A t \in Slots : t # s => dir'[p][t] = dir[p][t]
    BY RemoveLocal
  <1>2. Len(inodes) \in Nat /\ \A j \in 1..Len(inodes) : inodes[j].stamp \in Nat
    BY StampType DEF FsOK
  <1>3. Preserves
    BY <1>1, <1>2, MovePreserves
  <1>4. \A f \in Files, t \in {"stage", "remove"} : dir'[f][t] # 0 => dir'[f][t] = dir[f][t]
    BY <1>1, FileType, SlotNames DEF Local
  <1> QED
    BY <1>3, <1>4 DEF Stays

LEMMA ScrubPreserves ==
    ASSUME FsOK, NEW p \in Paths, NEW i \in Ids, i = rm.fd, pc = "scrub", i # 0,
           \A q \in Paths : Refers(q, i) => q = p, inodes[i].content \notin saved,
           ScrubOpenFile(p, i), UNCHANGED dir, saved' \subseteq saved
    PROVE  Preserves /\ Stays
  <1>1. Empty \in Contents /\ Empty \notin Works
    BY PathsAssumption DEF Contents
  <1>2. CASE FsyncOrders
    <2>1. inodes' = Write(i, Empty) /\ SyncDirectory(p)
      BY <1>2 DEF ScrubOpenFile, SyncDirectory
    <2> QED
      BY <1>1, <2>1, WritePreserves
  <1>3. CASE ~FsyncOrders
    <2> DEFINE stamp == [s \in Slots |-> IF disk[p].slots[s] = i
                                         THEN inodes'[i].stamp
                                         ELSE disk[p].stamp[s]]
    <2>1. disk' = [disk EXCEPT ![p].stamp = stamp]
      BY <1>3 DEF ScrubOpenFile
    <2>2. disk \in [Paths -> Disks]
      BY DEF FsOK
    <2>3. /\ \A q \in Paths : disk'[q].slots = disk[q].slots
          /\ \A q \in Paths : q # p => disk'[q] = disk[q]
          /\ disk'[p].stamp = stamp
      BY <2>1, <2>2 DEF Disks
    <2>4. /\ Local(p) /\ Len(inodes') = Len(inodes)
          /\ \A j \in 1..Len(inodes) : j # i => inodes'[j] = inodes[j]
          /\ inodes'[i].content = Empty
          /\ inodes'[i].stamp = inodes[i].stamp + 1
      BY ScrubLocal
    <2>5. Len(inodes) \in Nat /\ \A j \in 1..Len(inodes) : inodes[j].stamp \in Nat
      BY StampType DEF FsOK
    <2>6. \A j \in 1..Len(inodes) :
             /\ inodes'[j].stamp >= inodes[j].stamp
             /\ \/ inodes'[j].content = inodes[j].content
                \/ inodes'[j].content \notin Works /\ inodes[j].content \notin saved
      BY <1>1, <2>4, <2>5
    <2>7. \A q \in Paths, s \in Slots : disk'[q].slots[s] # 0 =>
             /\ disk[q].slots[s] = disk'[q].slots[s]
             /\ \/ disk'[q].stamp[s] = disk[q].stamp[s]
                \/ /\ disk'[q].slots[s] = i /\ inodes'[i].content \notin Works
                   /\ disk'[q].stamp[s] = inodes'[i].stamp
      BY <1>1, <2>3, <2>4
    <2>8. Preserves
      BY <2>3, <2>4, <2>5, <2>6, <2>7 DEF Preserves
    <2> QED
      BY <2>8 DEF Stays
  <1> QED
    BY <1>2, <1>3

\* The steps of the service, of its caller and of the operator.
Ordinary ==
    Service \/ StageFails \/ Resolve \/ HostCleanup \/ Crash \/ UNCHANGED vars

LEMMA SavedShrinks == ASSUME Ordinary  PROVE saved' \subseteq saved /\ used' = used
  <1> USE DEF history
  <1>1. CASE Staging \/ StageFails
    <2>1. CASE Abort
      BY <2>1 DEF Abort, Discard
    <2> QED
      BY <1>1, <2>1 DEF Staging, CreateJournal, StageCreate, StageWrite, MarkCandidate,
         StageFails, Refuse
  <1>2. CASE Activation
    <2>1. CASE Abort \/ Refuse
      BY <2>1 DEF Abort, Discard, Refuse
    <2> QED
      BY <1>2, <2>1 DEF Activation, RecheckStaged, EnterReplacing, Authorize, Rename,
         VerifyActive, CheckRollback, ExchangeBack, MarkPlacement, SyncActive,
         ConfirmActive, MarkApplied, EnterFinalizing, InspectCommitted, FinalizeEdit,
         ActivationFails
  <1>3. CASE Cleanup
    <2>1. CASE CleanupFails \/ Cleaned
      BY <2>1 DEF CleanupFails, Cleaned
    <2> QED
      BY <1>3, <2>1 DEF Cleanup, DiscardPrepared, CleanOpen, Quarantine,
         VerifyQuarantine, Scrub, Unlink, ClearAborted, Refuse
  <1>4. CASE Recovery \/ Resolve
    BY <1>4 DEF Recovery, Resolve, AuthorizeDiscard, ClearDiscarded, ValidateCurrent,
       AuthorizeCurrent, RecheckCurrent, ResolveDiscard, ResolveCurrent, Refuse
  <1>5. CASE HostCleanup \/ Crash \/ UNCHANGED vars
    BY <1>5 DEF HostCleanup, Crash, vars
  <1> QED
    BY <1>1, <1>2, <1>3, <1>4, <1>5 DEF Ordinary, Service

LEMMA NoWork == edits \in 0..MaxEdits => Empty \notin Works /\ edits \notin Works
                      /\ Empty \in Contents /\ edits \in Contents
  BY PathsAssumption DEF Contents

LEMMA StagingPreserves ==
    ASSUME Inv, FdOK, Staging \/ StageFails
    PROVE  Preserves /\ InCommit
  <1>1. FsOK /\ at \in Paths /\ saved' \subseteq saved /\ edits \in 0..MaxEdits
    BY SavedShrinks, FileType DEF Ordinary, Service, Inv, MemoryOK
  <1>2. InCommit
    <2>1. pc \in {"prepare", "stage", "write", "mark"}
      BY DEF Staging, CreateJournal, StageCreate, StageWrite, MarkCandidate, StageFails
    <2> QED
      BY <2>1 DEF InCommit, Asking, Inv, PlaceOK, Cleaning, Opened
  <1>3. CASE UNCHANGED fs
    BY <1>1, <1>2, <1>3, QuietPreserves
  <1>4. CASE CreateJournal
    BY <1>2, <1>3, <1>4 DEF CreateJournal, Refuse
  <1>5. CASE StageCreate
    BY <1>1, <1>2, <1>3, <1>5, CreatePreserves DEF StageCreate
  <1>6. ASSUME pc \in {"write", "mark"}
        PROVE  /\ rm.fd \in Ids /\ rm.fd # 0 /\ \A q \in Paths : Refers(q, rm.fd) => q = at
               /\ inodes[rm.fd].content \notin saved
    BY <1>6, OpenStage DEF FdOK
  <1>7. CASE StageWrite
    <2>1. inodes' = Write(rm.fd, edits) /\ UNCHANGED <<dir, disk>> /\ pc = "write"
      BY <1>7 DEF StageWrite
    <2> QED
      BY <1>1, <1>2, <1>6, <2>1, NoWork, WritePreserves
  <1>8. CASE MarkCandidate
    BY <1>1, <1>2, <1>8, SyncPreserves DEF MarkCandidate
  <1>9. CASE StageFails
    <2>1. /\ pc \in {"write", "mark"} /\ UNCHANGED dir /\ (UNCHANGED disk \/ SyncDirectory(at))
          /\ \/ inodes' = inodes /\ UNCHANGED disk
             \/ inodes' = Write(rm.fd, Empty)
      BY <1>9 DEF StageFails
    <2>2. CASE inodes' = inodes /\ UNCHANGED disk
      BY <1>2, <1>3, <2>1, <2>2 DEF fs
    <2>3. CASE inodes' = Write(rm.fd, Empty)
      BY <1>1, <1>2, <1>6, <2>1, <2>3, NoWork, WritePreserves
    <2> QED
      BY <2>1, <2>2, <2>3
  <1> QED
    BY <1>4, <1>5, <1>7, <1>8, <1>9 DEF Staging

LEMMA ActivationPreserves ==
    ASSUME Inv, Activation
    PROVE  Preserves /\ (Stays \/ InCommit)
  <1>1. FsOK /\ at \in Paths /\ saved' \subseteq saved
    BY SavedShrinks, FileType DEF Ordinary, Service, Inv, MemoryOK
  <1>2. CASE UNCHANGED fs
    BY <1>1, <1>2, QuietPreserves
  <1>3. CASE UNCHANGED <<inodes, dir>> /\ SyncDirectory(at)
    BY <1>1, <1>3, SyncPreserves
  <1>4. CASE Swap(at, "stage", "target") /\ (UNCHANGED disk \/ SyncDirectory(at))
             /\ pc \in {"rename", "exchange_back"}
    <2>1. InCommit
      BY <1>4 DEF InCommit, Asking, Inv, PlaceOK, Cleaning, Opened
    <2> QED
      BY <1>1, <1>4, <2>1, SwapPreserves, SlotNames
  <1>5. CASE Abort /\ UNCHANGED fs
    BY <1>2, <1>5
  <1>6. CASE Refuse
    BY <1>2, <1>6 DEF Refuse
  <1>7. CASE RecheckStaged \/ EnterReplacing \/ Authorize
    BY <1>2, <1>7 DEF RecheckStaged, EnterReplacing, Authorize
  <1>8. CASE Rename
    BY <1>2, <1>4, <1>6, <1>8 DEF Rename, ActivationFails
  <1>9. CASE ExchangeBack
    BY <1>4, <1>6, <1>9 DEF ExchangeBack
  <1>10. CASE SyncActive
    BY <1>3, <1>6, <1>10 DEF SyncActive
  <1>11. CASE VerifyActive \/ CheckRollback \/ MarkPlacement \/ ConfirmActive
    BY <1>2, <1>6, <1>11 DEF VerifyActive, CheckRollback, MarkPlacement, ConfirmActive
  <1>12. CASE MarkApplied \/ EnterFinalizing \/ InspectCommitted \/ FinalizeEdit
    BY <1>2, <1>6, <1>12 DEF MarkApplied, EnterFinalizing, InspectCommitted, FinalizeEdit
  <1> QED
    BY <1>7, <1>8, <1>9, <1>10, <1>11, <1>12 DEF Activation

LEMMA CleanupPreserves ==
    ASSUME Inv, FdOK, Cleanup
    PROVE  Preserves /\ Stays
  <1>1. FsOK /\ at \in Paths /\ saved' \subseteq saved /\ rm.fd \in Ids
    BY SavedShrinks, FileType DEF Ordinary, Service, Inv, MemoryOK, Removals
  <1>2. CASE UNCHANGED fs
    BY <1>1, <1>2, QuietPreserves
  <1>3. CASE Swap(at, "stage", "remove") /\ UNCHANGED disk
    BY <1>1, <1>3, SwapPreserves, SlotNames
  <1>4. CASE DiscardPrepared \/ ClearAborted
    BY <1>2, <1>4 DEF DiscardPrepared, ClearAborted, Refuse
  <1>5. CASE CleanOpen
    <2>1. UNCHANGED <<inodes, dir>> /\ (UNCHANGED disk \/ SyncDirectory(at))
      BY <1>5 DEF CleanOpen, fs
    <2> QED
      BY <1>1, <1>2, <2>1, SyncPreserves DEF fs
  <1>6. CASE Quarantine \/ VerifyQuarantine
    BY <1>2, <1>3, <1>6 DEF Quarantine, VerifyQuarantine
  <1>7. CASE Scrub
    <2>1. /\ rm.fd # 0 /\ pc = "scrub" /\ \A q \in Paths : Refers(q, rm.fd) => q = at
          /\ inodes[rm.fd].content \notin saved
      BY <1>7 DEF Scrub, Inv, DescriptorOK, Opened, FdOK
    <2> QED
      BY <1>1, <1>2, <1>7, <2>1, ScrubPreserves DEF Scrub
  <1>8. CASE Unlink
    <2>1. \/ UNCHANGED fs
          \/ /\ dir[at].remove = rm.fd /\ dir' = [dir EXCEPT ![at].remove = 0]
             /\ UNCHANGED inodes /\ (UNCHANGED disk \/ SyncDirectory(at))
      BY <1>8 DEF Unlink
    <2>2. inodes[rm.fd].content \notin saved'
      BY <1>1, <1>8 DEF Unlink, Opened, FdOK
    <2> QED
      BY <1>1, <1>2, <2>1, <2>2, RemovePreserves, SlotNames
  <1> QED
    BY <1>4, <1>5, <1>6, <1>7, <1>8 DEF Cleanup

LEMMA OrdinaryPreserves ==
    ASSUME Inv, FdOK, Ordinary
    PROVE  Preserves /\ (Stays \/ InCommit)
  <1>1. FsOK /\ saved' \subseteq saved
    BY SavedShrinks DEF Inv
  <1>2. CASE UNCHANGED fs
    BY <1>1, <1>2, QuietPreserves
  <1>3. CASE HostCleanup
    <2>1. PICK f \in Files, s \in {"stage", "remove"} :
             /\ dir[f][s] # 0 /\ dir' = [dir EXCEPT ![f][s] = 0]
             /\ UNCHANGED inodes /\ SyncDirectory(f)
             /\ saved' = saved \ {Entry(f, s).content}
      BY <1>3 DEF HostCleanup
    <2>2. f \in Paths /\ s \in Slots
      BY FileType, SlotNames
    <2>3. inodes[dir[f][s]].content \notin saved'
      BY <1>1, <2>1, <2>2, EntryFacts
    <2> QED
      BY <1>1, <2>1, <2>2, <2>3, RemovePreserves
  <1>4. CASE Recovery \/ Resolve \/ Crash \/ UNCHANGED vars
    BY <1>2, <1>4 DEF Recovery, Resolve, AuthorizeDiscard, ClearDiscarded,
       ValidateCurrent, AuthorizeCurrent, RecheckCurrent, ResolveDiscard, ResolveCurrent,
       Refuse, Crash, vars, fs
  <1> QED
    BY <1>3, <1>4, StagingPreserves, ActivationPreserves, CleanupPreserves
    DEF Ordinary, Service

\* A call keeps its records or drops them, except where it takes a new one.
Keeps ==
    /\ orig' \in {orig, NoEntries} /\ cand' \in {cand, NoEntries}
    /\ journal'.files \in {journal.files, NoJournal.files}

Records ==
    CreateJournal \/ StageWrite \/ MarkCandidate \/ StageFails \/ VerifyActive
        \/ ConfirmActive \/ MarkPlacement \/ MarkApplied

LEMMA KeepsRecords ==
    ASSUME Inv, Ordinary
    PROVE  Keeps \/ (Records /\ pc' # "idle")
  <1> USE DEF db, mem
  <1>0. ASSUME NEW phase, journal' = [journal EXCEPT !.phase = phase]
        PROVE  journal'.files = journal.files
    BY <1>0 DEF Inv, MemoryOK
  <1>1. CASE Return /\ journal' \in {journal, NoJournal}
    BY <1>1 DEF Return, Keeps
  <1>2. CASE UNCHANGED <<orig, cand>> /\ journal'.files = journal.files
    BY <1>2 DEF Keeps
  <1>3. CASE Refuse
    BY <1>1, <1>3 DEF Refuse
  <1>4. CASE Abort /\ UNCHANGED cand
    BY <1>2, <1>4 DEF Abort, Discard
  <1>5. CASE Cleaned
    BY <1>2, <1>5 DEF Cleaned
  <1>6. CASE CleanupFails
    BY <1>1, <1>2, <1>6 DEF CleanupFails
  <1>7. CASE Records
    <2>1. CASE pc' # "idle"
      BY <1>7, <2>1
    <2>2. CASE pc' = "idle"
      <3>1. CASE StageWrite \/ MarkCandidate \/ StageFails
        BY <2>2, <3>1 DEF StageWrite, MarkCandidate, StageFails, Abort, Discard, Goto
      <3>2. CASE CreateJournal \/ VerifyActive \/ ConfirmActive
        BY <1>3, <2>2, <3>2 DEF CreateJournal, VerifyActive, ConfirmActive, Goto
      <3>3. CASE MarkPlacement \/ MarkApplied
        BY <1>3, <2>2, <3>3 DEF MarkPlacement, MarkApplied, Advance, Goto
      <3> QED
        BY <1>7, <3>1, <3>2, <3>3 DEF Records
    <2> QED
      BY <2>1, <2>2
  <1>8. CASE StageCreate
    BY <1>2, <1>4, <1>8 DEF StageCreate
  <1>9. CASE RecheckStaged \/ EnterReplacing \/ Authorize
    <2>1. \/ Abort /\ UNCHANGED cand
          \/ UNCHANGED <<orig, cand>> /\ journal'.files = journal.files
      <3>1. CASE journal' = [journal EXCEPT !.phase = "prepared"] /\ UNCHANGED <<orig, cand>>
        BY <1>0, <3>1
      <3>2. CASE journal' = [journal EXCEPT !.phase = "replacing"] /\ UNCHANGED <<orig, cand>>
        BY <1>0, <3>2
      <3> QED
        BY <1>9, <3>1, <3>2 DEF RecheckStaged, EnterReplacing, Authorize
    <2> QED
      BY <1>2, <1>4, <2>1
  <1>10. CASE Rename \/ CheckRollback \/ SyncActive
    BY <1>2, <1>3, <1>4, <1>10 DEF Rename, CheckRollback, SyncActive, ActivationFails
  <1>11. CASE ExchangeBack
    BY <1>1, <1>2, <1>3, <1>11 DEF ExchangeBack, Discard
  <1>12. CASE EnterFinalizing \/ InspectCommitted
    BY <1>0, <1>2, <1>3, <1>12 DEF EnterFinalizing, InspectCommitted
  <1>13. CASE FinalizeEdit \/ ClearAborted \/ ClearDiscarded \/ Crash
    BY <1>1, <1>3, <1>13 DEF FinalizeEdit, ClearAborted, ClearDiscarded, Crash
  <1>14. CASE DiscardPrepared
    BY <1>2, <1>14 DEF DiscardPrepared
  <1>15. CASE CleanOpen \/ Quarantine \/ VerifyQuarantine \/ Scrub \/ Unlink
    <2>1. CleanupFails \/ Cleaned \/ UNCHANGED <<orig, cand, journal>>
      BY <1>15 DEF CleanOpen, Quarantine, VerifyQuarantine, Scrub, Unlink
    <2> QED
      BY <1>2, <1>5, <1>6, <2>1
  <1>16. CASE AuthorizeDiscard \/ ValidateCurrent \/ AuthorizeCurrent \/ RecheckCurrent
    BY <1>2, <1>3, <1>16 DEF AuthorizeDiscard, ValidateCurrent, AuthorizeCurrent,
       RecheckCurrent
  <1>17. CASE Resolve \/ HostCleanup \/ UNCHANGED vars
    BY <1>2, <1>17 DEF Resolve, ResolveDiscard, ResolveCurrent, HostCleanup, vars
  <1> QED
    BY <1>7, <1>8, <1>9, <1>10, <1>11, <1>12, <1>13, <1>14, <1>15, <1>16, <1>17
    DEF Ordinary, Service, Staging, Activation, Cleanup, Recovery, Records

LEMMA AheadFacts ==
    ASSUME NEW n, NEW k, NEW works
    PROVE  /\ Ahead(Missing, n, k, works)
           /\ \A e \in Entries : Ahead(e, n, k, works) => Ahead(Identity(e), n, k, works)
  <1>1. \A e \in Entries : Identity(e).ino = e.ino /\ Identity(e).stamp = e.stamp
    BY DEF Identity, Entries
  <1>2. Missing.ino = 0
    BY DEF Missing
  <1> QED
    BY <1>1, <1>2 DEF Ahead

\* What a name shows now is on record, unless somebody misses it.
LEMMA EntryAhead ==
    ASSUME FsOK, NEW p \in Paths, NEW s \in Slots, Entry(p, s).content \notin saved
    PROVE  Ahead(Entry(p, s), inodes, disk, saved)
  <1>1. /\ Entry(p, s).ino = dir[p][s]
        /\ dir[p][s] # 0 => Entry(p, s).content = inodes[dir[p][s]].content
        /\ dir[p][s] # 0 => Entry(p, s).stamp = inodes[dir[p][s]].stamp
    BY EntryFacts
  <1>2. dir[p][s] # 0 => dir[p][s] \in 1..Len(inodes) /\ inodes[dir[p][s]].stamp \in Nat
    BY IdRange, StampType
  <1> QED
    BY <1>1, <1>2 DEF Ahead

\* Every identity that commit works with, in memory and in the journal.
AllAhead ==
    \A f \in Files : \A e \in {orig[f], cand[f], journal.files[f].original,
                               journal.files[f].candidate} :
        Ahead(e, inodes, disk, saved)

LEMMA KeepsAhead ==
    ASSUME Inv, FsOK', Preserves, AllAhead, Keeps
    PROVE  AllAhead'
  <1>1. FsOK /\ saved \subseteq Works /\ Files \subseteq Paths
        /\ orig \in [Paths -> Entries] /\ cand \in [Paths -> Entries]
        /\ journal.files \in [Files -> FileRecords]
    BY FileType DEF Inv, MemoryOK
  <1> SUFFICES ASSUME NEW f \in Files
               PROVE  \A e \in {orig'[f], cand'[f], journal'.files[f].original,
                                journal'.files[f].candidate} :
                         Ahead(e, inodes', disk', saved')
    BY DEF AllAhead
  <1>2. \A e \in {orig[f], cand[f], journal.files[f].original,
                  journal.files[f].candidate} : e \in Entries
    BY <1>1 DEF FileRecords
  <1>3. \A e \in {orig[f], cand[f], journal.files[f].original,
                  journal.files[f].candidate} : Ahead(e, inodes', disk', saved')
    BY <1>1, <1>2, PreservesAhead DEF AllAhead
  <1>4. Ahead(Missing, inodes', disk', saved')
    BY AheadFacts
  <1>5. orig'[f] \in {orig[f], Missing} /\ cand'[f] \in {cand[f], Missing}
    BY <1>1 DEF Keeps, NoEntries
  <1>6. \/ journal'.files[f] = journal.files[f]
        \/ journal'.files[f].original = Missing /\ journal'.files[f].candidate = Missing
    BY DEF Keeps, NoJournal, NoFile
  <1> QED
    BY <1>3, <1>4, <1>5, <1>6

\* A new record is of what is there, and of nobody's unreviewed work.
LEMMA RecordsAhead ==
    ASSUME Inv, FsOK', Preserves, AllAhead, ReviewedOK, Records, pc' # "idle"
    PROVE  AllAhead'
  <1> USE DEF mem
  <1>1. FsOK /\ saved \subseteq Works /\ Files \subseteq Paths /\ at \in Files
        /\ orig \in [Paths -> Entries] /\ cand \in [Paths -> Entries]
        /\ journal \in Journals
        /\ journal.files \in [Files -> FileRecords] /\ edits \in 0..MaxEdits
    BY FileType DEF Inv, MemoryOK, Journals
  <1> DEFINE Goes(e) == Ahead(e, inodes', disk', saved')
  <1>2. ASSUME NEW f \in Files
        PROVE  /\ \A e \in {orig[f], cand[f], journal.files[f].original,
                            journal.files[f].candidate} : e \in Entries /\ Goes(e)
               /\ Goes(Identity(orig[f])) /\ Goes(Identity(cand[f])) /\ Goes(Missing)
    <2>1. \A e \in {orig[f], cand[f], journal.files[f].original,
                    journal.files[f].candidate} : e \in Entries
      BY <1>1 DEF FileRecords
    <2>2. \A e \in {orig[f], cand[f], journal.files[f].original,
                    journal.files[f].candidate} : Goes(e)
      BY <1>1, <2>1, PreservesAhead DEF AllAhead
    <2> QED
      BY <2>1, <2>2, AheadFacts
  <1> HIDE DEF Goes
  <1>3. ASSUME \A f \in Files : Goes(orig'[f]) /\ Goes(cand'[f])
                    /\ Goes(journal'.files[f].original) /\ Goes(journal'.files[f].candidate)
        PROVE  AllAhead'
    BY <1>3 DEF AllAhead, Goes
  <1>4. CASE CreateJournal
    <2>1. journal' = [phase |-> "staging", files |-> [f \in Files |->
                        [NoFile EXCEPT !.original = Identity(orig[f])]]]
          /\ UNCHANGED <<orig, cand>>
      BY <1>4 DEF CreateJournal, Refuse, Return
    <2>2. \A f \in Files : /\ journal'.files[f].original = Identity(orig[f])
                           /\ journal'.files[f].candidate = Missing
      BY <2>1 DEF NoFile
    <2> QED
      BY <1>2, <1>3, <2>1, <2>2
  <1>5. ASSUME NEW c \in {edits, Empty}, inodes' = Write(rm.fd, c), UNCHANGED <<orig, journal>>,
               pc \in {"write", "mark"},
               cand' = [cand EXCEPT ![at] = [ino |-> rm.fd, content |-> c,
                                             stamp |-> inodes'[rm.fd].stamp]]
        PROVE  AllAhead'
    <2>1. rm.fd \in 1..Len(inodes) /\ DOMAIN inodes = 1..Len(inodes)
      BY <1>1, <1>5, OpenStage DEF Ids, FsOK
    <2>2. inodes'[rm.fd].content = c /\ Len(inodes') = Len(inodes)
          /\ inodes'[rm.fd].stamp \in Nat
      <3>1. inodes'[rm.fd].content = c
        BY <1>5, <2>1 DEF Write
      <3>2. Len(inodes') = Len(inodes)
        BY <1>1, <1>5 DEF Write, FsOK
      <3>3. inodes'[rm.fd] \in INode
        BY <2>1, <3>2, ElementOfSeq DEF FsOK
      <3> QED
        BY <3>1, <3>2, <3>3 DEF INode
    <2>3. c \notin saved'
      BY <1>1, <1>5, NoWork DEF Preserves
    <2>4. Goes([ino |-> rm.fd, content |-> c, stamp |-> inodes'[rm.fd].stamp])
      BY <2>1, <2>2, <2>3 DEF Goes, Ahead
    <2>5. \A f \in Files : cand'[f] = cand[f] \/ Goes(cand'[f])
      BY <1>1, <1>5, <2>4
    <2> QED
      BY <1>2, <1>3, <1>5, <2>5
  <1>6. CASE StageWrite
    BY <1>5, <1>6 DEF StageWrite, db
  <1>7. CASE StageFails
    BY <1>2, <1>3, <1>5, <1>7 DEF StageFails, Abort, Discard, db
  <1>8. CASE MarkCandidate
    <2>1. /\ journal' = [journal EXCEPT !.files[at].candidate = Identity(cand[at]),
                                        !.files[at].ready = TRUE]
          /\ UNCHANGED <<orig, cand>>
      BY <1>8 DEF MarkCandidate
    <2>2. \A f \in Files :
             /\ journal'.files[f].original = journal.files[f].original
             /\ journal'.files[f].candidate \in {Identity(cand[f]), journal.files[f].candidate}
      BY <1>1, <2>1 DEF Journals, FileRecords
    <2> QED
      BY <1>2, <1>3, <2>1, <2>2
  <1>9. CASE VerifyActive \/ ConfirmActive
    <2>1. UNCHANGED <<fs, db, history>>
      BY <1>9 DEF VerifyActive, ConfirmActive, Refuse
    <2>2. \/ UNCHANGED <<orig, cand>>
          \/ /\ SameContent(cand[at], Entry(at, "target"))
             /\ Existed(at) => SameContent(orig[at], Entry(at, "stage"))
             /\ cand' = [cand EXCEPT ![at] = Entry(at, "target")]
             /\ orig' = [orig EXCEPT ![at] =
                            IF Existed(at) THEN Entry(at, "stage") ELSE Missing]
      BY <1>9 DEF VerifyActive, ConfirmActive, Refuse, Return
    <2>3. CASE UNCHANGED <<orig, cand>>
      BY <1>2, <1>3, <2>1, <2>3 DEF db
    <2>4. CASE /\ SameContent(cand[at], Entry(at, "target"))
               /\ Existed(at) => SameContent(orig[at], Entry(at, "stage"))
               /\ cand' = [cand EXCEPT ![at] = Entry(at, "target")]
               /\ orig' = [orig EXCEPT ![at] =
                              IF Existed(at) THEN Entry(at, "stage") ELSE Missing]
      <3>1. Entry(at, "target").content \notin saved
        BY <1>1, <2>4 DEF SameContent, ReviewedOK
      <3>2. Goes(Entry(at, "target"))
        BY <1>1, <2>1, <3>1, EntryAhead, SlotNames DEF Goes, fs, history
      <3>3. ASSUME Existed(at)  PROVE Goes(Entry(at, "stage"))
        <4>1. Entry(at, "stage").content \notin saved
          BY <1>1, <2>4, <3>3 DEF SameContent, ReviewedOK
        <4> QED
          BY <1>1, <2>1, <4>1, EntryAhead, SlotNames DEF Goes, fs, history
      <3>4. \A f \in Files : /\ cand'[f] \in {cand[f], Entry(at, "target")}
                             /\ orig'[f] \in {orig[f], Missing} \/ Goes(orig'[f])
        BY <1>1, <2>4, <3>3
      <3> QED
        BY <1>2, <1>3, <2>1, <3>2, <3>4 DEF db
    <2> QED
      BY <2>2, <2>3, <2>4
  <1>10. CASE MarkPlacement
    <2>1. /\ journal' = [journal EXCEPT !.files[at].candidate = Identity(cand[at]),
                                        !.files[at].original = Identity(orig[at])]
          /\ UNCHANGED <<orig, cand>>
      BY <1>10 DEF MarkPlacement, Refuse, Return
    <2>2. \A f \in Files :
             /\ journal'.files[f].original \in {Identity(orig[f]), journal.files[f].original}
             /\ journal'.files[f].candidate \in {Identity(cand[f]), journal.files[f].candidate}
      BY <1>1, <2>1 DEF Journals, FileRecords
    <2> QED
      BY <1>2, <1>3, <2>1, <2>2
  <1>11. CASE MarkApplied
    <2>1. /\ journal' = [journal EXCEPT !.files[at].candidate = Identity(cand[at]),
                                        !.files[at].original = Identity(orig[at]),
                                        !.files[at].applied = TRUE]
          /\ UNCHANGED <<orig, cand>>
      BY <1>11 DEF MarkApplied, Refuse, Return
    <2>2. \A f \in Files :
             /\ journal'.files[f].original \in {Identity(orig[f]), journal.files[f].original}
             /\ journal'.files[f].candidate \in {Identity(cand[f]), journal.files[f].candidate}
      BY <1>1, <2>1 DEF Journals, FileRecords
    <2> QED
      BY <1>2, <1>3, <2>1, <2>2
  <1> QED
    BY <1>4, <1>6, <1>7, <1>8, <1>9, <1>10, <1>11 DEF Records

LEMMA ReviewedStep ==
    ASSUME Inv, ReviewedOK, Ordinary
    PROVE  ReviewedOK'
  <1> USE DEF mem
  <1>1. FsOK /\ saved \subseteq Works /\ Files \subseteq Paths /\ at \in Paths
        /\ orig \in [Paths -> Entries] /\ cand \in [Paths -> Entries]
        /\ edits \in 0..MaxEdits
    BY FileType DEF Inv, MemoryOK
  <1>2. saved' \subseteq saved /\ used' = used
    BY SavedShrinks
  <1>3. Missing.content \notin Works /\ Empty \notin Works /\ edits \notin Works
    BY <1>1, NoWork DEF Missing
  <1>4. ASSUME \A p \in Paths : /\ orig'[p].content \in {orig[p].content, Missing.content}
                                /\ cand'[p].content \in {cand[p].content, Missing.content,
                                                         Empty, edits}
        PROVE  ReviewedOK'
    BY <1>1, <1>2, <1>3, <1>4 DEF ReviewedOK
  <1>5. CASE Keeps
    BY <1>4, <1>5 DEF Keeps, NoEntries
  <1>6. CASE CreateJournal \/ MarkCandidate \/ MarkPlacement \/ MarkApplied
    <2>1. CASE Refuse
      BY <1>4, <2>1 DEF Refuse, Return, NoEntries
    <2>2. CASE UNCHANGED <<orig, cand>>
      BY <1>4, <2>2
    <2> QED
      BY <1>6, <2>1, <2>2 DEF CreateJournal, MarkCandidate, MarkPlacement, MarkApplied
  <1>7. CASE StageWrite \/ StageFails
    <2>1. orig' = orig
      BY <1>7 DEF StageWrite, StageFails, Abort, Discard
    <2>2. \/ cand' = cand
          \/ \E c \in {edits, Empty} : 
               cand' = [cand EXCEPT ![at] = [ino |-> rm.fd, content |-> c,
                                             stamp |-> inodes'[rm.fd].stamp]]
      BY <1>7 DEF StageWrite, StageFails
    <2>3. \A p \in Paths : cand'[p].content \in {cand[p].content, Empty, edits}
      BY <1>1, <2>2
    <2> QED
      BY <1>4, <2>1, <2>3
  <1>8. CASE (VerifyActive \/ ConfirmActive) /\ pc' # "idle"
    <2>1. \/ UNCHANGED <<orig, cand>>
          \/ /\ SameContent(cand[at], Entry(at, "target"))
             /\ Existed(at) => SameContent(orig[at], Entry(at, "stage"))
             /\ cand' = [cand EXCEPT ![at] = Entry(at, "target")]
             /\ orig' = [orig EXCEPT ![at] =
                            IF Existed(at) THEN Entry(at, "stage") ELSE Missing]
      BY <1>8 DEF VerifyActive, ConfirmActive, Refuse, Return
    <2>2. \A p \in Paths : /\ orig'[p].content \in {orig[p].content, Missing.content}
                           /\ cand'[p].content = cand[p].content
      BY <1>1, <2>1 DEF SameContent
    <2> QED
      BY <1>4, <2>2
  <1> QED
    BY <1>5, <1>6, <1>7, <1>8, KeepsRecords DEF Records

\* Where a descriptor is at hand, it was opened or kept.
LEMMA DescriptorLanding ==
    ASSUME Inv, Ordinary, pc' \in {"write", "mark"} \cup Opened
    PROVE  \/ StageCreate \/ StageWrite \/ CleanOpen
           \/ rm' = rm /\ pc \in {"write", "mark"} \cup Opened
  <1> USE DEF mem
  <1>0. pc' \in {"write", "mark", "quarantine", "quarantined", "scrub", "unlink"}
    BY DEF Opened
  <1>1. CASE Return
    BY <1>0, <1>1 DEF Return
  <1>2. CASE Abort
    BY <1>0, <1>2 DEF Abort, Discard, Goto
  <1>3. CASE Refuse
    BY <1>1, <1>3 DEF Refuse
  <1>4. CASE Cleaned \/ CleanupFails
    <2>1. pc' \in {"clear", "abort", "recheck_discard", "recheck_final", "clean", "idle",
                   "finalizing", "rename"}
      <3>1. rm.caller \in {"commit", "abort", "recover"}
        BY DEF Inv, MemoryOK, Removals
      <3> QED
        BY <1>4, <3>1 DEF Cleaned, CleanupFails, Advance, Goto, Return
    <2> QED
      BY <1>0, <2>1
  <1>5. CASE CreateJournal \/ MarkCandidate \/ StageFails
    BY <1>0, <1>2, <1>3, <1>5 DEF CreateJournal, MarkCandidate, StageFails, Goto
  <1>6. CASE RecheckStaged \/ EnterReplacing \/ Authorize \/ Rename
    BY <1>0, <1>2, <1>3, <1>6 DEF RecheckStaged, EnterReplacing, Authorize, Rename,
       ActivationFails, Goto
  <1>7. CASE VerifyActive \/ CheckRollback \/ ExchangeBack \/ MarkPlacement
    BY <1>0, <1>1, <1>2, <1>3, <1>7 DEF VerifyActive, CheckRollback, ExchangeBack,
       MarkPlacement, Discard, Goto
  <1>8. CASE SyncActive \/ ConfirmActive \/ MarkApplied
    BY <1>0, <1>3, <1>8 DEF SyncActive, ConfirmActive, MarkApplied, Advance, Goto
  <1>9. CASE EnterFinalizing \/ InspectCommitted \/ FinalizeEdit
    BY <1>0, <1>1, <1>3, <1>9 DEF EnterFinalizing, InspectCommitted, FinalizeEdit, Goto
  <1>10. CASE DiscardPrepared \/ ClearAborted \/ ClearDiscarded \/ Crash
    BY <1>0, <1>1, <1>3, <1>10 DEF DiscardPrepared, ClearAborted, ClearDiscarded, Crash, Goto
  <1>11. CASE Quarantine \/ VerifyQuarantine \/ Scrub \/ Unlink
    <2>1. Cleaned \/ CleanupFails \/ rm' = rm
      BY <1>11 DEF Quarantine, VerifyQuarantine, Scrub, Unlink
    <2>2. pc \in Opened
      BY <1>11 DEF Quarantine, VerifyQuarantine, Scrub, Unlink, Opened
    <2> QED
      BY <1>4, <2>1, <2>2
  <1>12. CASE Recovery \/ Resolve
    BY <1>0, <1>1, <1>3, <1>12 DEF Recovery, Resolve, AuthorizeDiscard, ClearDiscarded,
       ValidateCurrent, AuthorizeCurrent, RecheckCurrent, ResolveDiscard, ResolveCurrent,
       Goto
  <1>13. CASE HostCleanup \/ UNCHANGED vars
    BY <1>13 DEF HostCleanup, vars
  <1> QED
    BY <1>5, <1>6, <1>7, <1>8, <1>9, <1>10, <1>11, <1>12, <1>13
    DEF Ordinary, Service, Staging, Activation, Cleanup

\* The cleanup opens nobody's unreviewed work.
LEMMA RecognizedUnsaved ==
    ASSUME Inv, ReviewedOK, StaleOK(inodes, dir, disk, saved, journal.files),
           NEW s \in {"stage", "remove"}, Recognized(at, Entry(at, s))
    PROVE  dir[at][s] \in 1..Len(inodes) /\ inodes[dir[at][s]].content \notin saved
  <1>1. FsOK /\ at \in Files /\ at \in Paths /\ s \in Slots /\ rm \in Removals
        /\ saved \subseteq Works /\ journal.files[at] \in FileRecords
    BY FileType, SlotNames DEF Inv, MemoryOK
  <1>2. /\ Entry(at, s).ino = dir[at][s]
        /\ dir[at][s] # 0 => Entry(at, s).content = inodes[dir[at][s]].content
        /\ dir[at][s] # 0 => Entry(at, s).stamp = inodes[dir[at][s]].stamp
    BY <1>1, EntryFacts
  <1>3. rm.caller \in {"commit", "abort", "recover"}
    BY <1>1 DEF Removals
  <1>4. dir[at][s] # 0
    BY <1>2, <1>3 DEF Recognized, SameContent, SamePlacement, Exists
  <1>5. dir[at][s] \in 1..Len(inodes)
    BY <1>1, <1>4, IdRange
  <1>6. CASE rm.caller = "commit"
    BY <1>1, <1>2, <1>4, <1>5, <1>6 DEF Recognized, SameContent, ReviewedOK
  <1>7. CASE rm.caller = "abort"
    BY <1>1, <1>2, <1>4, <1>5, <1>7 DEF Recognized, SameContent, ReviewedOK
  <1>8. CASE rm.caller = "recover"
    <2>1. PICK e \in {journal.files[at].original, journal.files[at].candidate} :
             SamePlacement(e, Entry(at, s))
      BY <1>8 DEF Recognized
    <2>2. e.ino = dir[at][s] /\ e.stamp = inodes[dir[at][s]].stamp
      BY <1>2, <1>4, <2>1 DEF SamePlacement
    <2>3. inodes[dir[at][s]].stamp \in Nat
      BY <1>1, <1>5, StampType
    <2>4. inodes[dir[at][s]].content \in saved =>
             Older(journal.files[at], dir[at][s], inodes[dir[at][s]].stamp)
      BY <1>1, <1>4 DEF StaleOK
    <2> QED
      BY <1>5, <2>1, <2>2, <2>3, <2>4 DEF Older
  <1> QED
    BY <1>3, <1>6, <1>7, <1>8

LEMMA DescriptorStep ==
    ASSUME Inv, ReviewedOK, FdOK, StaleOK(inodes, dir, disk, saved, journal.files),
           Preserves, Ordinary
    PROVE  FdOK'
  <1>1. FsOK /\ at \in Files /\ at \in Paths /\ rm \in Removals /\ saved \subseteq Works
        /\ edits \in 0..MaxEdits /\ saved' \subseteq saved
    BY FileType, SavedShrinks DEF Inv, MemoryOK
  <1> SUFFICES ASSUME pc' \in {"write", "mark"} \cup Opened
               PROVE  inodes'[rm'.fd].content \notin saved'
    BY DEF FdOK
  <1>2. CASE StageCreate
    <2>1. rm' = [rm EXCEPT !.fd = Len(inodes) + 1]
          /\ inodes' = Append(inodes, [content |-> Empty, stamp |-> 0])
      BY <1>2 DEF StageCreate, Abort, Discard, Goto, Opened
    <2>2. rm'.fd = Len(inodes) + 1 /\ inodes'[Len(inodes) + 1].content = Empty
      BY <1>1, <2>1 DEF Removals, FsOK
    <2> QED
      BY <1>1, <2>2, NoWork
  <1>3. CASE StageWrite
    <2>1. rm' = rm /\ inodes' = Write(rm.fd, edits) /\ pc = "write"
      BY <1>3 DEF StageWrite
    <2>2. rm.fd \in 1..Len(inodes) /\ DOMAIN inodes = 1..Len(inodes)
      BY <1>1, <2>1, OpenStage DEF Ids, FsOK
    <2>3. inodes'[rm.fd].content = edits
      BY <2>1, <2>2 DEF Write
    <2> QED
      BY <1>1, <2>1, <2>3, NoWork
  <1>4. CASE CleanOpen
    <2>0. rm.caller \in {"commit", "abort", "recover"}
      BY <1>1 DEF Removals
    <2>1. ~Cleaned /\ ~CleanupFails
      BY <2>0 DEF Cleaned, CleanupFails, Advance, Goto, Return, Opened
    <2>2. PICK s \in {"stage", "remove"} :
             /\ Recognized(at, Entry(at, s)) /\ UNCHANGED fs
             /\ rm' = [rm EXCEPT !.fd = dir[at][s], !.slot = s]
      BY <1>4, <2>1 DEF CleanOpen, OwnedSlots
    <2>3. rm'.fd = dir[at][s]
      BY <1>1, <2>2 DEF Removals
    <2> QED
      BY <1>1, <2>2, <2>3, RecognizedUnsaved DEF fs
  <1>5. CASE rm' = rm /\ pc \in {"write", "mark"} \cup Opened
    <2>1. rm.fd \in 1..Len(inodes) /\ inodes[rm.fd].content \notin saved
      BY <1>1, <1>5 DEF FdOK, Inv, DescriptorOK, Removals, Ids, FsOK
    <2> QED
      BY <1>1, <1>5, <2>1 DEF Preserves
  <1> QED
    BY <1>2, <1>3, <1>4, <1>5, DescriptorLanding

\* A call that ends drops its candidates.
LEMMA IdleLanding ==
    ASSUME Inv, Ordinary, pc' = "idle"
    PROVE  cand' = NoEntries \/ (pc = "idle" /\ cand' = cand)
  <1> USE DEF mem
  <1>1. CASE Return
    BY <1>1 DEF Return
  <1>2. ~Abort
    BY DEF Abort, Discard, Goto
  <1>3. CASE Refuse
    BY <1>1, <1>3 DEF Refuse
  <1>4. CASE Cleaned \/ CleanupFails
    <2>1. rm.caller \in {"commit", "abort", "recover"}
      BY DEF Inv, MemoryOK, Removals
    <2> QED
      BY <1>1, <1>4, <2>1 DEF Cleaned, CleanupFails, Advance, Goto
  <1>5. CASE Staging \/ StageFails
    BY <1>2, <1>3, <1>5 DEF Staging, CreateJournal, StageCreate, StageWrite, MarkCandidate,
       StageFails, Goto
  <1>6. CASE RecheckStaged \/ EnterReplacing \/ Authorize \/ Rename
    BY <1>2, <1>3, <1>6 DEF RecheckStaged, EnterReplacing, Authorize, Rename,
       ActivationFails, Goto
  <1>7. CASE VerifyActive \/ CheckRollback \/ ExchangeBack \/ MarkPlacement
    BY <1>1, <1>2, <1>3, <1>7 DEF VerifyActive, CheckRollback, ExchangeBack,
       MarkPlacement, Discard, Goto
  <1>8. CASE SyncActive \/ ConfirmActive \/ MarkApplied
    BY <1>3, <1>8 DEF SyncActive, ConfirmActive, MarkApplied, Advance, Goto
  <1>9. CASE EnterFinalizing \/ InspectCommitted \/ FinalizeEdit
    BY <1>1, <1>3, <1>9 DEF EnterFinalizing, InspectCommitted, FinalizeEdit, Goto
  <1>10. CASE DiscardPrepared \/ ClearAborted \/ ClearDiscarded \/ Crash
    BY <1>1, <1>3, <1>10 DEF DiscardPrepared, ClearAborted, ClearDiscarded, Crash, Goto
  <1>11. CASE CleanOpen \/ Quarantine \/ VerifyQuarantine \/ Scrub \/ Unlink
    <2>1. \/ Cleaned \/ CleanupFails
          \/ pc' \in {"quarantine", "quarantined", "scrub", "unlink"}
      BY <1>11 DEF CleanOpen, Quarantine, VerifyQuarantine, Scrub, Unlink, Goto
    <2> QED
      BY <1>4, <2>1
  <1>12. CASE Recovery \/ Resolve
    BY <1>1, <1>3, <1>12 DEF Recovery, Resolve, AuthorizeDiscard, ClearDiscarded,
       ValidateCurrent, AuthorizeCurrent, RecheckCurrent, ResolveDiscard, ResolveCurrent,
       Goto
  <1>13. CASE HostCleanup \/ UNCHANGED vars
    BY <1>13 DEF HostCleanup, vars
  <1> QED
    BY <1>5, <1>6, <1>7, <1>8, <1>9, <1>10, <1>11, <1>12, <1>13
    DEF Ordinary, Service, Activation, Cleanup

\* Recovery does not turn into a commit, and takes no record.
LEMMA StaysOut ==
    ASSUME Inv, Ordinary, ~InCommit
    PROVE  Keeps /\ ~InCommit'
  <1> USE DEF mem
  <1>0. /\ rm \in Removals
        /\ pc \in {"idle"} \cup Asking
             \/ (rm.caller = "recover"
                   /\ pc \in {"recheck_discard", "recheck_final", "finalize"} \cup Cleaning)
    BY DEF InCommit, Inv, PlaceOK, MemoryOK
  <1>1. pc \in {"idle", "recheck_discard", "recheck_final", "finalize"} \cup Asking \cup Cleaning
    BY <1>0
  <1>2. Keeps
    <2>1. ~Records
      BY <1>1 DEF Records, CreateJournal, StageWrite, MarkCandidate, StageFails,
         VerifyActive, ConfirmActive, MarkPlacement, MarkApplied, Asking, Cleaning, Opened
    <2> QED
      BY <2>1, KeepsRecords
  <1>3. CASE pc' \in {"idle"} \cup Asking
    BY <1>2, <1>3 DEF InCommit
  <1>4. CASE rm'.caller = "recover"
    BY <1>2, <1>4 DEF InCommit
  <1>5. CASE Return
    BY <1>3, <1>5 DEF Return
  <1>6. CASE Refuse
    BY <1>5, <1>6 DEF Refuse
  <1>7. CASE rm' = rm /\ rm.caller = "recover"
    BY <1>4, <1>7
  <1>8. CASE Staging \/ StageFails
    BY <1>1, <1>8 DEF Staging, CreateJournal, StageCreate, StageWrite, MarkCandidate,
       StageFails, Asking, Cleaning, Opened
  <1>9. CASE Activation
    <2>1. FinalizeEdit
      BY <1>1, <1>9 DEF Activation, RecheckStaged, EnterReplacing, Authorize, Rename,
         VerifyActive, CheckRollback, ExchangeBack, MarkPlacement, SyncActive,
         ConfirmActive, MarkApplied, EnterFinalizing, InspectCommitted, Asking, Cleaning,
         Opened
    <2> QED
      BY <1>5, <1>6, <2>1 DEF FinalizeEdit
  <1>10. CASE Cleanup
    <2>1. /\ CleanOpen \/ Quarantine \/ VerifyQuarantine \/ Scrub \/ Unlink
          /\ rm.caller = "recover"
      <3>1. pc \notin {"abort", "clear"}
        BY <1>1 DEF Asking, Cleaning, Opened
      <3>2. CleanOpen \/ Quarantine \/ VerifyQuarantine \/ Scrub \/ Unlink
        BY <1>10, <3>1 DEF Cleanup, DiscardPrepared, ClearAborted
      <3>3. pc \notin {"idle"} \cup Asking
        BY <3>2 DEF CleanOpen, Quarantine, VerifyQuarantine, Scrub, Unlink, Asking
      <3> QED
        BY <1>0, <3>2, <3>3
    <2>2. CASE Cleaned \/ CleanupFails
      BY <1>5, <1>7, <2>1, <2>2 DEF Cleaned, CleanupFails
    <2>3. CASE \E s, i : rm' = [rm EXCEPT !.fd = i, !.slot = s]
      <3>1. rm'.caller = rm.caller
        BY <1>0, <2>3 DEF Removals
      <3> QED
        BY <1>4, <2>1, <3>1
    <2>4. CleanOpen => Cleaned \/ CleanupFails \/ \E s, i : rm' = [rm EXCEPT !.fd = i, !.slot = s]
      BY DEF CleanOpen
    <2> QED
      BY <1>7, <2>1, <2>2, <2>3, <2>4 DEF Quarantine, VerifyQuarantine, Scrub, Unlink
  <1>11. CASE AuthorizeDiscard \/ AuthorizeCurrent
    BY <1>4, <1>6, <1>11 DEF AuthorizeDiscard, AuthorizeCurrent, NoRemoval
  <1>12. CASE ClearDiscarded \/ Crash
    BY <1>5, <1>6, <1>12 DEF ClearDiscarded, Crash
  <1>13. CASE ValidateCurrent \/ Resolve
    BY <1>3, <1>6, <1>13 DEF ValidateCurrent, Resolve, ResolveDiscard, ResolveCurrent, Goto,
       Asking
  <1>14. CASE RecheckCurrent
    <2>1. rm.caller = "recover"
      BY <1>14 DEF RecheckCurrent, Inv, PlaceOK
    <2> QED
      BY <1>6, <1>7, <1>14, <2>1 DEF RecheckCurrent
  <1>15. CASE HostCleanup
    BY <1>3, <1>15 DEF HostCleanup
  <1>16. CASE UNCHANGED vars
    BY <1>2, <1>16 DEF vars, InCommit
  <1> QED
    BY <1>8, <1>9, <1>10, <1>11, <1>12, <1>13, <1>14, <1>15, <1>16
    DEF Ordinary, Service, Recovery

LEMMA NothingRecorded ==
    ASSUME NEW n, NEW d, NEW k, NEW works, Len(n) \in Nat
    PROVE  StaleOK(n, d, k, works, NoJournal.files)
  <1>1. \A f \in Files : \A e \in {NoJournal.files[f].original, NoJournal.files[f].candidate} :
           Ahead(e, n, k, works)
    BY AheadFacts DEF NoJournal, NoFile
  <1> QED
    BY <1>1, AheadStale

LEMMA OrdinaryKept ==
    ASSUME Inv, Inv', KeptInv, Ordinary
    PROVE  KeptInv'
  <1>1. FsOK /\ FsOK' /\ saved \subseteq Works /\ journal.files \in [Files -> FileRecords]
        /\ Len(inodes') \in Nat
    BY DEF Inv, MemoryOK, FsOK
  <1>2. Preserves /\ (Stays \/ InCommit) /\ used' = used
    BY OrdinaryPreserves, SavedShrinks DEF KeptInv
  <1>3. WorkOK(inodes', used') /\ KeptOK(inodes', dir', disk', saved')
    BY <1>1, <1>2, PreservesKept DEF KeptInv
  <1>4. ReviewedOK' /\ FdOK'
    BY <1>2, ReviewedStep, DescriptorStep DEF KeptInv
  <1>5. pc' = "idle" => cand' = NoEntries
    BY IdleLanding DEF KeptInv
  <1>6. RecordsOK' /\ StaleOK(inodes', dir', disk', saved', journal'.files)
    <2>1. CASE InCommit
      <3>1. AllAhead
        BY <2>1 DEF KeptInv, RecordsOK, AllAhead
      <3>2. AllAhead'
        BY <1>1, <1>2, <3>1, KeepsRecords, KeepsAhead, RecordsAhead DEF KeptInv
      <3>3. \A f \in Files : \A e \in {journal'.files[f].original, journal'.files[f].candidate} :
               Ahead(e, inodes', disk', saved')
        BY <3>2 DEF AllAhead
      <3> QED
        BY <1>1, <3>2, <3>3, AheadStale DEF RecordsOK, AllAhead
    <2>2. CASE ~InCommit
      <3>1. Keeps /\ ~InCommit' /\ Stays
        BY <1>2, <2>2, StaysOut
      <3>2. StaleOK(inodes', dir', disk', saved', journal.files)
        BY <1>1, <1>2, <3>1, PreservesStale DEF KeptInv
      <3>3. StaleOK(inodes', dir', disk', saved', NoJournal.files)
        BY <1>1, NothingRecorded
      <3> QED
        BY <3>1, <3>2, <3>3 DEF Keeps, RecordsOK
    <2> QED
      BY <2>1, <2>2
  <1> QED
    BY <1>3, <1>4, <1>5, <1>6 DEF KeptInv

LEMMA BeginKept ==
    ASSUME Inv, Inv', KeptInv, Begin
    PROVE  KeptInv'
  <1>1. FsOK /\ FsOK' /\ saved \subseteq Works /\ Len(inodes) \in Nat
        /\ selection \in [Paths -> Entries]
    BY DEF Inv, MemoryOK, FsOK
  <1>2. /\ pc = "idle" /\ ~Pending /\ pc' = "prepare"
        /\ UNCHANGED <<inodes, journal, cand, used>> /\ FreshNames
        /\ orig' = [p \in Paths |->
              IF Exists(selection[p]) THEN Entry(p, "target") ELSE Missing]
        /\ saved' = {w \in saved : \E p \in Paths :
                        ~Exists(selection[p]) /\ Entry(p, "target").content = w}
    BY DEF Begin, FreshNames, Goto, db
  <1>3. \A p \in Paths : /\ dir'[p].target = dir[p].target
                         /\ disk'[p].slots["target"] = dir[p].target
    BY <1>1, <1>2, BeginFs, Unjournaled
  <1>4. cand = NoEntries /\ journal = NoJournal
    BY <1>2 DEF KeptInv, Pending
  <1>5. Missing.content \notin Works
    BY PathsAssumption DEF Missing
  <1>6. ASSUME NEW p \in Paths, Entry(p, "target").content \in Works
        PROVE  /\ dir[p].target \in 1..Len(inodes)
               /\ Entry(p, "target").content = inodes[dir[p].target].content
               /\ Entry(p, "target").content \in used
    <2>1. dir[p].target # 0
      BY <1>1, <1>5, <1>6, EntryFacts, SlotNames
    <2>2. /\ dir[p].target \in 1..Len(inodes)
          /\ Entry(p, "target").content = inodes[dir[p].target].content
      BY <1>1, <2>1, IdRange, EntryFacts, SlotNames
    <2> QED
      BY <1>6, <2>2 DEF KeptInv, WorkOK
  <1>7. KeptOK(inodes', dir', disk', saved')
    <2> SUFFICES ASSUME NEW w \in saved'
                 PROVE  \E p \in Paths, s \in Slots, t \in Slots :
                           /\ dir'[p][s] # 0 /\ inodes'[dir'[p][s]].content = w
                           /\ disk'[p].slots[t] = dir'[p][s]
      BY DEF KeptOK
    <2>1. PICK p \in Paths : ~Exists(selection[p]) /\ Entry(p, "target").content = w
      BY <1>2
    <2>2. w \in Works
      BY <1>1, <1>2
    <2>3. dir'[p]["target"] # 0 /\ inodes'[dir'[p]["target"]].content = w
          /\ disk'[p].slots["target"] = dir'[p]["target"]
      BY <1>2, <1>3, <1>6, <2>1, <2>2
    <2> QED
      BY <2>3, SlotNames
  <1>8. ASSUME NEW p \in Paths
        PROVE  /\ orig'[p].content \notin saved'
               /\ orig'[p].content \in Works => orig'[p].content \in used
               /\ Ahead(orig'[p], inodes', disk', saved')
    <2>1. CASE Exists(selection[p])
      <3>1. orig'[p] = Entry(p, "target")
        BY <1>2, <2>1
      <3>2. ASSUME Entry(p, "target").content \in saved'
            PROVE  FALSE
        <4>1. PICK q \in Paths : /\ ~Exists(selection[q])
                                 /\ Entry(q, "target").content = Entry(p, "target").content
          BY <1>2, <3>2
        <4>2. Entry(p, "target").content \in Works
          BY <1>1, <1>2, <3>2
        <4>3. /\ dir[p].target \in 1..Len(inodes) /\ dir[q].target \in 1..Len(inodes)
              /\ inodes[dir[p].target].content = inodes[dir[q].target].content
              /\ inodes[dir[p].target].content \in Works
          BY <1>6, <4>1, <4>2
        <4>4. dir[p].target = dir[q].target
          BY <4>3 DEF KeptInv, WorkOK
        <4>5. Refers(p, dir[p].target) /\ Refers(q, dir[p].target) /\ dir[p].target \in Ids
          BY <1>1, <4>3, <4>4, SlotNames DEF Refers, Ids
        <4>6. p = q
          BY <1>1, <4>5 DEF FsOK
        <4> QED
          BY <2>1, <4>1, <4>6
      <3>3. Ahead(Entry(p, "target"), inodes', disk', saved')
        <4>1. /\ Entry(p, "target").ino = dir[p].target
              /\ dir[p].target # 0 => Entry(p, "target").content = inodes[dir[p].target].content
              /\ dir[p].target # 0 => Entry(p, "target").stamp = inodes[dir[p].target].stamp
          BY <1>1, EntryFacts, SlotNames
        <4>2. dir[p].target # 0 =>
                 dir[p].target \in 1..Len(inodes) /\ inodes[dir[p].target].stamp \in Nat
          BY <1>1, IdRange, StampType, SlotNames
        <4> QED
          BY <1>2, <3>2, <4>1, <4>2 DEF Ahead
      <3> QED
        BY <1>6, <3>1, <3>2, <3>3
    <2>2. CASE ~Exists(selection[p])
      <3>1. orig'[p] = Missing
        BY <1>2, <2>2
      <3> QED
        BY <1>1, <1>2, <1>5, <3>1, AheadFacts
    <2> QED
      BY <2>1, <2>2
  <1>9. ReviewedOK'
    BY <1>2, <1>4, <1>5, <1>8 DEF ReviewedOK, NoEntries
  <1>10. RecordsOK'
    <2>1. ASSUME NEW f \in Files
          PROVE  \A e \in {orig'[f], cand'[f], journal'.files[f].original,
                           journal'.files[f].candidate} : Ahead(e, inodes', disk', saved')
      <3>1. f \in Paths
        BY FileType
      <3>2. cand'[f] = Missing /\ journal'.files[f].original = Missing
            /\ journal'.files[f].candidate = Missing
        BY <1>2, <1>4, <3>1 DEF NoEntries, NoJournal, NoFile
      <3> QED
        BY <1>8, <3>1, <3>2, AheadFacts
    <2> QED
      BY <2>1 DEF RecordsOK
  <1>11. StaleOK(inodes', dir', disk', saved', journal'.files)
    BY <1>1, <1>2, <1>4, NothingRecorded
  <1>12. FdOK' /\ pc' # "idle" /\ WorkOK(inodes', used')
    BY <1>2 DEF FdOK, Opened, KeptInv
  <1> QED
    BY <1>7, <1>9, <1>10, <1>11, <1>12 DEF KeptInv

\* Somebody's save: the work w is in inode i, under name h of path p.
Saving(p, w, h, i) ==
    /\ Local(p) /\ FsOK' /\ SyncDirectory(p)
    /\ h \in {"target", "stage"} /\ dir'[p][h] = i /\ i # 0 /\ inodes'[i].content = w
    /\ \/ i = Len(inodes) + 1 /\ Len(inodes') = Len(inodes) + 1
       \/ /\ h = "target" /\ i = dir[p][h] /\ Len(inodes') = Len(inodes)
          /\ inodes'[i].stamp = inodes[i].stamp + 1
    /\ \A j \in 1..Len(inodes) : j # i => inodes'[j] = inodes[j]
    /\ \A s \in Slots : s # h => dir'[p][s] = dir[p][s]
    /\ saved' = (saved \ {Entry(p, h).content}) \cup {w}

LEMMA ExternalSaving ==
    ASSUME FsOK, NEW p \in Paths, NEW w \in Works, ExternalSave(p, w), SyncDirectory(p)
    PROVE  \E h, i : Saving(p, w, h, i)
  <1>0. /\ dir[p] \in [Slots -> Ids] /\ w \in Contents /\ Len(inodes) \in Nat
        /\ disk' = disk \/ SyncDirectory(p)
    BY DEF FsOK, Contents
  <1>2. ASSUME NEW h \in {"target", "stage"},
               inodes' = Append(inodes, [content |-> w, stamp |-> 0]),
               dir' = [dir EXCEPT ![p][h] = Len(inodes) + 1],
               saved' = (saved \ {Entry(p, h).content}) \cup {w}
        PROVE  Saving(p, w, h, Len(inodes) + 1)
    <2>1. h \in Slots
      BY SlotNames
    <2>2. /\ Local(p) /\ FsOK'
          /\ dir'[p] = [dir[p] EXCEPT ![h] = Len(inodes) + 1]
          /\ \A i \in 1..Len(inodes) : inodes'[i] = inodes[i]
          /\ inodes'[Len(inodes) + 1].content = w
          /\ Len(inodes') = Len(inodes) + 1
      BY <1>0, <1>2, <2>1, CreateLocal
    <2>3. /\ \A s \in Slots : s # h => dir'[p][s] = dir[p][s]
          /\ dir'[p][h] = Len(inodes) + 1 /\ Len(inodes) + 1 # 0
      BY <1>0, <2>1, <2>2
    <2> QED
      BY <1>2, <2>2, <2>3 DEF Saving
  <1>3. CASE ExternalReplace(p, w) \/ ExternalSubstitute(p, w)
    BY <1>2, <1>3 DEF ExternalReplace, ExternalSubstitute
  <1>4. CASE ExternalWrite(p, w)
    <2>1. dir[p].target # 0 /\ inodes' = Write(dir[p].target, w) /\ UNCHANGED dir
          /\ saved' = (saved \ {Entry(p, "target").content}) \cup {w}
      BY <1>4 DEF ExternalWrite
    <2>2. dir[p].target \in Ids /\ Refers(p, dir[p].target)
      BY <1>0, <2>1, SlotNames DEF Refers
    <2>3. \A q \in Paths : Refers(q, dir[p].target) => q = p
      BY <2>2 DEF FsOK
    <2>4. /\ Local(p) /\ FsOK' /\ Len(inodes') = Len(inodes)
          /\ \A j \in 1..Len(inodes) : j # dir[p].target => inodes'[j] = inodes[j]
          /\ inodes'[dir[p].target].content = w
          /\ inodes'[dir[p].target].stamp = inodes[dir[p].target].stamp + 1
      BY <1>0, <2>1, <2>2, <2>3, WriteLocal
    <2>5. Saving(p, w, "target", dir[p].target)
      BY <2>1, <2>4 DEF Saving
    <2> QED
      BY <2>5
  <1> QED
    BY <1>3, <1>4 DEF ExternalSave

LEMMA SavingFacts ==
    ASSUME FsOK, WorkOK(inodes, used), NEW p \in Paths, NEW w \in Works \ used,
           NEW h, NEW i, Saving(p, w, h, i)
    PROVE  /\ i \in 1..Len(inodes') /\ Len(inodes) \in Nat /\ Len(inodes') \in Nat
           /\ Len(inodes') >= Len(inodes) /\ h \in Slots
           /\ \A j \in 1..Len(inodes') : j # i =>
                 j \in 1..Len(inodes) /\ inodes'[j] = inodes[j] /\ inodes'[j].content # w
           /\ \A q \in Paths : q # p => dir'[q] = dir[q] /\ disk'[q] = disk[q]
           /\ \A q \in Paths, s \in Slots :
                 dir'[q][s] = i \/ disk'[q].slots[s] = i => q = p /\ s = h
           /\ disk'[p].slots = dir'[p]
           /\ \A s \in Slots : dir'[p][s] # 0 =>
                 disk'[p].stamp[s] = inodes'[dir'[p][s]].stamp
  <1>1. /\ FsOK' /\ Local(p) /\ SyncDirectory(p) /\ dir'[p][h] = i /\ i # 0
        /\ h \in {"target", "stage"}
        /\ \/ i = Len(inodes) + 1 /\ Len(inodes') = Len(inodes) + 1
           \/ i = dir[p][h] /\ Len(inodes') = Len(inodes)
        /\ \A j \in 1..Len(inodes) : j # i => inodes'[j] = inodes[j]
    BY DEF Saving
  <1>2. h \in Slots /\ Len(inodes) \in Nat
    BY <1>1, SlotNames DEF FsOK
  <1>3. dir[p][h] # 0 => dir[p][h] \in 1..Len(inodes)
    BY <1>2, IdRange
  <1>4. i \in 1..Len(inodes') /\ Len(inodes') \in Nat /\ Len(inodes') >= Len(inodes)
    BY <1>1, <1>2, <1>3
  <1>5. /\ disk'[p].slots = dir'[p]
        /\ \A s \in Slots : dir'[p][s] # 0 => disk'[p].stamp[s] = inodes'[dir'[p][s]].stamp
        /\ \A q \in Paths : q # p => disk'[q] = disk[q]
    BY <1>1, SyncStamps
  <1>6. \A q \in Paths : q # p => dir'[q] = dir[q]
    BY <1>1 DEF Local
  <1>7. ASSUME NEW j \in 1..Len(inodes'), j # i
        PROVE  j \in 1..Len(inodes) /\ inodes'[j] = inodes[j] /\ inodes'[j].content # w
    <2>1. j \in 1..Len(inodes)
      BY <1>1, <1>2, <1>7
    <2>2. inodes'[j] = inodes[j]
      BY <1>1, <1>7, <2>1
    <2>3. inodes[j].content # w
      BY <2>1 DEF WorkOK
    <2> QED
      BY <2>1, <2>2, <2>3
  <1>8. ASSUME NEW q \in Paths, NEW s \in Slots, dir'[q][s] = i \/ disk'[q].slots[s] = i
        PROVE  q = p /\ s = h
    <2>1. Refers(q, i)' /\ Refers(p, i)' /\ i \in Ids'
      BY <1>1, <1>2, <1>4, <1>8 DEF Refers, Ids
    <2>2. q = p
      BY <1>1, <2>1 DEF FsOK
    <2>3. dir'[p][s] = i
      BY <1>5, <1>8, <2>2
    <2> QED
      BY <1>1, <1>2, <2>2, <2>3 DEF FsOK, OneName
  <1> QED
    BY <1>2, <1>4, <1>5, <1>6, <1>7, <1>8

LEMMA SavingKept ==
    ASSUME FsOK, WorkOK(inodes, used), KeptOK(inodes, dir, disk, saved), saved \subseteq used,
           used \subseteq Works,
           NEW p \in Paths, NEW w \in Works \ used, NEW h, NEW i, Saving(p, w, h, i),
           used' = used \cup {w}
    PROVE  WorkOK(inodes', used') /\ KeptOK(inodes', dir', disk', saved')
  <1>1. /\ i \in 1..Len(inodes') /\ h \in Slots
        /\ \A j \in 1..Len(inodes') : j # i =>
              j \in 1..Len(inodes) /\ inodes'[j] = inodes[j] /\ inodes'[j].content # w
        /\ \A q \in Paths : q # p => dir'[q] = dir[q] /\ disk'[q] = disk[q]
        /\ disk'[p].slots = dir'[p]
    BY SavingFacts
  <1>2. /\ dir'[p][h] = i /\ i # 0 /\ inodes'[i].content = w
        /\ i = Len(inodes) + 1 \/ i = dir[p][h]
        /\ \A s \in Slots : s # h => dir'[p][s] = dir[p][s]
        /\ saved' = (saved \ {Entry(p, h).content}) \cup {w}
    BY DEF Saving
  <1>3. WorkOK(inodes', used')
    <2> SUFFICES ASSUME NEW j \in 1..Len(inodes'), inodes'[j].content \in Works
                 PROVE  /\ inodes'[j].content \in used'
                        /\ \A k \in 1..Len(inodes') :
                              inodes'[k].content = inodes'[j].content => k = j
      BY DEF WorkOK
    <2>1. CASE j = i
      BY <1>1, <1>2, <2>1
    <2>2. CASE j # i
      <3>1. j \in 1..Len(inodes) /\ inodes'[j] = inodes[j] /\ inodes'[j].content # w
        BY <1>1, <2>2
      <3>2. \A k \in 1..Len(inodes') : inodes'[k].content = inodes'[j].content =>
               k \in 1..Len(inodes) /\ inodes'[k] = inodes[k]
        BY <1>1, <1>2, <3>1
      <3> QED
        BY <3>1, <3>2 DEF WorkOK
    <2> QED
      BY <2>1, <2>2
  <1>4. ASSUME NEW v \in saved'
        PROVE  \E q \in Paths, s \in Slots, t \in Slots :
                  /\ dir'[q][s] # 0 /\ inodes'[dir'[q][s]].content = v
                  /\ disk'[q].slots[t] = dir'[q][s]
    <2>1. CASE v = w
      <3>1. dir'[p][h] # 0 /\ inodes'[dir'[p][h]].content = v /\ disk'[p].slots[h] = dir'[p][h]
        BY <1>1, <1>2, <2>1
      <3> QED
        BY <1>1, <3>1
    <2>2. CASE v # w
      <3>1. v \in saved /\ v # Entry(p, h).content
        BY <1>2, <2>2
      <3>2. PICK q \in Paths, s \in Slots, t \in Slots :
               /\ dir[q][s] # 0 /\ inodes[dir[q][s]].content = v
               /\ disk[q].slots[t] = dir[q][s]
        BY <3>1 DEF KeptOK
      <3>3. dir[q][s] \in 1..Len(inodes) /\ Len(inodes) \in Nat
        BY <3>2, IdRange
      <3>4. dir[p][h] # 0 => inodes[dir[p][h]].content # v
        BY <1>1, <3>1, EntryFacts
      <3>5. dir[q][s] # i
        BY <1>2, <3>2, <3>3, <3>4
      <3>6. inodes'[dir[q][s]] = inodes[dir[q][s]]
        BY <3>3, <3>5 DEF Saving
      <3>7. CASE q # p
        BY <1>1, <3>2, <3>6, <3>7
      <3>8. CASE q = p
        <4>1. s # h
          BY <3>2, <3>4, <3>8
        <4>2. dir'[q][s] = dir[q][s] /\ disk'[q].slots[s] = dir[q][s]
          BY <1>1, <1>2, <3>8, <4>1
        <4> QED
          BY <3>2, <3>6, <4>2
      <3> QED
        BY <3>7, <3>8
    <2> QED
      BY <2>1, <2>2
  <1> QED
    BY <1>3, <1>4 DEF KeptOK

\* A save leaves every record behind: it moves the stamp, or the inode is new.
LEMMA SavingAhead ==
    ASSUME FsOK, WorkOK(inodes, used), saved \subseteq used, used \subseteq Works,
           NEW p \in Paths, NEW w \in Works \ used, NEW h, NEW i, Saving(p, w, h, i),
           NEW e \in Entries, Ahead(e, inodes, disk, saved)
    PROVE  Ahead(e, inodes', disk', saved')
  <1> SUFFICES ASSUME e.ino # 0
               PROVE  /\ e.ino \in 1..Len(inodes') /\ e.stamp <= inodes'[e.ino].stamp
                      /\ inodes'[e.ino].content \in saved' =>
                            /\ e.stamp < inodes'[e.ino].stamp
                            /\ \A q \in Paths, t \in Slots : disk'[q].slots[t] = e.ino =>
                                  e.stamp < disk'[q].stamp[t]
    BY DEF Ahead
  <1>1. /\ e.ino \in 1..Len(inodes) /\ e.stamp <= inodes[e.ino].stamp
        /\ inodes[e.ino].content \in saved =>
              /\ e.stamp < inodes[e.ino].stamp
              /\ \A q \in Paths, t \in Slots : disk[q].slots[t] = e.ino =>
                    e.stamp < disk[q].stamp[t]
    BY DEF Ahead
  <1>2. /\ i \in 1..Len(inodes') /\ Len(inodes) \in Nat /\ Len(inodes') \in Nat
        /\ Len(inodes') >= Len(inodes) /\ h \in Slots
        /\ \A j \in 1..Len(inodes') : j # i =>
              j \in 1..Len(inodes) /\ inodes'[j] = inodes[j] /\ inodes'[j].content # w
        /\ \A q \in Paths : q # p => dir'[q] = dir[q] /\ disk'[q] = disk[q]
        /\ \A q \in Paths, s \in Slots :
              dir'[q][s] = i \/ disk'[q].slots[s] = i => q = p /\ s = h
        /\ disk'[p].slots = dir'[p]
        /\ \A s \in Slots : dir'[p][s] # 0 =>
              disk'[p].stamp[s] = inodes'[dir'[p][s]].stamp
    BY SavingFacts
  <1>3. e.ino \in 1..Len(inodes') /\ e.stamp \in Nat /\ inodes[e.ino].stamp \in Nat
    BY <1>1, <1>2, StampType DEF Entries
  <1>4. CASE e.ino = i
    <2>1. inodes'[i].stamp = inodes[i].stamp + 1
      BY <1>1, <1>2, <1>4 DEF Saving
    <2>2. e.stamp < inodes'[e.ino].stamp /\ e.stamp <= inodes'[e.ino].stamp
      BY <1>1, <1>3, <1>4, <2>1
    <2>3. ASSUME NEW q \in Paths, NEW t \in Slots, disk'[q].slots[t] = e.ino
          PROVE  e.stamp < disk'[q].stamp[t]
      <3>1. q = p /\ dir'[p][t] = e.ino
        BY <1>2, <1>4, <2>3
      <3> QED
        BY <1>2, <2>2, <3>1
    <2> QED
      BY <1>3, <2>2, <2>3
  <1>5. CASE e.ino # i
    <2>1. inodes'[e.ino] = inodes[e.ino] /\ inodes'[e.ino].content # w
      BY <1>2, <1>3, <1>5
    <2>2. ASSUME inodes'[e.ino].content \in saved'
          PROVE  /\ e.stamp < inodes'[e.ino].stamp
                 /\ \A q \in Paths, t \in Slots : disk'[q].slots[t] = e.ino =>
                       e.stamp < disk'[q].stamp[t]
      <3>1. inodes[e.ino].content \in saved
        BY <2>1, <2>2 DEF Saving
      <3>2. e.stamp < inodes'[e.ino].stamp
        BY <1>1, <2>1, <3>1
      <3>3. ASSUME NEW q \in Paths, NEW t \in Slots, disk'[q].slots[t] = e.ino
            PROVE  e.stamp < disk'[q].stamp[t]
        <4>1. CASE q = p
          BY <1>2, <3>2, <3>3, <4>1
        <4>2. CASE q # p
          BY <1>1, <1>2, <3>1, <3>3, <4>2
        <4> QED
          BY <4>1, <4>2
      <3> QED
        BY <3>2, <3>3
    <2> QED
      BY <1>1, <1>3, <2>1, <2>2
  <1> QED
    BY <1>4, <1>5

LEMMA SavingStale ==
    ASSUME FsOK, WorkOK(inodes, used), saved \subseteq used, used \subseteq Works,
           NEW p \in Paths, NEW w \in Works \ used, NEW h, NEW i, Saving(p, w, h, i),
           NEW j \in [Files -> FileRecords], StaleOK(inodes, dir, disk, saved, j)
    PROVE  StaleOK(inodes', dir', disk', saved', j)
  <1>1. /\ i \in 1..Len(inodes') /\ Len(inodes) \in Nat /\ Len(inodes') \in Nat
        /\ Len(inodes') >= Len(inodes) /\ h \in Slots
        /\ \A k \in 1..Len(inodes') : k # i =>
              k \in 1..Len(inodes) /\ inodes'[k] = inodes[k] /\ inodes'[k].content # w
        /\ \A q \in Paths : q # p => dir'[q] = dir[q] /\ disk'[q] = disk[q]
        /\ \A q \in Paths, s \in Slots :
              dir'[q][s] = i \/ disk'[q].slots[s] = i => q = p /\ s = h
        /\ disk'[p].slots = dir'[p]
        /\ \A s \in Slots : dir'[p][s] # 0 =>
              disk'[p].stamp[s] = inodes'[dir'[p][s]].stamp
    BY SavingFacts
  <1> SUFFICES ASSUME NEW f \in Files
               PROVE  /\ \A e \in {j[f].original, j[f].candidate} : e.ino \in 0..Len(inodes')
                      /\ \A s \in {"stage", "remove"} :
                            /\ dir'[f][s] # 0 /\ inodes'[dir'[f][s]].content \in saved' =>
                                  Older(j[f], dir'[f][s], inodes'[dir'[f][s]].stamp)
                            /\ disk'[f].slots[s] # 0
                                  /\ inodes'[disk'[f].slots[s]].content \in saved' =>
                                  Older(j[f], disk'[f].slots[s], disk'[f].stamp[s])
    BY DEF StaleOK
  <1>2. f \in Paths /\ FsOK'
    BY FileType DEF Saving
  <1>3. \A e \in {j[f].original, j[f].candidate} : e.ino \in 0..Len(inodes)
    BY DEF StaleOK
  <1>4. \A e \in {j[f].original, j[f].candidate} : e.ino \in 0..Len(inodes')
    BY <1>1, <1>3
  <1>5. ASSUME NEW s \in {"stage", "remove"}, dir'[f][s] # 0,
               inodes'[dir'[f][s]].content \in saved'
        PROVE  Older(j[f], dir'[f][s], inodes'[dir'[f][s]].stamp)
    <2>0. s \in Slots
      BY SlotNames
    <2>1. CASE dir'[f][s] = i
      <3>1. s = h /\ f = p
        BY <1>1, <1>2, <2>0, <2>1
      <3>2. i = Len(inodes) + 1
        BY <3>1 DEF Saving
      <3> QED
        BY <1>1, <1>3, <2>1, <3>2 DEF Older
    <2>2. CASE dir'[f][s] # i
      <3>1. dir'[f][s] = dir[f][s]
        BY <1>1, <1>2, <2>0, <2>2 DEF Saving
      <3>2. dir[f][s] \in 1..Len(inodes)
        BY <1>2, <1>5, <2>0, <3>1, IdRange
      <3>3. inodes'[dir[f][s]] = inodes[dir[f][s]] /\ inodes'[dir[f][s]].content # w
        BY <1>1, <2>2, <3>1, <3>2
      <3>4. inodes[dir[f][s]].content \in saved
        BY <1>5, <3>1, <3>3 DEF Saving
      <3> QED
        BY <1>5, <3>1, <3>3, <3>4 DEF StaleOK
    <2> QED
      BY <2>1, <2>2
  <1>6. ASSUME NEW s \in {"stage", "remove"}, disk'[f].slots[s] # 0,
               inodes'[disk'[f].slots[s]].content \in saved'
        PROVE  Older(j[f], disk'[f].slots[s], disk'[f].stamp[s])
    <2>0. s \in Slots
      BY SlotNames
    <2>1. CASE f = p
      BY <1>1, <1>5, <1>6, <2>0, <2>1
    <2>2. CASE f # p
      <3>1. disk'[f] = disk[f]
        BY <1>1, <1>2, <2>2
      <3>2. disk[f].slots[s] \in 1..Len(inodes) /\ disk[f].slots[s] # i
        BY <1>1, <1>2, <1>6, <2>0, <2>2, <3>1, IdRange
      <3>3. /\ inodes'[disk[f].slots[s]] = inodes[disk[f].slots[s]]
            /\ inodes'[disk[f].slots[s]].content # w
        BY <1>1, <3>2
      <3>4. inodes[disk[f].slots[s]].content \in saved
        BY <1>6, <3>1, <3>3 DEF Saving
      <3> QED
        BY <1>6, <3>1, <3>4 DEF StaleOK
    <2> QED
      BY <2>1, <2>2
  <1> QED
    BY <1>4, <1>5, <1>6

LEMMA ExternalKept ==
    ASSUME Inv, Inv', KeptInv, External
    PROVE  KeptInv'
  <1>1. PICK p \in Paths, w \in Works \ used :
          /\ ExternalSave(p, w) /\ SyncDirectory(p) /\ used' = used \cup {w}
          /\ UNCHANGED <<db, pc, at, mem, edits, faults, adopted>>
    BY DEF External, ExternalSave
  <1>2. /\ FsOK /\ saved \subseteq used /\ used \subseteq Works
        /\ WorkOK(inodes, used) /\ KeptOK(inodes, dir, disk, saved)
        /\ journal.files \in [Files -> FileRecords] /\ Len(inodes') \in Nat
        /\ orig \in [Paths -> Entries] /\ cand \in [Paths -> Entries] /\ at \in Paths
    BY FileType DEF Inv, MemoryOK, FsOK, KeptInv
  <1>3. PICK h, i : Saving(p, w, h, i)
    BY <1>1, <1>2, ExternalSaving
  <1>4. /\ UNCHANGED <<journal, pc, orig, cand, rm>>
        /\ saved' \subseteq saved \cup {w}
    BY <1>1, <1>3 DEF db, mem, Saving
  <1>5. WorkOK(inodes', used') /\ KeptOK(inodes', dir', disk', saved')
    BY <1>1, <1>2, <1>3, SavingKept
  <1>6. RecordsOK'
    <2> SUFFICES ASSUME InCommit', NEW f \in Files
                 PROVE  \A e \in {orig[f], cand[f], journal.files[f].original,
                                  journal.files[f].candidate} :
                           Ahead(e, inodes', disk', saved')
      BY <1>4 DEF RecordsOK
    <2>1. InCommit
      BY <1>4 DEF InCommit
    <2>2. \A e \in {orig[f], cand[f], journal.files[f].original,
                    journal.files[f].candidate} :
             e \in Entries /\ Ahead(e, inodes, disk, saved)
      BY <1>2, <2>1, FileType DEF KeptInv, RecordsOK, FileRecords
    <2> QED
      BY <1>2, <1>3, <2>2, SavingAhead
  <1>7. StaleOK(inodes', dir', disk', saved', journal'.files)
    BY <1>2, <1>3, <1>4, SavingStale DEF KeptInv
  <1>8. ReviewedOK'
    BY <1>1, <1>4 DEF KeptInv, ReviewedOK
  <1>9. FdOK'
    <2> SUFFICES ASSUME pc \in {"write", "mark"} \cup Opened
                 PROVE  inodes'[rm.fd].content \notin saved'
      BY <1>4 DEF FdOK
    <2>1. /\ rm.fd \in 1..Len(inodes) /\ Len(inodes) \in Nat /\ dir[at].target # rm.fd
          /\ \A q \in Paths : Refers(q, rm.fd) => q = at
      BY <1>2 DEF Inv, MemoryOK, DescriptorOK, Removals, Ids, FsOK
    <2>2. inodes[rm.fd].content \notin saved /\ inodes[rm.fd].content # w
      BY <1>1, <2>1 DEF KeptInv, FdOK, WorkOK
    <2>3. rm.fd # i
      <3>1. CASE i = Len(inodes) + 1
        BY <2>1, <3>1
      <3>2. CASE h = "target" /\ i = dir[p][h]
        <4> SUFFICES ASSUME rm.fd = i  PROVE FALSE
          OBVIOUS
        <4>1. dir[p]["target"] = rm.fd /\ rm.fd # 0
          BY <2>1, <3>2
        <4>2. Refers(p, rm.fd)
          BY <4>1, SlotNames DEF Refers
        <4> QED
          BY <2>1, <4>1, <4>2
      <3> QED
        BY <1>3, <3>1, <3>2 DEF Saving
    <2>4. inodes'[rm.fd] = inodes[rm.fd]
      BY <1>3, <2>1, <2>3 DEF Saving
    <2> QED
      BY <1>4, <2>2, <2>4
  <1>10. pc' = "idle" => cand' = NoEntries
    BY <1>4 DEF KeptInv
  <1> QED
    BY <1>5, <1>6, <1>7, <1>8, <1>9, <1>10 DEF KeptInv

\* After a power failure a name shows the stamp it had, in memory or on disk.
LEMMA PowerStamps ==
    ASSUME FsOK, PowerFailure, NEW p \in Paths, NEW s \in Slots, dir'[p][s] # 0
    PROVE  /\ disk'[p].stamp[s] = inodes'[dir'[p][s]].stamp
           /\ \/ /\ dir'[p][s] = dir[p][s]
                 /\ inodes'[dir'[p][s]].stamp = inodes[dir[p][s]].stamp
              \/ /\ dir'[p][s] = disk[p].slots[s]
                 /\ inodes'[dir'[p][s]].stamp = disk[p].stamp[s]
  <1>0. Len(inodes) \in Nat /\ DOMAIN inodes = 1..Len(inodes)
    BY DEF FsOK
  <1>1. PICK lost \in SUBSET Paths :
          /\ dir' = [q \in Paths |-> IF q \in lost THEN disk[q].slots ELSE dir[q]]
          /\ inodes' = [i \in DOMAIN inodes |->
                IF \E q \in lost, t \in Slots : disk[q].slots[t] = i
                THEN [inodes[i] EXCEPT !.stamp =
                        LET where == CHOOSE ps \in lost \X Slots :
                                        disk[ps[1]].slots[ps[2]] = i
                        IN disk[where[1]].stamp[where[2]]]
                ELSE inodes[i]]
          /\ disk' = [q \in Paths |-> Synced(q, dir', inodes')[q]]
    BY DEF PowerFailure
  <1>2. disk'[p].stamp[s] = inodes'[dir'[p][s]].stamp
    BY <1>1 DEF Synced, FsOK
  <1>3. CASE p \notin lost
    <2> DEFINE i == dir[p][s]
    <2>1. dir'[p][s] = i /\ i # 0
      BY <1>1, <1>3
    <2>2. i \in 1..Len(inodes)
      BY <2>1, IdRange
    <2>3. ASSUME NEW q \in lost, NEW t \in Slots, disk[q].slots[t] = i
          PROVE  FALSE
      <3>1. Refers(q, i) /\ Refers(p, i) /\ i \in Ids /\ q \in Paths
        BY <1>0, <2>1, <2>2, <2>3 DEF Refers, Ids
      <3>2. q = p
        BY <3>1 DEF FsOK
      <3> QED
        BY <1>3, <3>2
    <2>4. inodes'[i] = inodes[i]
      BY <1>0, <1>1, <2>2, <2>3
    <2> QED
      BY <1>2, <2>1, <2>4
  <1>4. CASE p \in lost
    <2> DEFINE i == disk[p].slots[s]
               where == CHOOSE ps \in lost \X Slots : disk[ps[1]].slots[ps[2]] = i
    <2>1. dir'[p][s] = i /\ i # 0
      BY <1>1, <1>4
    <2>2. i \in 1..Len(inodes)
      BY <2>1, IdRange
    <2>3. \E ps \in lost \X Slots : disk[ps[1]].slots[ps[2]] = i
      <3>1. <<p, s>> \in lost \X Slots /\ <<p, s>>[1] = p /\ <<p, s>>[2] = s
        BY <1>4
      <3> QED
        BY <3>1
    <2>4. where \in lost \X Slots /\ disk[where[1]].slots[where[2]] = i
      BY <2>3
    <2>5. inodes'[i] = [inodes[i] EXCEPT !.stamp = disk[where[1]].stamp[where[2]]]
      BY <1>0, <1>1, <1>4, <2>2
    <2> HIDE DEF where
    <2>6. where[1] \in Paths /\ where[2] \in Slots
      BY <2>4
    <2>7. Refers(where[1], i) /\ Refers(p, i) /\ i \in Ids
      BY <1>0, <2>1, <2>2, <2>4, <2>6 DEF Refers, Ids
    <2>8. where[1] = p
      BY <2>6, <2>7 DEF FsOK
    <2>9. where[2] = s
      BY <2>1, <2>4, <2>6, <2>8 DEF FsOK, OneName
    <2>10. inodes[i] \in INode
      BY <2>2, ElementOfSeq DEF FsOK
    <2>11. inodes'[i].stamp = disk[p].stamp[s]
      BY <2>5, <2>8, <2>9, <2>10 DEF INode
    <2> QED
      BY <1>2, <2>1, <2>11
  <1> QED
    BY <1>3, <1>4

LEMMA PowerFailureKept ==
    ASSUME Inv, Inv', KeptInv, PowerFailure
    PROVE  KeptInv'
  <1>1. FsOK /\ Len(inodes) \in Nat
    BY DEF Inv, FsOK
  <1>2. /\ Len(inodes') = Len(inodes)
        /\ \A p \in Paths :
              /\ dir'[p] \in {dir[p], disk[p].slots}
              /\ disk'[p].slots = dir'[p]
        /\ \A i \in 1..Len(inodes) : inodes'[i].content = inodes[i].content
    BY <1>1, PowerFailureFs
  <1>3. /\ pc' = "idle" /\ orig' = NoEntries /\ cand' = NoEntries
        /\ UNCHANGED <<journal, saved, used>>
    BY DEF PowerFailure, Return, db, history
  <1>4. WorkOK(inodes', used')
    BY <1>2, <1>3 DEF KeptInv, WorkOK
  <1>5. ASSUME NEW w \in saved
        PROVE  \E p \in Paths, s \in Slots, t \in Slots :
                  /\ dir'[p][s] # 0 /\ inodes'[dir'[p][s]].content = w
                  /\ disk'[p].slots[t] = dir'[p][s]
    <2>1. PICK p \in Paths, s \in Slots, t \in Slots :
             /\ dir[p][s] # 0 /\ inodes[dir[p][s]].content = w
             /\ disk[p].slots[t] = dir[p][s]
      BY DEF KeptInv, KeptOK
    <2>2. dir[p][s] \in 1..Len(inodes)
      BY <1>1, <2>1, IdRange
    <2>3. inodes'[dir[p][s]].content = w
      BY <1>2, <2>1, <2>2
    <2>4. PICK u \in Slots : dir'[p][u] = dir[p][s]
      BY <1>2, <2>1
    <2> QED
      BY <1>2, <2>1, <2>3, <2>4
  <1>6. ASSUME NEW f \in Files, NEW s \in {"stage", "remove"}, dir'[f][s] # 0,
               inodes'[dir'[f][s]].content \in saved
        PROVE  /\ Older(journal.files[f], dir'[f][s], inodes'[dir'[f][s]].stamp)
               /\ Older(journal.files[f], dir'[f][s], disk'[f].stamp[s])
    <2>1. f \in Paths /\ s \in Slots
      BY FileType, SlotNames
    <2>2. /\ disk'[f].stamp[s] = inodes'[dir'[f][s]].stamp
          /\ \/ /\ dir'[f][s] = dir[f][s]
                /\ inodes'[dir'[f][s]].stamp = inodes[dir[f][s]].stamp
             \/ /\ dir'[f][s] = disk[f].slots[s]
                /\ inodes'[dir'[f][s]].stamp = disk[f].stamp[s]
      BY <1>1, <1>6, <2>1, PowerStamps
    <2>3. CASE /\ dir'[f][s] = dir[f][s]
               /\ inodes'[dir'[f][s]].stamp = inodes[dir[f][s]].stamp
      <3>1. inodes[dir[f][s]].content \in saved
        BY <1>1, <1>2, <1>6, <2>1, <2>3, IdRange
      <3>2. Older(journal.files[f], dir[f][s], inodes[dir[f][s]].stamp)
        BY <1>6, <2>3, <3>1 DEF KeptInv, StaleOK
      <3> QED
        BY <2>2, <2>3, <3>2
    <2>4. CASE /\ dir'[f][s] = disk[f].slots[s]
               /\ inodes'[dir'[f][s]].stamp = disk[f].stamp[s]
      <3>1. inodes[disk[f].slots[s]].content \in saved
        BY <1>1, <1>2, <1>6, <2>1, <2>4, IdRange
      <3>2. Older(journal.files[f], disk[f].slots[s], disk[f].stamp[s])
        BY <1>6, <2>4, <3>1 DEF KeptInv, StaleOK
      <3> QED
        BY <2>2, <2>4, <3>2
    <2> QED
      BY <2>2, <2>3, <2>4
  <1>7. \A f \in Files : \A e \in {journal.files[f].original, journal.files[f].candidate} :
           e.ino \in 0..Len(inodes')
    BY <1>2 DEF KeptInv, StaleOK
  <1>8. StaleOK(inodes', dir', disk', saved', journal'.files)
    BY <1>2, <1>3, <1>6, <1>7, FileType DEF StaleOK
  <1>9. KeptOK(inodes', dir', disk', saved')
    BY <1>3, <1>5 DEF KeptOK
  <1>10. RecordsOK' /\ FdOK'
    BY <1>3 DEF RecordsOK, InCommit, FdOK, Opened
  <1>11. ReviewedOK'
    <2>1. Missing.content \notin Works /\ saved \subseteq Works
      BY PathsAssumption DEF Missing, Inv, MemoryOK
    <2> QED
      BY <1>3, <2>1 DEF ReviewedOK, NoEntries
  <1> QED
    BY <1>3, <1>4, <1>8, <1>9, <1>10, <1>11 DEF KeptInv

LEMMA InitKept == Init => KeptInv
  <1> SUFFICES ASSUME Init  PROVE KeptInv
    OBVIOUS
  <1>1. /\ pc = "idle" /\ orig = NoEntries /\ cand = NoEntries /\ journal = NoJournal
        /\ saved = {} /\ used = {}
        /\ inodes = [p \in 1..NumPaths |-> [content |-> 0, stamp |-> 0]]
    BY DEF Init
  <1>2. Missing.content \notin Works /\ 0 \notin Works
    BY PathsAssumption DEF Missing
  <1>3. Len(inodes) = NumPaths /\ NumPaths \in Nat
    BY <1>1, PathsAssumption
  <1>4. WorkOK(inodes, used)
    BY <1>1, <1>2, <1>3 DEF WorkOK
  <1>5. KeptOK(inodes, dir, disk, saved)
    BY <1>1 DEF KeptOK
  <1>6. StaleOK(inodes, dir, disk, saved, journal.files)
    BY <1>1, <1>3, NothingRecorded
  <1>7. ReviewedOK
    BY <1>1, <1>2 DEF ReviewedOK, NoEntries
  <1>8. RecordsOK /\ FdOK
    BY <1>1 DEF RecordsOK, InCommit, FdOK, Opened
  <1> QED
    BY <1>1, <1>4, <1>5, <1>6, <1>7, <1>8 DEF KeptInv

LEMMA KeptNext == ASSUME Inv, Inv', KeptInv, [Next]_vars  PROVE KeptInv'
  BY OrdinaryKept, BeginKept, ExternalKept, PowerFailureKept DEF Next, Ordinary

\* Whatever the service, its crashes, power failures and the operator do, and
\* whatever fsync orders, every piece of work another program saved and nobody
\* has reviewed or replaced since is under some name, in memory and on disk.
THEOREM ExternalTheorem == Spec => []ExternalWorkKept
  <1>1. Inv /\ KeptInv /\ [Next]_vars /\ Inv' => KeptInv'
    BY KeptNext
  <1>2. Inv /\ KeptInv => ExternalWorkKept
    <2> SUFFICES ASSUME Inv, KeptInv, NEW w \in saved
                 PROVE  /\ \E p \in Paths : Holds(dir[p], w)
                        /\ \E p \in Paths : Holds(disk[p].slots, w)
      BY DEF ExternalWorkKept
    <2>1. PICK p \in Paths, s \in Slots, t \in Slots :
             /\ dir[p][s] # 0 /\ inodes[dir[p][s]].content = w
             /\ disk[p].slots[t] = dir[p][s]
      BY DEF KeptInv, KeptOK
    <2> QED
      BY <2>1 DEF Holds
  <1>3. Spec => [](Inv /\ KeptInv)
    BY Invariance, InitKept, <1>1, PTL DEF Spec
  <1> QED
    BY <1>2, <1>3, PTL

-----------------------------------------------------------------------------
(* The classification is true.                                             *)

\* No file has the content of an edit that has not begun.
BoundOK(n, v) == \A i \in 1..Len(n) : n[i].content \in Nat => n[i].content <= v

\* The identity e of a candidate of file f is worth something: where it fits an
\* inode, that inode has the content v.  What has the active name is not older
\* than e, in memory and on disk, so that a later save is ahead of it.
Sound(e, f, n, d, k, v) ==
    e.ino # 0 =>
        /\ e.ino \in 1..Len(n)
        /\ n[e.ino].content # v =>
              /\ e.stamp < n[e.ino].stamp
              /\ \A p \in Paths, t \in Slots :
                    k[p].slots[t] = e.ino => e.stamp < k[p].stamp[t]
        /\ d[f].target = e.ino => e.stamp <= n[e.ino].stamp
        /\ k[f].slots["target"] = e.ino => e.stamp <= k[f].stamp["target"]
        /\ \A p \in Paths, s \in Slots :
              d[p][s] = e.ino \/ k[p].slots[s] = e.ino => p = f

SoundOK ==
    /\ \A f \in Files : Sound(journal.files[f].candidate, f, inodes, dir, disk, edits)
    /\ pc \in {"mark"} \cup Placed => Sound(cand[at], at, inodes, dir, disk, edits)

\* The reviewed files do not hold the candidate, and are never given it.
OldOK ==
    \A f \in Files : \A e \in {orig[f], journal.files[f].original} : e.ino # 0 =>
        e.ino \in 1..Len(inodes) /\ inodes[e.ino].content # edits

FreshOK ==
    pc \in {"write", "mark"} => \A f \in Files :
        rm.fd \notin {orig[f].ino, journal.files[f].original.ino,
                      journal.files[f].candidate.ino}

WrittenOK ==
    pc \in Activating \/ Committing => \A f \in Files : cand[f].content = edits

\* Where the renamed file is on disk already, it is there as it is.
RenamedOK ==
    pc \in {"verify"} \cup Placed =>
        (dir[at].target # 0 /\ disk[at].slots["target"] = dir[at].target =>
            disk[at].stamp["target"] = inodes[dir[at].target].stamp)

\* What is about to be scrubbed is not older than the journal.
OpenedOK ==
    pc \in Opened => \A f \in Files :
        journal.files[f].candidate.ino = rm.fd =>
            journal.files[f].candidate.stamp <= inodes[rm.fd].stamp

ClassInv ==
    /\ BoundOK(inodes, edits) /\ SoundOK /\ OldOK /\ FreshOK /\ WrittenOK
    /\ RenamedOK /\ OpenedOK

-----------------------------------------------------------------------------
\* What an ordinary step does to the bytes: only an open descriptor is written,
\* no inode moves to another path, and only commit renames active files.
Effect ==
    /\ \A i \in 1..Len(inodes') : i > Len(inodes) => inodes'[i].content = Empty
    /\ \A i \in 1..Len(inodes) : inodes'[i].content # inodes[i].content =>
          /\ i = rm.fd /\ inodes'[i].stamp = inodes[i].stamp + 1
          /\ \/ pc \in {"write", "mark"} /\ inodes'[i].content \in {edits, Empty}
             \/ /\ pc = "scrub" /\ inodes'[i].content = Empty
                /\ \A p \in Paths, s \in Slots :
                      disk'[p].slots[s] = i => disk'[p].stamp[s] = inodes'[i].stamp
    /\ \A q \in Paths, i \in 1..Len(inodes) : Refers(q, i)' => Refers(q, i)
    /\ InCommit \/ \A p \in Paths : dir'[p].target = dir[p].target

LEMMA LocalRefers ==
    ASSUME FsOK, NEW p \in Paths, Local(p)
    PROVE  \A q \in Paths, i \in 1..Len(inodes) : Refers(q, i)' => Refers(q, i)
  <1>1. \A q \in Paths : \A i : q # p => (Refers(q, i)' <=> Refers(q, i))
    BY DEF Local, Refers
  <1>2. \A i : Refers(p, i)' => Refers(p, i) \/ i > Len(inodes)
    BY DEF Local, Refers
  <1>3. Len(inodes) \in Nat
    BY DEF FsOK
  <1>4. \A i \in 1..Len(inodes) : ~(i > Len(inodes))
    BY <1>3
  <1> QED
    BY <1>1, <1>2, <1>4

LEMMA LocalEffect ==
    ASSUME FsOK, NEW p \in Paths, Local(p),
           \A i \in 1..Len(inodes') : i > Len(inodes) => inodes'[i].content = Empty,
           \A i \in 1..Len(inodes) : inodes'[i].content = inodes[i].content,
           InCommit \/ dir'[p].target = dir[p].target
    PROVE  Effect
  <1>1. \A q \in Paths, i \in 1..Len(inodes) : Refers(q, i)' => Refers(q, i)
    BY LocalRefers
  <1>2. InCommit \/ \A q \in Paths : dir'[q].target = dir[q].target
    BY DEF Local
  <1> QED
    BY <1>1, <1>2 DEF Effect

LEMMA QuietEffect == ASSUME FsOK, UNCHANGED fs  PROVE Effect
  <1>1. \A q, i : Refers(q, i)' <=> Refers(q, i)
    BY Nowhere
  <1>2. UNCHANGED <<inodes, dir>> /\ Len(inodes) \in Nat
    BY DEF fs, FsOK
  <1> QED
    BY <1>1, <1>2 DEF Effect

LEMMA SyncEffect ==
    ASSUME FsOK, NEW p \in Paths, UNCHANGED <<inodes, dir>>, SyncDirectory(p)
    PROVE  Effect
  <1>1. Local(p) /\ Len(inodes) \in Nat
    BY SyncLocal DEF FsOK
  <1> QED
    BY <1>1, LocalEffect

LEMMA WriteEffect ==
    ASSUME FsOK, NEW p \in Paths, NEW i \in Ids, i = rm.fd, i # 0, NEW c \in Contents,
           c \in {edits, Empty}, pc \in {"write", "mark"},
           \A q \in Paths : Refers(q, i) => q = p,
           inodes' = Write(i, c), UNCHANGED dir, disk' = disk \/ SyncDirectory(p)
    PROVE  Effect
  <1>1. /\ Local(p) /\ Len(inodes') = Len(inodes)
        /\ \A j \in 1..Len(inodes) : j # i => inodes'[j] = inodes[j]
        /\ inodes'[i].content = c /\ inodes'[i].stamp = inodes[i].stamp + 1
    BY WriteLocal
  <1>2. Len(inodes) \in Nat
    BY DEF FsOK
  <1>3. \A q \in Paths, j \in 1..Len(inodes) : Refers(q, j)' => Refers(q, j)
    BY <1>1, LocalRefers
  <1> QED
    BY <1>1, <1>2, <1>3 DEF Effect

LEMMA SwapEffect ==
    ASSUME FsOK, NEW p \in Paths, NEW a \in Slots, NEW b \in Slots, a # b,
           Swap(p, a, b), disk' = disk \/ SyncDirectory(p),
           InCommit \/ (a # "target" /\ b # "target")
    PROVE  Effect
  <1>1. /\ Local(p) /\ Len(inodes') = Len(inodes)
        /\ \A s \in Slots : s # a /\ s # b => dir'[p][s] = dir[p][s]
        /\ \A i \in 1..Len(inodes) : inodes'[i].content = inodes[i].content
    BY SwapLocal
  <1>2. Len(inodes) \in Nat
    BY DEF FsOK
  <1> QED
    BY <1>1, <1>2, LocalEffect, SlotNames

LEMMA RemoveEffect ==
    ASSUME FsOK, NEW p \in Paths, NEW s \in {"stage", "remove"}, UNCHANGED inodes,
           dir' = [dir EXCEPT ![p][s] = 0], disk' = disk \/ SyncDirectory(p)
    PROVE  Effect
  <1>1. s \in Slots
    BY SlotNames
  <1>2. Local(p) /\ \A t \in Slots : t # s => dir'[p][t] = dir[p][t]
    BY <1>1, RemoveLocal
  <1>3. Len(inodes) \in Nat
    BY DEF FsOK
  <1> QED
    BY <1>2, <1>3, LocalEffect, SlotNames

LEMMA ScrubEffect ==
    ASSUME FsOK, NEW p \in Paths, NEW i \in Ids, i = rm.fd, pc = "scrub", i # 0,
           \A q \in Paths : Refers(q, i) => q = p,
           ScrubOpenFile(p, i), UNCHANGED dir
    PROVE  Effect
  <1>1. /\ Local(p) /\ FsOK' /\ Len(inodes') = Len(inodes)
        /\ \A j \in 1..Len(inodes) : j # i => inodes'[j] = inodes[j]
        /\ inodes'[i].content = Empty
        /\ inodes'[i].stamp = inodes[i].stamp + 1
    BY ScrubLocal
  <1>2. Len(inodes) \in Nat /\ i \in 1..Len(inodes)
    BY DEF FsOK, Ids
  <1>3. \A q \in Paths, j \in 1..Len(inodes) : Refers(q, j)' => Refers(q, j)
    BY <1>1, LocalRefers
  <1>4. ASSUME NEW q \in Paths, NEW s \in Slots, disk'[q].slots[s] = i
        PROVE  disk'[q].stamp[s] = inodes'[i].stamp
    <2>1. q = p
      BY <1>2, <1>3, <1>4 DEF Refers
    <2>2. CASE FsyncOrders
      <3>1. SyncDirectory(p)
        BY <2>2 DEF ScrubOpenFile, SyncDirectory
      <3> QED
        BY <1>4, <2>1, <3>1, SyncStamps
    <2>3. CASE ~FsyncOrders
      <3> DEFINE stamp == [t \in Slots |-> IF disk[p].slots[t] = i
                                           THEN inodes'[i].stamp
                                           ELSE disk[p].stamp[t]]
      <3>1. disk' = [disk EXCEPT ![p].stamp = stamp]
        BY <2>3 DEF ScrubOpenFile
      <3>2. disk \in [Paths -> Disks]
        BY DEF FsOK
      <3>3. disk'[p].slots = disk[p].slots /\ disk'[p].stamp = stamp
        BY <3>1, <3>2 DEF Disks
      <3> QED
        BY <1>4, <2>1, <3>3
    <2> QED
      BY <2>2, <2>3
  <1> QED
    BY <1>1, <1>2, <1>3, <1>4 DEF Effect

LEMMA StagingEffect ==
    ASSUME Inv, Staging \/ StageFails
    PROVE  Effect
  <1>1. FsOK /\ at \in Paths /\ edits \in 0..MaxEdits
    BY FileType DEF Inv, MemoryOK
  <1>2. InCommit
    <2>1. pc \in {"prepare", "stage", "write", "mark"}
      BY DEF Staging, CreateJournal, StageCreate, StageWrite, MarkCandidate, StageFails
    <2> QED
      BY <2>1 DEF InCommit, Asking, Inv, PlaceOK, Cleaning, Opened
  <1>3. CASE UNCHANGED fs
    BY <1>1, <1>3, QuietEffect
  <1>4. CASE CreateJournal
    BY <1>3, <1>4 DEF CreateJournal, Refuse
  <1>5. CASE StageCreate
    <2>1. CASE /\ inodes' = Append(inodes, [content |-> Empty, stamp |-> 0])
               /\ dir' = [dir EXCEPT ![at].stage = Len(inodes) + 1] /\ disk' = disk
      <3>1. /\ Local(at) /\ \A i \in 1..Len(inodes) : inodes'[i] = inodes[i]
            /\ inodes'[Len(inodes) + 1].content = Empty
            /\ Len(inodes') = Len(inodes) + 1
        BY <1>1, <2>1, CreateLocal, SlotNames, NoWork
      <3>2. Len(inodes) \in Nat
        BY <1>1 DEF FsOK
      <3>3. \A i \in 1..Len(inodes') : i > Len(inodes) => inodes'[i].content = Empty
        <4>1. \A i \in 1..Len(inodes') : i > Len(inodes) => i = Len(inodes) + 1
          BY <3>1, <3>2
        <4> QED
          BY <3>1, <4>1
      <3> QED
        BY <1>1, <1>2, <3>1, <3>3, LocalEffect
    <2> QED
      BY <1>3, <1>5, <2>1 DEF StageCreate
  <1>6. ASSUME pc \in {"write", "mark"}
        PROVE  rm.fd \in Ids /\ rm.fd # 0 /\ \A q \in Paths : Refers(q, rm.fd) => q = at
    BY <1>6, OpenStage
  <1>7. CASE StageWrite
    <2>1. inodes' = Write(rm.fd, edits) /\ UNCHANGED <<dir, disk>> /\ pc = "write"
      BY <1>7 DEF StageWrite
    <2> QED
      BY <1>1, <1>6, <2>1, NoWork, WriteEffect
  <1>8. CASE MarkCandidate
    BY <1>1, <1>8, SyncEffect DEF MarkCandidate
  <1>9. CASE StageFails
    <2>1. /\ pc \in {"write", "mark"} /\ UNCHANGED dir /\ (UNCHANGED disk \/ SyncDirectory(at))
          /\ \/ inodes' = inodes /\ UNCHANGED disk
             \/ inodes' = Write(rm.fd, Empty)
      BY <1>9 DEF StageFails
    <2>2. CASE inodes' = inodes /\ UNCHANGED disk
      BY <1>3, <2>1, <2>2 DEF fs
    <2>3. CASE inodes' = Write(rm.fd, Empty)
      BY <1>1, <1>6, <2>1, <2>3, NoWork, WriteEffect
    <2> QED
      BY <2>1, <2>2, <2>3
  <1> QED
    BY <1>4, <1>5, <1>7, <1>8, <1>9 DEF Staging

LEMMA ActivationEffect == ASSUME Inv, Activation  PROVE Effect
  <1>1. FsOK /\ at \in Paths
    BY FileType DEF Inv, MemoryOK
  <1>2. CASE UNCHANGED fs
    BY <1>1, <1>2, QuietEffect
  <1>3. CASE UNCHANGED <<inodes, dir>> /\ SyncDirectory(at)
    BY <1>1, <1>3, SyncEffect
  <1>4. CASE Swap(at, "stage", "target") /\ (UNCHANGED disk \/ SyncDirectory(at))
             /\ pc \in {"rename", "exchange_back"}
    <2>1. InCommit
      BY <1>4 DEF InCommit, Asking, Inv, PlaceOK, Cleaning, Opened
    <2> QED
      BY <1>1, <1>4, <2>1, SwapEffect, SlotNames
  <1>5. CASE Refuse
    BY <1>2, <1>5 DEF Refuse
  <1>6. CASE RecheckStaged \/ EnterReplacing \/ Authorize
    BY <1>2, <1>6 DEF RecheckStaged, EnterReplacing, Authorize
  <1>7. CASE Rename \/ ExchangeBack \/ SyncActive
    BY <1>2, <1>3, <1>4, <1>5, <1>7 DEF Rename, ActivationFails, ExchangeBack, SyncActive
  <1>8. CASE VerifyActive \/ CheckRollback \/ MarkPlacement \/ ConfirmActive
    BY <1>2, <1>5, <1>8 DEF VerifyActive, CheckRollback, MarkPlacement, ConfirmActive
  <1>9. CASE MarkApplied \/ EnterFinalizing \/ InspectCommitted \/ FinalizeEdit
    BY <1>2, <1>5, <1>9 DEF MarkApplied, EnterFinalizing, InspectCommitted, FinalizeEdit
  <1> QED
    BY <1>6, <1>7, <1>8, <1>9 DEF Activation

LEMMA CleaningEffect == ASSUME Inv, Cleanup  PROVE Effect
  <1>1. FsOK /\ at \in Paths /\ rm.fd \in Ids
    BY FileType DEF Inv, MemoryOK, Removals
  <1>2. CASE UNCHANGED fs
    BY <1>1, <1>2, QuietEffect
  <1>3. CASE Swap(at, "stage", "remove") /\ UNCHANGED disk
    BY <1>1, <1>3, SwapEffect, SlotNames
  <1>4. CASE DiscardPrepared \/ ClearAborted
    BY <1>2, <1>4 DEF DiscardPrepared, ClearAborted, Refuse
  <1>5. CASE CleanOpen
    <2>1. UNCHANGED <<inodes, dir>> /\ (UNCHANGED disk \/ SyncDirectory(at))
      BY <1>5 DEF CleanOpen, fs
    <2> QED
      BY <1>1, <1>2, <2>1, SyncEffect DEF fs
  <1>6. CASE Quarantine \/ VerifyQuarantine
    BY <1>2, <1>3, <1>6 DEF Quarantine, VerifyQuarantine
  <1>7. CASE Scrub
    <2>1. rm.fd # 0 /\ pc = "scrub" /\ \A q \in Paths : Refers(q, rm.fd) => q = at
      BY <1>7 DEF Scrub, Inv, DescriptorOK, Opened
    <2> QED
      BY <1>1, <1>2, <1>7, <2>1, ScrubEffect DEF Scrub
  <1>8. CASE Unlink
    <2>1. \/ UNCHANGED fs
          \/ /\ dir' = [dir EXCEPT ![at].remove = 0]
             /\ UNCHANGED inodes /\ (UNCHANGED disk \/ SyncDirectory(at))
      BY <1>8 DEF Unlink
    <2> QED
      BY <1>1, <1>2, <2>1, RemoveEffect
  <1> QED
    BY <1>4, <1>5, <1>6, <1>7, <1>8 DEF Cleanup

LEMMA OrdinaryEffect == ASSUME Inv, Ordinary  PROVE Effect
  <1>1. FsOK
    BY DEF Inv
  <1>2. CASE UNCHANGED fs
    BY <1>1, <1>2, QuietEffect
  <1>3. CASE HostCleanup
    <2>1. PICK f \in Files, s \in {"stage", "remove"} :
             dir' = [dir EXCEPT ![f][s] = 0] /\ UNCHANGED inodes /\ SyncDirectory(f)
      BY <1>3 DEF HostCleanup
    <2> QED
      BY <1>1, <2>1, FileType, RemoveEffect
  <1>4. CASE Recovery \/ Resolve \/ Crash \/ UNCHANGED vars
    BY <1>2, <1>4 DEF Recovery, Resolve, AuthorizeDiscard, ClearDiscarded,
       ValidateCurrent, AuthorizeCurrent, RecheckCurrent, ResolveDiscard, ResolveCurrent,
       Refuse, Crash, vars, fs
  <1> QED
    BY <1>3, <1>4, StagingEffect, ActivationEffect, CleaningEffect DEF Ordinary, Service

LEMMA EditsKept == ASSUME Ordinary  PROVE edits' = edits
  <1>1. CASE Staging \/ StageFails
    <2>1. CASE Abort
      BY <2>1 DEF Abort, Discard
    <2> QED
      BY <1>1, <2>1 DEF Staging, CreateJournal, StageCreate, StageWrite, MarkCandidate,
         StageFails, Refuse
  <1>2. CASE Activation
    <2>1. CASE Abort \/ Refuse
      BY <2>1 DEF Abort, Discard, Refuse
    <2> QED
      BY <1>2, <2>1 DEF Activation, RecheckStaged, EnterReplacing, Authorize, Rename,
         VerifyActive, CheckRollback, ExchangeBack, MarkPlacement, SyncActive,
         ConfirmActive, MarkApplied, EnterFinalizing, InspectCommitted, FinalizeEdit,
         ActivationFails
  <1>3. CASE Cleanup
    <2>1. CASE CleanupFails \/ Cleaned
      BY <2>1 DEF CleanupFails, Cleaned
    <2> QED
      BY <1>3, <2>1 DEF Cleanup, DiscardPrepared, CleanOpen, Quarantine,
         VerifyQuarantine, Scrub, Unlink, ClearAborted, Refuse
  <1>4. CASE Recovery \/ Resolve
    BY <1>4 DEF Recovery, Resolve, AuthorizeDiscard, ClearDiscarded, ValidateCurrent,
       AuthorizeCurrent, RecheckCurrent, ResolveDiscard, ResolveCurrent, Refuse
  <1>5. CASE HostCleanup \/ Crash \/ UNCHANGED vars
    BY <1>5 DEF HostCleanup, Crash, vars
  <1> QED
    BY <1>1, <1>2, <1>3, <1>4, <1>5 DEF Ordinary, Service

\* The identity of a candidate stays worth something through a step that does
\* not write it again: a scrub, and a rename, find it not older than e.
LEMMA SoundStep ==
    ASSUME FsOK, FsOK', Preserves, Effect, edits \in Nat,
           NEW e \in Entries, NEW f \in Paths,
           Sound(e, f, inodes, dir, disk, edits),
           pc \in {"write", "mark"} /\ e.ino = rm.fd => inodes' = inodes,
           pc = "scrub" /\ e.ino = rm.fd => e.stamp <= inodes[e.ino].stamp,
           InCommit /\ e.ino # 0 => e.stamp <= inodes[e.ino].stamp
    PROVE  Sound(e, f, inodes', dir', disk', edits)
  <1> SUFFICES ASSUME e.ino # 0
               PROVE  /\ e.ino \in 1..Len(inodes')
                      /\ inodes'[e.ino].content # edits =>
                            /\ e.stamp < inodes'[e.ino].stamp
                            /\ \A p \in Paths, t \in Slots :
                                  disk'[p].slots[t] = e.ino => e.stamp < disk'[p].stamp[t]
                      /\ dir'[f].target = e.ino => e.stamp <= inodes'[e.ino].stamp
                      /\ disk'[f].slots["target"] = e.ino => e.stamp <= disk'[f].stamp["target"]
                      /\ \A p \in Paths, s \in Slots :
                            dir'[p][s] = e.ino \/ disk'[p].slots[s] = e.ino => p = f
    BY DEF Sound
  <1>1. /\ e.ino \in 1..Len(inodes)
        /\ inodes[e.ino].content # edits =>
              /\ e.stamp < inodes[e.ino].stamp
              /\ \A p \in Paths, t \in Slots :
                    disk[p].slots[t] = e.ino => e.stamp < disk[p].stamp[t]
        /\ dir[f].target = e.ino => e.stamp <= inodes[e.ino].stamp
        /\ disk[f].slots["target"] = e.ino => e.stamp <= disk[f].stamp["target"]
        /\ \A p \in Paths, s \in Slots :
              dir[p][s] = e.ino \/ disk[p].slots[s] = e.ino => p = f
    BY DEF Sound
  <1>2. Len(inodes) \in Nat /\ Len(inodes') \in Nat /\ Len(inodes') >= Len(inodes)
    BY DEF FsOK, Preserves
  <1>3. e.ino \in 1..Len(inodes') /\ e.stamp \in Nat
    BY <1>1, <1>2 DEF Entries
  <1>4. inodes[e.ino].stamp \in Nat /\ inodes'[e.ino].stamp \in Nat
    <2>1. inodes'[e.ino] \in INode
      BY <1>3, ElementOfSeq DEF FsOK
    <2> QED
      BY <1>1, <2>1, StampType DEF INode
  <1>5. inodes'[e.ino].stamp >= inodes[e.ino].stamp
    BY <1>1 DEF Preserves
  <1>6. ASSUME NEW p \in Paths, NEW t \in Slots, disk'[p].slots[t] = e.ino
        PROVE  \/ dir'[p][t] = e.ino /\ disk'[p].stamp[t] = inodes'[e.ino].stamp
               \/ disk[p].slots[t] = e.ino /\ disk'[p].stamp[t] = disk[p].stamp[t]
               \/ pc = "scrub" /\ e.ino = rm.fd /\ disk'[p].stamp[t] = inodes'[e.ino].stamp
    BY <1>6 DEF Preserves
  <1>7. ASSUME inodes'[e.ino].content # inodes[e.ino].content
        PROVE  /\ e.stamp < inodes'[e.ino].stamp
               /\ \A p \in Paths, t \in Slots : disk'[p].slots[t] = e.ino =>
                     disk'[p].stamp[t] = inodes'[e.ino].stamp
    <2>1. /\ e.ino = rm.fd /\ inodes'[e.ino].stamp = inodes[e.ino].stamp + 1
          /\ \/ pc \in {"write", "mark"}
             \/ /\ pc = "scrub"
                /\ \A p \in Paths, s \in Slots : disk'[p].slots[s] = e.ino =>
                      disk'[p].stamp[s] = inodes'[e.ino].stamp
      BY <1>1, <1>7 DEF Effect
    <2>2. pc = "scrub"
      BY <1>7, <2>1
    <2>3. e.stamp <= inodes[e.ino].stamp
      BY <2>1, <2>2
    <2> QED
      BY <1>3, <1>4, <2>1, <2>2, <2>3
  <1>8. ASSUME inodes'[e.ino].content # edits
        PROVE  /\ e.stamp < inodes'[e.ino].stamp
               /\ \A p \in Paths, t \in Slots :
                     disk'[p].slots[t] = e.ino => e.stamp < disk'[p].stamp[t]
    <2>1. CASE inodes'[e.ino].content # inodes[e.ino].content
      BY <1>7, <2>1
    <2>2. CASE inodes[e.ino].content # edits
      <3>1. e.stamp < inodes'[e.ino].stamp
        BY <1>1, <1>3, <1>4, <1>5, <2>2
      <3> QED
        BY <1>1, <1>6, <2>2, <3>1
    <2> QED
      BY <1>8, <2>1, <2>2
  <1>9. ASSUME dir'[f].target = e.ino
        PROVE  e.stamp <= inodes'[e.ino].stamp
    <2>1. e.stamp <= inodes[e.ino].stamp
      BY <1>1, <1>9 DEF Effect
    <2> QED
      BY <1>3, <1>4, <1>5, <2>1
  <1>10. ASSUME disk'[f].slots["target"] = e.ino
         PROVE  e.stamp <= disk'[f].stamp["target"]
    <2>1. CASE dir'[f].target = e.ino /\ disk'[f].stamp["target"] = inodes'[e.ino].stamp
      BY <1>9, <2>1
    <2>2. CASE disk[f].slots["target"] = e.ino /\ disk'[f].stamp["target"] = disk[f].stamp["target"]
      BY <1>1, <2>2
    <2>3. CASE pc = "scrub" /\ e.ino = rm.fd /\ disk'[f].stamp["target"] = inodes'[e.ino].stamp
      BY <1>3, <1>4, <1>5, <2>3
    <2> QED
      BY <1>6, <1>10, <2>1, <2>2, <2>3, SlotNames
  <1>11. ASSUME NEW p \in Paths, NEW s \in Slots,
                dir'[p][s] = e.ino \/ disk'[p].slots[s] = e.ino
         PROVE  p = f
    <2>1. Refers(p, e.ino)'
      BY <1>11 DEF Refers
    <2>2. Refers(p, e.ino)
      BY <1>1, <2>1 DEF Effect
    <2> QED
      BY <1>1, <2>2 DEF Refers
  <1> QED
    BY <1>3, <1>8, <1>9, <1>10, <1>11

LEMMA SoundFacts ==
    ASSUME NEW f, NEW n, NEW d, NEW k, NEW v
    PROVE  /\ Sound(Missing, f, n, d, k, v)
           /\ \A e \in Entries : Sound(e, f, n, d, k, v) => Sound(Identity(e), f, n, d, k, v)
  <1>1. Missing.ino = 0
    BY DEF Missing
  <1>2. \A e \in Entries : Identity(e).ino = e.ino /\ Identity(e).stamp = e.stamp
    BY DEF Identity, Entries
  <1>3. Sound(Missing, f, n, d, k, v)
    BY <1>1 DEF Sound
  <1>4. ASSUME NEW e \in Entries, Sound(e, f, n, d, k, v)
        PROVE  Sound(Identity(e), f, n, d, k, v)
    BY <1>2, <1>4 DEF Sound
  <1> QED
    BY <1>3, <1>4

\* The active file, read back with the candidate's bytes.
LEMMA EntrySound ==
    ASSUME Inv, RenamedOK, pc \in {"verify"} \cup Placed, dir[at].target # 0,
           Entry(at, "target").content = edits
    PROVE  Sound(Entry(at, "target"), at, inodes, dir, disk, edits)
  <1> DEFINE i == dir[at].target
  <1>1. FsOK /\ at \in Paths /\ "target" \in Slots
    BY FileType, SlotNames DEF Inv, MemoryOK
  <1>2. /\ i \in 1..Len(inodes) /\ Entry(at, "target").ino = i
        /\ Entry(at, "target").stamp = inodes[i].stamp /\ inodes[i].content = edits
        /\ inodes[i].stamp \in Nat /\ i \in Ids
    BY <1>1, EntryFacts, IdRange, StampType DEF Ids
  <1>3. disk[at].slots["target"] = i => disk[at].stamp["target"] = inodes[i].stamp
    BY DEF RenamedOK
  <1>4. Refers(at, i) /\ \A p \in Paths, s \in Slots :
           dir[p][s] = i \/ disk[p].slots[s] = i => Refers(p, i)
    BY <1>1 DEF Refers
  <1>5. \A p \in Paths : Refers(p, i) => p = at
    BY <1>1, <1>2, <1>4 DEF FsOK
  <1> HIDE DEF i
  <1>6. \A p \in Paths, s \in Slots : dir[p][s] = i \/ disk[p].slots[s] = i => p = at
    BY <1>4, <1>5
  <1> QED
    BY <1>2, <1>3, <1>6 DEF Sound

\* The recorded identities are there, and Commit's own are not ahead.
LEMMA CandidateNotAhead ==
    ASSUME Inv, KeptInv, InCommit, NEW f \in Files,
           NEW e \in {cand[f], journal.files[f].candidate}
    PROVE  e.ino # 0 => e.stamp <= inodes[e.ino].stamp
  <1>1. Ahead(e, inodes, disk, saved)
    BY DEF KeptInv, RecordsOK
  <1> QED
    BY <1>1 DEF Ahead

\* Those that a step keeps stay sound.
LEMMA CandidatesSound ==
    ASSUME Inv, FsOK', KeptInv, ClassInv, Preserves, Effect, NEW f \in Files
    PROVE  Sound(journal.files[f].candidate, f, inodes', dir', disk', edits)
  <1> DEFINE e == journal.files[f].candidate
  <1>1. FsOK /\ e \in Entries /\ f \in Paths /\ edits \in Nat
    BY FileType DEF Inv, MemoryOK, FileRecords
  <1>2. Sound(e, f, inodes, dir, disk, edits)
    BY DEF ClassInv, SoundOK
  <1>3. ~(pc \in {"write", "mark"} /\ e.ino = rm.fd)
    BY DEF ClassInv, FreshOK
  <1>4. pc = "scrub" /\ e.ino = rm.fd => e.stamp <= inodes[e.ino].stamp
    BY DEF ClassInv, OpenedOK, Opened
  <1>5. InCommit /\ e.ino # 0 => e.stamp <= inodes[e.ino].stamp
    BY CandidateNotAhead
  <1> HIDE DEF e
  <1>6. Sound(e, f, inodes', dir', disk', edits)
    BY <1>1, <1>2, <1>3, <1>4, <1>5, SoundStep
  <1> QED
    BY <1>6 DEF e

LEMMA CandidateSound ==
    ASSUME Inv, FsOK', KeptInv, ClassInv, Preserves, Effect, pc \in {"mark"} \cup Placed,
           pc = "mark" => inodes' = inodes
    PROVE  Sound(cand[at], at, inodes', dir', disk', edits)
  <1> DEFINE e == cand[at]
  <1>1. FsOK /\ e \in Entries /\ at \in Paths /\ edits \in Nat /\ at \in Files
    BY FileType DEF Inv, MemoryOK
  <1>2. Sound(e, at, inodes, dir, disk, edits)
    BY DEF ClassInv, SoundOK
  <1>3. pc # "scrub" /\ pc # "write"
    BY DEF Placed
  <1>5. InCommit
    BY DEF InCommit, Placed, Asking, Inv, PlaceOK, Cleaning, Opened
  <1>6. e.ino # 0 => e.stamp <= inodes[e.ino].stamp
    BY <1>1, <1>5, CandidateNotAhead
  <1> HIDE DEF e
  <1>7. Sound(e, at, inodes', dir', disk', edits)
    BY <1>1, <1>2, <1>3, <1>6, SoundStep
  <1> QED
    BY <1>7 DEF e

\* An original on record is the file that was reviewed, a candidate the one on
\* record or what commit holds.
LEMMA Recorded ==
    ASSUME Inv, Ordinary, NEW f \in Files
    PROVE  /\ orig'[f].ino \in {0, orig[f].ino}
           /\ journal'.files[f].original.ino \in
                 {0, journal.files[f].original.ino, orig[f].ino}
           /\ \/ journal'.files[f].candidate \in {Missing, journal.files[f].candidate}
              \/ /\ f = at /\ journal'.files[f].candidate = Identity(cand[at])
                 /\ pc \in {"mark"} \cup Placed /\ inodes' = inodes
  <1> USE DEF mem
  <1>1. FsOK /\ Files \subseteq Paths /\ at \in Files
        /\ orig \in [Paths -> Entries] /\ cand \in [Paths -> Entries]
        /\ journal \in Journals /\ journal.files \in [Files -> FileRecords]
    BY FileType DEF Inv, MemoryOK, Journals
  <1>2. Missing.ino = 0 /\ \A e \in Entries : Identity(e).ino = e.ino
    BY DEF Missing, Identity, Entries
  <1>3. orig[f] \in Entries /\ orig[at] \in Entries
    BY <1>1
  <1>4. CASE Keeps
    <2>1. orig'[f] \in {orig[f], Missing}
      BY <1>1, <1>4 DEF Keeps, NoEntries
    <2>2. \/ journal'.files[f] = journal.files[f]
          \/ journal'.files[f].original = Missing /\ journal'.files[f].candidate = Missing
      BY <1>4 DEF Keeps, NoJournal, NoFile
    <2> QED
      BY <1>2, <2>1, <2>2
  <1>5. CASE CreateJournal /\ pc' # "idle"
    <2>1. journal' = [phase |-> "staging", files |-> [g \in Files |->
                        [NoFile EXCEPT !.original = Identity(orig[g])]]]
          /\ UNCHANGED orig
      BY <1>5 DEF CreateJournal, Refuse, Return
    <2>2. /\ journal'.files[f].original = Identity(orig[f])
          /\ journal'.files[f].candidate = Missing
      BY <2>1 DEF NoFile
    <2> QED
      BY <1>2, <1>3, <2>1, <2>2
  <1>6. CASE StageWrite \/ StageFails
    BY <1>6 DEF StageWrite, StageFails, Abort, Discard, db
  <1>7. CASE MarkCandidate
    <2>1. /\ journal' = [journal EXCEPT !.files[at].candidate = Identity(cand[at]),
                                        !.files[at].ready = TRUE]
          /\ UNCHANGED <<orig, inodes>> /\ pc = "mark"
      BY <1>7 DEF MarkCandidate
    <2>2. /\ journal'.files[f].original = journal.files[f].original
          /\ \/ f = at /\ journal'.files[f].candidate = Identity(cand[at])
             \/ journal'.files[f].candidate = journal.files[f].candidate
      BY <1>1, <2>1 DEF Journals, FileRecords
    <2> QED
      BY <2>1, <2>2
  <1>8. CASE (VerifyActive \/ ConfirmActive) /\ pc' # "idle"
    <2>1. journal' = journal
      BY <1>8 DEF VerifyActive, ConfirmActive, Refuse, db
    <2>2. \/ UNCHANGED orig
          \/ /\ Existed(at) => SameContent(orig[at], Entry(at, "stage"))
             /\ orig' = [orig EXCEPT ![at] =
                            IF Existed(at) THEN Entry(at, "stage") ELSE Missing]
      BY <1>8 DEF VerifyActive, ConfirmActive, Refuse, Return
    <2>3. orig'[f].ino \in {0, orig[f].ino}
      BY <1>1, <1>2, <2>2 DEF SameContent
    <2> QED
      BY <2>1, <2>3
  <1>9. ASSUME UNCHANGED <<orig, inodes>>, pc \in Placed,
               \/ journal'.files[f] = journal.files[f]
               \/ /\ f = at /\ journal'.files[f].candidate = Identity(cand[at])
                  /\ journal'.files[f].original = Identity(orig[at])
        PROVE  /\ orig'[f].ino \in {0, orig[f].ino}
               /\ journal'.files[f].original.ino \in
                     {0, journal.files[f].original.ino, orig[f].ino}
               /\ \/ journal'.files[f].candidate \in {Missing, journal.files[f].candidate}
                  \/ /\ f = at /\ journal'.files[f].candidate = Identity(cand[at])
                     /\ pc \in {"mark"} \cup Placed /\ inodes' = inodes
    BY <1>2, <1>3, <1>9
  <1>10. CASE MarkPlacement /\ pc' # "idle"
    <2>1. /\ journal' = [journal EXCEPT !.files[at].candidate = Identity(cand[at]),
                                        !.files[at].original = Identity(orig[at])]
          /\ UNCHANGED <<orig, inodes>> /\ pc \in Placed
      BY <1>10 DEF MarkPlacement, Refuse, Return, Placed, fs
    <2>2. \/ journal'.files[f] = journal.files[f]
          \/ /\ f = at /\ journal'.files[f].candidate = Identity(cand[at])
             /\ journal'.files[f].original = Identity(orig[at])
      BY <1>1, <2>1 DEF Journals, FileRecords
    <2> QED
      BY <1>9, <2>1, <2>2
  <1>11. CASE MarkApplied /\ pc' # "idle"
    <2>1. /\ journal' = [journal EXCEPT !.files[at].candidate = Identity(cand[at]),
                                        !.files[at].original = Identity(orig[at]),
                                        !.files[at].applied = TRUE]
          /\ UNCHANGED <<orig, inodes>> /\ pc \in Placed
      BY <1>11 DEF MarkApplied, Refuse, Return, Placed, fs
    <2>2. \/ journal'.files[f] = journal.files[f]
          \/ /\ f = at /\ journal'.files[f].candidate = Identity(cand[at])
             /\ journal'.files[f].original = Identity(orig[at])
      BY <1>1, <2>1 DEF Journals, FileRecords
    <2> QED
      BY <1>9, <2>1, <2>2
  <1> QED
    BY <1>4, <1>5, <1>6, <1>7, <1>8, <1>10, <1>11, KeepsRecords DEF Records

\* The reviewed files: only a stage that is on no record is written.
LEMMA OldStep ==
    ASSUME Inv, FsOK', ClassInv, Preserves, Effect, Ordinary
    PROVE  OldOK'
  <1>1. FsOK /\ edits' = edits /\ edits \in Nat /\ Empty \notin Nat
        /\ Files \subseteq Paths
    BY EditsKept, FileType, PathsAssumption DEF Inv, MemoryOK
  <1>2. Len(inodes) \in Nat /\ Len(inodes') \in Nat /\ Len(inodes') >= Len(inodes)
    BY <1>1 DEF FsOK, Preserves
  <1>3. ASSUME NEW f \in Files, NEW i \in {orig[f].ino, journal.files[f].original.ino},
               i # 0
        PROVE  i \in 1..Len(inodes') /\ inodes'[i].content # edits
    <2>1. i \in 1..Len(inodes) /\ inodes[i].content # edits
      BY <1>3 DEF ClassInv, OldOK
    <2>2. i \in 1..Len(inodes')
      BY <1>2, <2>1
    <2>3. pc \in {"write", "mark"} => i # rm.fd
      BY <1>3 DEF ClassInv, FreshOK
    <2>4. inodes'[i].content = inodes[i].content \/ inodes'[i].content = Empty
      BY <2>1, <2>3 DEF Effect
    <2> QED
      BY <1>1, <2>1, <2>2, <2>4
  <1>4. ASSUME NEW f \in Files, NEW e \in {orig'[f], journal'.files[f].original}, e.ino # 0
        PROVE  e.ino \in {orig[f].ino, journal.files[f].original.ino}
    BY <1>4, Recorded
  <1> QED
    BY <1>1, <1>3, <1>4 DEF OldOK

LEMMA BoundStep ==
    ASSUME Inv, FsOK', ClassInv, Preserves, Effect, Ordinary
    PROVE  BoundOK(inodes', edits')
  <1>1. FsOK /\ edits' = edits /\ edits \in Nat /\ Empty \notin Nat
    BY EditsKept, PathsAssumption DEF Inv, MemoryOK
  <1>2. Len(inodes) \in Nat /\ Len(inodes') \in Nat
    BY <1>1 DEF FsOK
  <1>3. ASSUME NEW i \in 1..Len(inodes'), inodes'[i].content \in Nat
        PROVE  inodes'[i].content <= edits
    <2>1. i \in 1..Len(inodes)
      BY <1>1, <1>2, <1>3 DEF Effect
    <2>2. inodes'[i].content \in {inodes[i].content, edits}
      BY <1>1, <1>3, <2>1 DEF Effect
    <2> QED
      BY <1>1, <1>3, <2>1, <2>2 DEF ClassInv, BoundOK
  <1> QED
    BY <1>1, <1>3 DEF BoundOK

\* Only a new file is written by Commit.
LEMMA FreshStep ==
    ASSUME Inv, ClassInv, Ordinary
    PROVE  FreshOK'
  <1> USE DEF mem
  <1> SUFFICES ASSUME pc' \in {"write", "mark"}
               PROVE  \A f \in Files : rm'.fd \notin
                         {orig'[f].ino, journal'.files[f].original.ino,
                          journal'.files[f].candidate.ino}
    BY DEF FreshOK
  <1>1. FsOK /\ rm \in Removals /\ Len(inodes) \in Nat
    BY DEF Inv, MemoryOK, FsOK
  <1>2. CASE StageCreate
    <2>1. rm' = [rm EXCEPT !.fd = Len(inodes) + 1] /\ UNCHANGED <<orig, journal>>
      BY <1>2 DEF StageCreate, Abort, Discard, Goto, db
    <2>2. rm'.fd = Len(inodes) + 1
      BY <1>1, <2>1 DEF Removals
    <2>3. ASSUME NEW f \in Files,
                 NEW i \in {orig[f].ino, journal.files[f].original.ino,
                            journal.files[f].candidate.ino}
          PROVE  i = 0 \/ i \in 1..Len(inodes)
      BY <2>3 DEF ClassInv, OldOK, SoundOK, Sound
    <2>4. \A i : i = 0 \/ i \in 1..Len(inodes) => i # Len(inodes) + 1
      BY <1>1
    <2> QED
      BY <2>1, <2>2, <2>3, <2>4
  <1>3. CASE StageWrite
    <2>1. rm' = rm /\ UNCHANGED <<orig, journal>> /\ pc = "write"
      BY <1>3 DEF StageWrite, db
    <2> QED
      BY <2>1 DEF ClassInv, FreshOK
  <1>4. CASE UNCHANGED vars
    BY <1>4 DEF vars, ClassInv, FreshOK
  <1>5. pc' \in Before /\ [Next]_vars
    BY DEF Before, Ordinary, Next
  <1>6. CASE CreateJournal \/ MarkCandidate \/ RecheckStaged \/ EnterReplacing
    BY <1>6 DEF CreateJournal, MarkCandidate, RecheckStaged, EnterReplacing, Refuse, Return,
       Abort, Discard, Goto
  <1>7. ~External
    <2>1. SUFFICES ASSUME External  PROVE FALSE
      OBVIOUS
    <2>2. used' # used
      BY <2>1 DEF External
    <2> QED
      BY <2>2, SavedShrinks
  <1> QED
    BY <1>2, <1>3, <1>4, <1>5, <1>6, <1>7, Landing

LEMMA OrdinaryNext == ASSUME Ordinary  PROVE [Next]_vars /\ ~External
  <1>1. [Next]_vars
    BY DEF Ordinary, Next
  <1>2. ASSUME External  PROVE FALSE
    <2>1. used' # used
      BY <1>2 DEF External
    <2> QED
      BY <2>1, SavedShrinks
  <1> QED
    BY <1>1, <1>2

\* The candidate that was just written is sound.
LEMMA WrittenSound ==
    ASSUME Inv, StageWrite
    PROVE  Sound(cand'[at], at, inodes', dir', disk', edits)
  <1>1. /\ pc = "write" /\ inodes' = Write(rm.fd, edits) /\ UNCHANGED <<dir, disk>>
        /\ cand' = [cand EXCEPT ![at] = [ino |-> rm.fd, content |-> edits,
                                         stamp |-> inodes'[rm.fd].stamp]]
    BY DEF StageWrite
  <1>2. FsOK /\ at \in Paths /\ cand \in [Paths -> Entries] /\ edits \in 0..MaxEdits
    BY FileType DEF Inv, MemoryOK
  <1>3. /\ rm.fd \in Ids /\ rm.fd # 0 /\ \A q \in Paths : Refers(q, rm.fd) => q = at
        /\ dir[at].target # rm.fd /\ disk[at].slots["target"] # rm.fd
    BY <1>1, OpenStage DEF Inv, DescriptorOK
  <1>4. Len(inodes') = Len(inodes) /\ inodes'[rm.fd].content = edits
    BY <1>1, <1>2, <1>3, NoWork, WriteLocal
  <1>5. rm.fd \in 1..Len(inodes')
    BY <1>2, <1>3, <1>4 DEF Ids, FsOK
  <1>6. cand'[at].ino = rm.fd
    BY <1>1, <1>2
  <1>7. \A p \in Paths, s \in Slots :
           dir'[p][s] = rm.fd \/ disk'[p].slots[s] = rm.fd => p = at
    BY <1>1, <1>3 DEF Refers
  <1>8. dir'[at].target # rm.fd /\ disk'[at].slots["target"] # rm.fd
    BY <1>1, <1>3
  <1> QED
    BY <1>4, <1>5, <1>6, <1>7, <1>8 DEF Sound

\* Where a step that ends among these places leaves the candidate.
LEMMA PlacedLanding ==
    ASSUME Inv, Ordinary, pc' \in {"mark", "verify"} \cup Placed
    PROVE  \/ StageWrite /\ pc' = "mark" /\ at' = at
           \/ Rename /\ pc' = "verify"
           \/ /\ VerifyActive \/ ConfirmActive
              /\ at' = at /\ pc \in {"verify"} \cup Placed /\ UNCHANGED fs
              /\ pc' \in Placed
              /\ SameContent(cand[at], Entry(at, "target"))
              /\ cand' = [cand EXCEPT ![at] = Entry(at, "target")]
           \/ MarkPlacement /\ at' = at /\ pc \in Placed /\ UNCHANGED <<fs, cand>>
           \/ SyncActive /\ at' = at /\ pc \in Placed /\ UNCHANGED cand /\ SyncDirectory(at)
           \/ UNCHANGED vars
  <1> USE DEF mem
  <1>0. [Next]_vars /\ ~External
    BY OrdinaryNext
  <1>1. CASE pc' = "mark"
    <2>1. pc' \in Before
      BY <1>1 DEF Before
    <2>2. CASE CreateJournal \/ MarkCandidate \/ RecheckStaged \/ EnterReplacing
      BY <1>1, <2>2 DEF CreateJournal, MarkCandidate, RecheckStaged, EnterReplacing,
         Refuse, Return, Abort, Discard, Goto
    <2>3. CASE StageCreate
      BY <1>1, <2>3 DEF StageCreate, Abort, Discard, Goto
    <2>4. CASE StageWrite
      BY <1>1, <2>4 DEF StageWrite, Goto
    <2> QED
      BY <1>0, <2>1, <2>2, <2>3, <2>4, Landing
  <1>2. CASE pc' \in {"verify"} \cup Placed
    <2>1. pc' \in Activating
      BY <1>2 DEF Activating, Exchanged
    <2>2. CASE Authorize
      BY <1>2, <2>2 DEF Authorize, Abort, Discard, Goto, Placed
    <2>3. CASE Rename
      BY <1>2, <2>3 DEF Rename, ActivationFails, Abort, Discard, Refuse, Return, Goto, Placed
    <2>4. CASE VerifyActive
      BY <1>2, <2>4 DEF VerifyActive, Refuse, Return, Goto, Placed
    <2>5. CASE CheckRollback
      BY <1>2, <2>5 DEF CheckRollback, Refuse, Return, Goto, Placed
    <2>6. CASE MarkPlacement
      BY <1>2, <2>6 DEF MarkPlacement, Refuse, Return, Goto, Placed
    <2>7. CASE SyncActive
      BY <1>2, <2>7 DEF SyncActive, Refuse, Return, Goto, Placed
    <2>8. CASE ConfirmActive
      BY <1>2, <2>8 DEF ConfirmActive, Refuse, Return, Goto, Placed
    <2>9. CASE MarkApplied
      BY <1>2, <2>9 DEF MarkApplied, Advance, Refuse, Return, Goto, Placed
    <2>10. CASE /\ Committing
                /\ CleanOpen \/ Quarantine \/ VerifyQuarantine \/ Scrub \/ Unlink
      <3>1. rm.caller = "commit"
        BY <2>10 DEF Committing
      <3>2. ~Cleaned /\ ~CleanupFails
        BY <1>2, <3>1 DEF Cleaned, CleanupFails, Advance, Goto, Return, Placed
      <3> QED
        BY <1>2, <2>10, <3>2 DEF CleanOpen, Quarantine, VerifyQuarantine, Scrub, Unlink,
           Goto, Placed
    <2> QED
      BY <1>0, <2>1, <2>2, <2>3, <2>4, <2>5, <2>6, <2>7, <2>8, <2>9, <2>10, Landing
  <1> QED
    BY <1>1, <1>2

LEMMA SoundnessStep ==
    ASSUME Inv, FsOK', KeptInv, ClassInv, Preserves, Effect, Ordinary
    PROVE  SoundOK'
  <1>0. edits' = edits /\ at \in Files /\ at \in Paths /\ FsOK
        /\ cand \in [Paths -> Entries]
    BY EditsKept, FileType DEF Inv, MemoryOK
  <1>1. ASSUME NEW f \in Files
        PROVE  Sound(journal'.files[f].candidate, f, inodes', dir', disk', edits)
    <2>1. CASE journal'.files[f].candidate = Missing
      BY <2>1, SoundFacts
    <2>2. CASE journal'.files[f].candidate = journal.files[f].candidate
      BY <2>2, CandidatesSound
    <2>3. CASE /\ f = at /\ journal'.files[f].candidate = Identity(cand[at])
               /\ pc \in {"mark"} \cup Placed /\ inodes' = inodes
      <3>1. Sound(cand[at], at, inodes', dir', disk', edits)
        BY <2>3, CandidateSound
      <3>2. cand[at] \in Entries
        BY <1>0
      <3>3. Sound(Identity(cand[at]), at, inodes', dir', disk', edits)
        BY <3>1, <3>2, SoundFacts
      <3> QED
        BY <2>3, <3>3
    <2> QED
      BY <2>1, <2>2, <2>3, Recorded
  <1>2. ASSUME pc' \in {"mark"} \cup Placed
        PROVE  Sound(cand'[at'], at', inodes', dir', disk', edits)
    <2>1. CASE StageWrite /\ at' = at
      <3>1. Sound(cand'[at], at, inodes', dir', disk', edits)
        BY <2>1, WrittenSound
      <3> QED
        BY <2>1, <3>1
    <2>2. CASE /\ VerifyActive \/ ConfirmActive
               /\ at' = at /\ pc \in {"verify"} \cup Placed /\ UNCHANGED fs
               /\ SameContent(cand[at], Entry(at, "target"))
               /\ cand' = [cand EXCEPT ![at] = Entry(at, "target")]
      <3>1. cand'[at'] = Entry(at, "target")
        BY <1>0, <2>2
      <3>2. Entry(at, "target").ino # 0 /\ Entry(at, "target").content = cand[at].content
        BY <2>2 DEF SameContent, Exists
      <3>3. dir[at].target # 0
        BY <1>0, <3>2, EntryFacts, SlotNames
      <3>4. cand[at].content = edits
        BY <1>0, <2>2 DEF ClassInv, WrittenOK, Activating, Exchanged
      <3>5. Sound(Entry(at, "target"), at, inodes, dir, disk, edits)
        BY <2>2, <3>2, <3>3, <3>4, EntrySound DEF ClassInv
      <3> QED
        BY <2>2, <3>1, <3>5 DEF fs
    <2>3. CASE at' = at /\ pc \in Placed /\ UNCHANGED cand
      <3>1. Sound(cand[at], at, inodes', dir', disk', edits)
        <4>1. pc # "mark"
          BY <2>3 DEF Placed
        <4> QED
          BY <2>3, <4>1, CandidateSound
      <3> QED
        BY <2>3, <3>1
    <2>4. CASE UNCHANGED vars
      BY <1>2, <2>4 DEF vars, ClassInv, SoundOK
    <2>5. pc' # "verify"
      BY <1>2 DEF Placed
    <2> QED
      BY <1>2, <2>1, <2>2, <2>3, <2>4, <2>5, PlacedLanding
  <1> QED
    BY <1>0, <1>1, <1>2 DEF SoundOK

LEMMA RenamedStep ==
    ASSUME Inv, FsOK', ClassInv, Ordinary
    PROVE  RenamedOK'
  <1> USE DEF mem
  <1>0. FsOK /\ at \in Files /\ at \in Paths
    BY FileType DEF Inv, MemoryOK
  <1> SUFFICES ASSUME pc' \in {"verify"} \cup Placed, dir'[at'].target # 0,
                      disk'[at'].slots["target"] = dir'[at'].target
               PROVE  disk'[at'].stamp["target"] = inodes'[dir'[at'].target].stamp
    BY DEF RenamedOK
  <1>1. CASE Rename /\ pc' = "verify"
    <2>1. /\ Swap(at, "stage", "target") /\ disk' = disk /\ at' = at /\ dir[at].stage # 0
          /\ pc = "rename"
      BY <1>1 DEF Rename, CanRename, ActivationFails, Abort, Discard, Refuse, Return, Goto
    <2>2. dir'[at].target = dir[at].stage
      BY <1>0, <2>1, SwapLocal, SlotNames
    <2>3. disk[at].slots["target"] = dir[at].target
      BY <1>0, <2>1 DEF Inv, SynchronisedOK, Synchronised, Asking, Cleaning, Opened,
         Exchanged
    <2>4. dir[at].stage # dir[at].target
      BY <1>0, <2>1, SlotNames DEF FsOK, OneName
    <2> QED
      BY <2>1, <2>2, <2>3, <2>4
  <1>2. CASE at' = at /\ pc \in {"verify"} \cup Placed /\ UNCHANGED fs
    BY <1>2 DEF ClassInv, RenamedOK, fs
  <1>3. CASE at' = at /\ SyncDirectory(at)
    BY <1>0, <1>3, SyncStamps, SlotNames
  <1>4. CASE UNCHANGED vars
    BY <1>4 DEF vars, ClassInv, RenamedOK
  <1>5. pc' # "mark"
    BY DEF Placed
  <1> QED
    BY <1>1, <1>2, <1>3, <1>4, <1>5, PlacedLanding

LEMMA WrittenStep ==
    ASSUME Inv, CandidatesOK, ClassInv, Ordinary
    PROVE  WrittenOK'
  <1> USE DEF mem
  <1>0. [Next]_vars /\ ~External /\ edits' = edits /\ at \in Paths /\ Files \subseteq Paths
        /\ cand \in [Paths -> Entries]
    BY OrdinaryNext, EditsKept, FileType DEF Inv, MemoryOK
  <1> SUFFICES ASSUME pc' \in Activating \/ Committing'
               PROVE  \A f \in Files : cand'[f].content = edits
    BY <1>0 DEF WrittenOK
  <1>a. pc' # "idle" /\ pc' # "abort"
    BY DEF Activating, Exchanged, Placed, Committing, Cleaning, Opened
  <1>1. CASE Authorize
    <2>1. pc = "authorize" /\ UNCHANGED cand
      BY <1>a, <1>1 DEF Authorize, Abort, Discard, Goto
    <2> QED
      BY <2>1 DEF CandidatesOK, Candidates
  <1>2. ASSUME UNCHANGED cand, pc \in Activating \/ Committing
        PROVE  \A f \in Files : cand'[f].content = edits
    BY <1>2 DEF ClassInv, WrittenOK
  <1>3. CASE Rename \/ CheckRollback \/ MarkPlacement \/ SyncActive \/ MarkApplied
    <2>1. UNCHANGED cand
      BY <1>a, <1>3 DEF Rename, CheckRollback, MarkPlacement, SyncActive, MarkApplied,
         ActivationFails, Refuse, Return
    <2>2. pc \in Activating
      BY <1>3 DEF Rename, CheckRollback, MarkPlacement, SyncActive, MarkApplied, Activating,
         Exchanged, Placed
    <2> QED
      BY <1>2, <2>1, <2>2
  <1>4. CASE VerifyActive \/ ConfirmActive
    <2>1. \/ UNCHANGED cand
          \/ /\ SameContent(cand[at], Entry(at, "target"))
             /\ cand' = [cand EXCEPT ![at] = Entry(at, "target")]
      BY <1>a, <1>4 DEF VerifyActive, ConfirmActive, Refuse, Return
    <2>2. pc \in Activating
      BY <1>4 DEF VerifyActive, ConfirmActive, Activating, Exchanged, Placed
    <2>3. \A f \in Files : cand'[f].content = cand[f].content
      BY <1>0, <2>1 DEF SameContent
    <2> QED
      BY <2>2, <2>3 DEF ClassInv, WrittenOK
  <1>5. CASE /\ Committing
             /\ CleanOpen \/ Quarantine \/ VerifyQuarantine \/ Scrub \/ Unlink
    <2>1. Cleaned \/ CleanupFails => UNCHANGED cand
      BY <1>a DEF Cleaned, CleanupFails, Return
    <2>2. UNCHANGED cand
      BY <1>5, <2>1 DEF CleanOpen, Quarantine, VerifyQuarantine, Scrub, Unlink
    <2> QED
      BY <1>2, <1>5, <2>2
  <1>6. CASE UNCHANGED vars
    <2>1. UNCHANGED <<pc, rm, cand>>
      BY <1>6 DEF vars
    <2>2. pc \in Activating \/ Committing
      BY <2>1 DEF Committing
    <2> QED
      BY <1>2, <2>1, <2>2
  <1> QED
    BY <1>0, <1>1, <1>3, <1>4, <1>5, <1>6, Landing

\* Cleanup opens nothing older than its record: commit and abort hold none, and
\* recovery compared the times, with the candidate's or with the original's.
LEMMA OpenedAge ==
    ASSUME Inv, Inv', KeptInv', ClassInv, Preserves, Ordinary
    PROVE  OpenedOK'
  <1> USE DEF mem
  <1> SUFFICES ASSUME pc' \in Opened, NEW f \in Files,
                      journal'.files[f].candidate.ino = rm'.fd
               PROVE  journal'.files[f].candidate.stamp <= inodes'[rm'.fd].stamp
    BY DEF OpenedOK
  <1>0. FsOK /\ FsOK' /\ at \in Files /\ at \in Paths /\ rm \in Removals /\ rm'.fd # 0
        /\ journal.files \in [Files -> FileRecords]
        /\ Len(inodes) \in Nat /\ Len(inodes') \in Nat
    BY FileType DEF Inv, MemoryOK, DescriptorOK, FsOK
  <1>1. CASE rm'.caller # "recover"
    <2>1. InCommit'
      BY <1>1 DEF InCommit, Opened, Asking
    <2>2. Ahead(journal'.files[f].candidate, inodes', disk', saved')
      BY <2>1 DEF KeptInv, RecordsOK
    <2> QED
      BY <1>0, <2>2 DEF Ahead
  <1>2. CASE rm'.caller = "recover"
    <2>1. CASE StageCreate \/ StageWrite
      BY <2>1 DEF StageCreate, StageWrite, Abort, Discard, Goto, Opened
    <2>2. CASE CleanOpen
      <3>0. rm.caller \in {"commit", "abort", "recover"}
        BY <1>0 DEF Removals
      <3>1. ~Cleaned /\ ~CleanupFails
        BY <3>0 DEF Cleaned, CleanupFails, Advance, Goto, Return, Opened
      <3>2. PICK s \in {"stage", "remove"} :
               /\ Recognized(at, Entry(at, s)) /\ UNCHANGED <<fs, db>>
               /\ rm' = [rm EXCEPT !.fd = dir[at][s], !.slot = s]
        BY <2>2, <3>1 DEF CleanOpen, OwnedSlots
      <3> DEFINE i == dir[at][s]
                 e == journal.files[f].candidate
      <3>3. rm'.fd = i /\ rm.caller = "recover" /\ i # 0 /\ s \in Slots
        BY <1>0, <1>2, <3>2, SlotNames DEF Removals
      <3>4. i \in 1..Len(inodes) /\ inodes[i].stamp \in Nat
            /\ Entry(at, s).ino = i /\ Entry(at, s).stamp = inodes[i].stamp
        BY <1>0, <3>3, IdRange, StampType, EntryFacts
      <3>5. e.ino = i /\ UNCHANGED <<inodes, journal>>
        BY <3>2, <3>3 DEF fs, db
      <3>6. Sound(e, f, inodes, dir, disk, edits)
        BY DEF ClassInv, SoundOK
      <3>7. f = at
        BY <1>0, <3>3, <3>5, <3>6 DEF Sound
      <3>8. CASE SamePlacement(e, Entry(at, s))
        BY <3>3, <3>4, <3>5, <3>8 DEF SamePlacement
      <3>9. CASE SamePlacement(journal.files[f].original, Entry(at, s))
        <4>1. inodes[i].content # edits
          BY <3>3, <3>4, <3>9 DEF SamePlacement, ClassInv, OldOK
        <4>2. e.stamp < inodes[i].stamp /\ e.stamp \in Nat
          BY <1>0, <3>3, <3>5, <3>6, <4>1 DEF Sound, FileRecords, Entries
        <4> QED
          BY <3>3, <3>4, <3>5, <4>2
      <3> QED
        BY <3>2, <3>3, <3>7, <3>8, <3>9 DEF Recognized
    <2>3. CASE rm' = rm /\ pc \in {"write", "mark"} \cup Opened
      <3>1. pc \in Opened /\ ~InCommit
        BY <1>2, <2>3 DEF Inv, PlaceOK, Cleaning, Opened, InCommit
      <3>2. journal'.files[f] = journal.files[f]
        BY <1>0, <2>3, <3>1, StaysOut DEF Keeps, NoJournal, NoFile, Missing
      <3>3. journal.files[f].candidate.stamp <= inodes[rm.fd].stamp
        BY <2>3, <3>1, <3>2 DEF ClassInv, OpenedOK
      <3>4. rm.fd \in 1..Len(inodes)
        BY <1>0, <2>3 DEF Removals, Ids
      <3>5. inodes'[rm.fd].stamp >= inodes[rm.fd].stamp /\ Len(inodes') >= Len(inodes)
        BY <3>4 DEF Preserves
      <3>6. inodes[rm.fd].stamp \in Nat /\ inodes'[rm.fd].stamp \in Nat
        <4>1. rm.fd \in 1..Len(inodes')
          BY <1>0, <3>4, <3>5
        <4>2. inodes'[rm.fd] \in INode
          BY <1>0, <4>1, ElementOfSeq DEF FsOK
        <4> QED
          BY <1>0, <3>4, <4>2, StampType DEF INode
      <3>7. journal.files[f].candidate.stamp \in Nat
        BY <1>0 DEF FileRecords, Entries
      <3> QED
        BY <2>3, <3>2, <3>3, <3>5, <3>6, <3>7
    <2> QED
      BY <2>1, <2>2, <2>3, DescriptorLanding
  <1> QED
    BY <1>1, <1>2

LEMMA OrdinaryClass ==
    ASSUME Inv, Inv', KeptInv, KeptInv', CandidatesOK, ClassInv, Ordinary
    PROVE  ClassInv'
  <1>1. Preserves /\ Effect /\ FsOK'
    BY OrdinaryPreserves, OrdinaryEffect DEF KeptInv, Inv
  <1> QED
    BY <1>1, BoundStep, SoundnessStep, OldStep, FreshStep, WrittenStep, RenamedStep,
       OpenedAge DEF ClassInv

\* A new edit: no file has its content, and nothing is on record.
LEMMA BeginClass ==
    ASSUME Inv, Inv', ClassInv, Begin
    PROVE  ClassInv'
  <1>1. /\ pc = "idle" /\ ~Pending /\ pc' = "prepare"
        /\ UNCHANGED <<inodes, journal>> /\ edits' = edits + 1
        /\ orig' = [p \in Paths |->
              IF Exists(selection[p]) THEN Entry(p, "target") ELSE Missing]
    BY DEF Begin, Goto, db
  <1>2. FsOK /\ edits \in Nat /\ Len(inodes) \in Nat /\ Empty \notin Nat
        /\ Files \subseteq Paths
    BY PathsAssumption, FileType DEF Inv, MemoryOK, FsOK
  <1>3. \A i \in 1..Len(inodes) : inodes[i].content \in Nat => inodes[i].content <= edits
    BY DEF ClassInv, BoundOK
  <1>4. BoundOK(inodes', edits')
    BY <1>1, <1>2, <1>3 DEF BoundOK
  <1>5. \A i \in 1..Len(inodes) : inodes[i].content # edits + 1
    <2>1. ASSUME NEW i \in 1..Len(inodes), inodes[i].content = edits + 1  PROVE FALSE
      BY <1>2, <1>3, <2>1
    <2> QED
      BY <2>1
  <1>6. \A f \in Files : /\ journal'.files[f].original = Missing
                         /\ journal'.files[f].candidate = Missing
    BY <1>1 DEF Pending, NoJournal, NoFile
  <1>7. Missing.ino = 0
    BY DEF Missing
  <1>8. ASSUME NEW f \in Files, orig'[f].ino # 0
        PROVE  orig'[f].ino \in 1..Len(inodes)
    <2>1. orig'[f] = Entry(f, "target")
      BY <1>1, <1>2, <1>7, <1>8
    <2> QED
      BY <1>2, <1>8, <2>1, EntryFacts, IdRange, SlotNames
  <1>9. OldOK'
    BY <1>1, <1>5, <1>6, <1>7, <1>8 DEF OldOK
  <1>10. SoundOK'
    BY <1>1, <1>6, SoundFacts DEF SoundOK, Placed
  <1>11. FreshOK' /\ WrittenOK' /\ RenamedOK' /\ OpenedOK'
    BY <1>1 DEF FreshOK, WrittenOK, RenamedOK, OpenedOK, Activating, Exchanged, Placed,
       Committing, Cleaning, Opened
  <1> QED
    BY <1>4, <1>9, <1>10, <1>11 DEF ClassInv

\* A save moves the stamp of what it writes, so that no identity fits it.
LEMMA SavingSound ==
    ASSUME FsOK, WorkOK(inodes, used), NEW p \in Paths, NEW w \in Works \ used, NEW h, NEW i,
           Saving(p, w, h, i), NEW e \in Entries, NEW f \in Paths, NEW v,
           Sound(e, f, inodes, dir, disk, v)
    PROVE  Sound(e, f, inodes', dir', disk', v)
  <1> SUFFICES ASSUME e.ino # 0
               PROVE  /\ e.ino \in 1..Len(inodes')
                      /\ inodes'[e.ino].content # v =>
                            /\ e.stamp < inodes'[e.ino].stamp
                            /\ \A q \in Paths, t \in Slots :
                                  disk'[q].slots[t] = e.ino => e.stamp < disk'[q].stamp[t]
                      /\ dir'[f].target = e.ino => e.stamp <= inodes'[e.ino].stamp
                      /\ disk'[f].slots["target"] = e.ino => e.stamp <= disk'[f].stamp["target"]
                      /\ \A q \in Paths, s \in Slots :
                            dir'[q][s] = e.ino \/ disk'[q].slots[s] = e.ino => q = f
    BY DEF Sound
  <1>1. /\ e.ino \in 1..Len(inodes)
        /\ inodes[e.ino].content # v =>
              /\ e.stamp < inodes[e.ino].stamp
              /\ \A q \in Paths, t \in Slots :
                    disk[q].slots[t] = e.ino => e.stamp < disk[q].stamp[t]
        /\ dir[f].target = e.ino => e.stamp <= inodes[e.ino].stamp
        /\ disk[f].slots["target"] = e.ino => e.stamp <= disk[f].stamp["target"]
        /\ \A q \in Paths, s \in Slots :
              dir[q][s] = e.ino \/ disk[q].slots[s] = e.ino => q = f
    BY DEF Sound
  <1>2. /\ i \in 1..Len(inodes') /\ Len(inodes) \in Nat /\ Len(inodes') \in Nat
        /\ Len(inodes') >= Len(inodes) /\ h \in Slots
        /\ \A j \in 1..Len(inodes') : j # i => inodes'[j] = inodes[j]
        /\ \A q \in Paths : q # p => dir'[q] = dir[q] /\ disk'[q] = disk[q]
        /\ \A q \in Paths, s \in Slots :
              dir'[q][s] = i \/ disk'[q].slots[s] = i => q = p /\ s = h
        /\ disk'[p].slots = dir'[p]
        /\ \A s \in Slots : dir'[p][s] # 0 =>
              disk'[p].stamp[s] = inodes'[dir'[p][s]].stamp
    BY SavingFacts
  <1>3. e.ino \in 1..Len(inodes') /\ e.stamp \in Nat /\ inodes[e.ino].stamp \in Nat
    BY <1>1, <1>2, StampType DEF Entries
  <1>4. CASE e.ino = i
    <2>1. /\ h = "target" /\ i = dir[p][h] /\ inodes'[i].stamp = inodes[i].stamp + 1
      BY <1>1, <1>2, <1>4 DEF Saving
    <2>2. p = f
      BY <1>1, <1>2, <1>4, <2>1
    <2>3. e.stamp <= inodes[e.ino].stamp
      BY <1>1, <1>4, <2>1, <2>2
    <2>4. e.stamp < inodes'[e.ino].stamp /\ e.stamp <= inodes'[e.ino].stamp
      BY <1>3, <1>4, <2>1, <2>3
    <2>5. ASSUME NEW q \in Paths, NEW t \in Slots, disk'[q].slots[t] = e.ino
          PROVE  disk'[q].stamp[t] = inodes'[e.ino].stamp
      <3>1. q = p /\ dir'[p][t] = e.ino
        BY <1>2, <1>4, <2>5
      <3> QED
        BY <1>2, <3>1
    <2>6. \A q \in Paths, s \in Slots :
             dir'[q][s] = e.ino \/ disk'[q].slots[s] = e.ino => q = f
      BY <1>2, <1>4, <2>2
    <2> QED
      BY <1>3, <2>4, <2>5, <2>6, SlotNames
  <1>5. CASE e.ino # i
    <2>1. inodes'[e.ino] = inodes[e.ino]
      BY <1>2, <1>3, <1>5
    <2>2. \A s \in Slots : dir'[p][s] = e.ino => dir[p][s] = e.ino
      BY <1>5 DEF Saving
    <2>3. ASSUME NEW q \in Paths, NEW t \in Slots, disk'[q].slots[t] = e.ino
          PROVE  \/ /\ dir[q][t] = e.ino /\ disk'[q].stamp[t] = inodes[e.ino].stamp
                 \/ /\ disk[q].slots[t] = e.ino /\ disk'[q].stamp[t] = disk[q].stamp[t]
      BY <1>2, <2>1, <2>2, <2>3
    <2>4. inodes'[e.ino].content # v =>
             /\ e.stamp < inodes'[e.ino].stamp
             /\ \A q \in Paths, t \in Slots :
                   disk'[q].slots[t] = e.ino => e.stamp < disk'[q].stamp[t]
      BY <1>1, <2>1, <2>3
    <2>5. dir'[f].target = e.ino => dir[f].target = e.ino
      BY <1>2, <2>2, SlotNames
    <2>6. disk'[f].slots["target"] = e.ino => e.stamp <= disk'[f].stamp["target"]
      BY <1>1, <2>3, SlotNames
    <2>7. ASSUME NEW q \in Paths, NEW s \in Slots,
                 dir'[q][s] = e.ino \/ disk'[q].slots[s] = e.ino
          PROVE  q = f
      <3>1. dir[q][s] = e.ino \/ disk[q].slots[s] = e.ino
        BY <1>2, <2>2, <2>3, <2>7
      <3> QED
        BY <1>1, <3>1
    <2> QED
      BY <1>1, <1>3, <2>1, <2>4, <2>5, <2>6, <2>7
  <1> QED
    BY <1>4, <1>5

LEMMA ExternalClass ==
    ASSUME Inv, Inv', KeptInv, ClassInv, External
    PROVE  ClassInv'
  <1>1. PICK p \in Paths, w \in Works \ used :
          /\ ExternalSave(p, w) /\ SyncDirectory(p)
          /\ UNCHANGED <<db, pc, at, mem, edits, faults, adopted>>
    BY DEF External, ExternalSave
  <1>2. /\ FsOK /\ FsOK' /\ WorkOK(inodes, used) /\ at \in Files /\ at \in Paths
        /\ journal.files \in [Files -> FileRecords] /\ Files \subseteq Paths
        /\ cand \in [Paths -> Entries] /\ edits \in Nat /\ w \notin Nat
        /\ rm \in Removals
    BY FileType, PathsAssumption DEF Inv, MemoryOK, KeptInv
  <1>3. PICK h, i : Saving(p, w, h, i)
    BY <1>1, <1>2, ExternalSaving
  <1>4. UNCHANGED <<journal, pc, at, orig, cand, rm, edits>>
    BY <1>1 DEF db, mem
  <1>5. /\ i \in 1..Len(inodes') /\ Len(inodes) \in Nat /\ Len(inodes') \in Nat
        /\ Len(inodes') >= Len(inodes) /\ inodes'[i].content = w
        /\ \A j \in 1..Len(inodes') : j # i =>
              j \in 1..Len(inodes) /\ inodes'[j] = inodes[j]
        /\ \A q \in Paths : q # p => dir'[q] = dir[q] /\ disk'[q] = disk[q]
        /\ \A q \in Paths, s \in Slots :
              dir'[q][s] = i \/ disk'[q].slots[s] = i => q = p /\ s = h
        /\ disk'[p].slots = dir'[p]
        /\ \A s \in Slots : dir'[p][s] # 0 =>
              disk'[p].stamp[s] = inodes'[dir'[p][s]].stamp
    BY <1>2, <1>3, SavingFacts DEF Saving
  <1>6. \A j \in 1..Len(inodes) : j \in 1..Len(inodes') /\ inodes'[j].stamp >= inodes[j].stamp
    <2>1. ASSUME NEW j \in 1..Len(inodes)
          PROVE  j \in 1..Len(inodes') /\ inodes'[j].stamp >= inodes[j].stamp
      <3>1. inodes[j].stamp \in Nat /\ j \in 1..Len(inodes')
        BY <1>2, <1>5, StampType
      <3>2. inodes'[j].stamp = inodes[j].stamp \/ inodes'[j].stamp = inodes[j].stamp + 1
        BY <1>3, <1>5, <3>1 DEF Saving
      <3> QED
        BY <3>1, <3>2
    <2> QED
      BY <2>1
  <1>7. BoundOK(inodes', edits')
    BY <1>2, <1>4, <1>5 DEF BoundOK, ClassInv
  <1>8. SoundOK'
    <2>1. \A f \in Files : Sound(journal.files[f].candidate, f, inodes', dir', disk', edits)
      BY <1>2, <1>3, SavingSound DEF ClassInv, SoundOK, FileRecords
    <2>2. pc \in {"mark"} \cup Placed => Sound(cand[at], at, inodes', dir', disk', edits)
      BY <1>2, <1>3, SavingSound DEF ClassInv, SoundOK
    <2> QED
      BY <1>4, <2>1, <2>2 DEF SoundOK
  <1>9. OldOK'
    <2>1. ASSUME NEW j \in 1..Len(inodes), inodes[j].content # edits
          PROVE  j \in 1..Len(inodes') /\ inodes'[j].content # edits
      BY <1>2, <1>5, <1>6, <2>1
    <2> QED
      BY <1>4, <2>1 DEF OldOK, ClassInv
  <1>10. FreshOK' /\ WrittenOK'
    BY <1>4 DEF FreshOK, WrittenOK, Committing, ClassInv
  <1>11. RenamedOK'
    <2> SUFFICES ASSUME pc \in {"verify"} \cup Placed, dir'[at].target # 0,
                        disk'[at].slots["target"] = dir'[at].target
                 PROVE  disk'[at].stamp["target"] = inodes'[dir'[at].target].stamp
      BY <1>4 DEF RenamedOK
    <2>1. CASE at = p
      BY <1>5, <2>1, SlotNames
    <2>2. CASE at # p
      <3>1. dir'[at] = dir[at] /\ disk'[at] = disk[at]
        BY <1>2, <1>5, <2>2
      <3>2. dir[at].target \in 1..Len(inodes) /\ dir'[at].target # i
        BY <1>2, <1>5, <2>2, <3>1, IdRange, SlotNames
      <3>3. inodes'[dir[at].target] = inodes[dir[at].target]
        BY <1>5, <1>6, <3>1, <3>2
      <3> QED
        BY <3>1, <3>3 DEF ClassInv, RenamedOK
    <2> QED
      BY <2>1, <2>2
  <1>12. OpenedOK'
    <2> SUFFICES ASSUME pc \in Opened, NEW f \in Files, journal.files[f].candidate.ino = rm.fd
                 PROVE  journal.files[f].candidate.stamp <= inodes'[rm.fd].stamp
      BY <1>4 DEF OpenedOK
    <2>1. rm.fd \in 1..Len(inodes)
      BY <1>2, <1>5 DEF Removals, Ids, Inv, DescriptorOK
    <2>2. journal.files[f].candidate.stamp <= inodes[rm.fd].stamp
      BY DEF ClassInv, OpenedOK
    <2>3. inodes[rm.fd].stamp \in Nat /\ inodes'[rm.fd].stamp \in Nat
      <3>1. inodes'[rm.fd] \in INode
        BY <1>2, <1>6, <2>1, ElementOfSeq DEF FsOK
      <3> QED
        BY <1>2, <2>1, <3>1, StampType DEF INode
    <2>4. journal.files[f].candidate.stamp \in Nat
      BY <1>2 DEF FileRecords, Entries
    <2> QED
      BY <1>6, <2>1, <2>2, <2>3, <2>4
  <1> QED
    BY <1>7, <1>8, <1>9, <1>10, <1>11, <1>12 DEF ClassInv

\* After a power failure every inode has the stamp it had, in memory or on disk.
LEMMA PowerInodes ==
    ASSUME FsOK, PowerFailure, NEW i \in 1..Len(inodes)
    PROVE  \/ inodes'[i].stamp = inodes[i].stamp
           \/ \E p \in Paths, s \in Slots :
                 disk[p].slots[s] = i /\ inodes'[i].stamp = disk[p].stamp[s]
  <1>0. DOMAIN inodes = 1..Len(inodes) /\ inodes[i] \in INode
    BY ElementOfSeq DEF FsOK
  <1>1. PICK lost \in SUBSET Paths :
          inodes' = [j \in DOMAIN inodes |->
                IF \E q \in lost, t \in Slots : disk[q].slots[t] = j
                THEN [inodes[j] EXCEPT !.stamp =
                        LET where == CHOOSE ps \in lost \X Slots :
                                        disk[ps[1]].slots[ps[2]] = j
                        IN disk[where[1]].stamp[where[2]]]
                ELSE inodes[j]]
    BY DEF PowerFailure
  <1>2. CASE ~\E q \in lost, t \in Slots : disk[q].slots[t] = i
    BY <1>0, <1>1, <1>2
  <1>3. CASE \E q \in lost, t \in Slots : disk[q].slots[t] = i
    <2> DEFINE where == CHOOSE ps \in lost \X Slots : disk[ps[1]].slots[ps[2]] = i
    <2>1. PICK q \in lost, t \in Slots : disk[q].slots[t] = i
      BY <1>3
    <2>2. <<q, t>> \in lost \X Slots /\ <<q, t>>[1] = q /\ <<q, t>>[2] = t
      OBVIOUS
    <2>3. \E ps \in lost \X Slots : disk[ps[1]].slots[ps[2]] = i
      BY <2>1, <2>2
    <2>4. where \in lost \X Slots /\ disk[where[1]].slots[where[2]] = i
      BY <2>3
    <2>5. inodes'[i] = [inodes[i] EXCEPT !.stamp = disk[where[1]].stamp[where[2]]]
      BY <1>0, <1>1, <1>3
    <2> HIDE DEF where
    <2>6. where[1] \in Paths /\ where[2] \in Slots
      BY <2>4
    <2>7. inodes'[i].stamp = disk[where[1]].stamp[where[2]]
      BY <1>0, <2>5 DEF INode
    <2> QED
      BY <2>4, <2>6, <2>7
  <1> QED
    BY <1>2, <1>3

\* A power failure takes times back to what the disk had: an identity that fits
\* then is of the candidate's bytes.
LEMMA PowerSound ==
    ASSUME FsOK, FsOK', PowerFailure, NEW e \in Entries, NEW f \in Paths, NEW v,
           Sound(e, f, inodes, dir, disk, v)
    PROVE  Sound(e, f, inodes', dir', disk', v)
  <1> SUFFICES ASSUME e.ino # 0
               PROVE  /\ e.ino \in 1..Len(inodes')
                      /\ inodes'[e.ino].content # v =>
                            /\ e.stamp < inodes'[e.ino].stamp
                            /\ \A q \in Paths, t \in Slots :
                                  disk'[q].slots[t] = e.ino => e.stamp < disk'[q].stamp[t]
                      /\ dir'[f].target = e.ino => e.stamp <= inodes'[e.ino].stamp
                      /\ disk'[f].slots["target"] = e.ino => e.stamp <= disk'[f].stamp["target"]
                      /\ \A q \in Paths, s \in Slots :
                            dir'[q][s] = e.ino \/ disk'[q].slots[s] = e.ino => q = f
    BY DEF Sound
  <1>1. /\ e.ino \in 1..Len(inodes)
        /\ inodes[e.ino].content # v =>
              /\ e.stamp < inodes[e.ino].stamp
              /\ \A q \in Paths, t \in Slots :
                    disk[q].slots[t] = e.ino => e.stamp < disk[q].stamp[t]
        /\ dir[f].target = e.ino => e.stamp <= inodes[e.ino].stamp
        /\ disk[f].slots["target"] = e.ino => e.stamp <= disk[f].stamp["target"]
        /\ \A q \in Paths, s \in Slots :
              dir[q][s] = e.ino \/ disk[q].slots[s] = e.ino => q = f
    BY DEF Sound
  <1>2. /\ Len(inodes') = Len(inodes)
        /\ \A p \in Paths :
              /\ dir'[p] \in {dir[p], disk[p].slots}
              /\ disk'[p].slots = dir'[p]
        /\ \A i \in 1..Len(inodes) : inodes'[i].content = inodes[i].content
    BY PowerFailureFs
  <1>3. inodes'[e.ino].content # v => e.stamp < inodes'[e.ino].stamp
    BY <1>1, <1>2, PowerInodes
  <1>4. ASSUME NEW q \in Paths, NEW t \in Slots, dir'[q][t] = e.ino
        PROVE  /\ disk'[q].stamp[t] = inodes'[e.ino].stamp
               /\ \/ dir[q][t] = e.ino /\ inodes'[e.ino].stamp = inodes[e.ino].stamp
                  \/ disk[q].slots[t] = e.ino /\ inodes'[e.ino].stamp = disk[q].stamp[t]
    BY <1>4, PowerStamps
  <1>5. dir'[f].target = e.ino => e.stamp <= inodes'[e.ino].stamp
    BY <1>1, <1>4, SlotNames
  <1>6. disk'[f].slots["target"] = e.ino => e.stamp <= disk'[f].stamp["target"]
    BY <1>2, <1>4, <1>5, SlotNames
  <1>7. \A q \in Paths, t \in Slots :
           disk'[q].slots[t] = e.ino => disk'[q].stamp[t] = inodes'[e.ino].stamp
    BY <1>2, <1>4
  <1>8. \A q \in Paths, s \in Slots :
           dir'[q][s] = e.ino \/ disk'[q].slots[s] = e.ino => q = f
    BY <1>1, <1>2
  <1> QED
    BY <1>1, <1>2, <1>3, <1>5, <1>6, <1>7, <1>8

LEMMA PowerFailureClass ==
    ASSUME Inv, Inv', ClassInv, PowerFailure
    PROVE  ClassInv'
  <1>1. /\ FsOK /\ FsOK' /\ journal.files \in [Files -> FileRecords]
        /\ Files \subseteq Paths
    BY FileType DEF Inv, MemoryOK
  <1>2. /\ Len(inodes') = Len(inodes)
        /\ \A i \in 1..Len(inodes) : inodes'[i].content = inodes[i].content
    BY <1>1, PowerFailureFs
  <1>3. /\ pc' = "idle" /\ orig' = NoEntries /\ UNCHANGED <<journal, edits>>
    BY DEF PowerFailure, Return, db
  <1>4. BoundOK(inodes', edits')
    BY <1>2, <1>3 DEF BoundOK, ClassInv
  <1>5. SoundOK'
    <2>1. \A f \in Files : Sound(journal.files[f].candidate, f, inodes', dir', disk', edits)
      BY <1>1, PowerSound DEF ClassInv, SoundOK, FileRecords
    <2> QED
      BY <1>3, <2>1 DEF SoundOK, Placed
  <1>6. OldOK'
    <2>1. \A f \in Files : orig'[f].ino = 0
      BY <1>1, <1>3 DEF NoEntries, Missing
    <2> QED
      BY <1>2, <1>3, <2>1 DEF OldOK, ClassInv
  <1>7. FreshOK' /\ WrittenOK' /\ RenamedOK' /\ OpenedOK'
    BY <1>3 DEF FreshOK, WrittenOK, RenamedOK, OpenedOK, Activating, Exchanged, Placed,
       Committing, Cleaning, Opened
  <1> QED
    BY <1>4, <1>5, <1>6, <1>7 DEF ClassInv

LEMMA InitClass == Init => ClassInv
  <1> SUFFICES ASSUME Init  PROVE ClassInv
    OBVIOUS
  <1>1. /\ pc = "idle" /\ orig = NoEntries /\ journal = NoJournal /\ edits = 0
        /\ inodes = [p \in 1..NumPaths |-> [content |-> 0, stamp |-> 0]]
    BY DEF Init
  <1>2. Len(inodes) = NumPaths /\ NumPaths \in Nat
    BY <1>1, PathsAssumption
  <1>3. BoundOK(inodes, edits)
    BY <1>1, <1>2 DEF BoundOK
  <1>4. \A f \in Files : /\ journal.files[f].original = Missing
                         /\ journal.files[f].candidate = Missing /\ orig[f] = Missing
    BY <1>1, FileType DEF NoJournal, NoFile, NoEntries
  <1>5. OldOK
    BY <1>4 DEF OldOK, Missing
  <1>6. SoundOK
    BY <1>1, <1>4, SoundFacts DEF SoundOK, Placed
  <1>7. FreshOK /\ WrittenOK /\ RenamedOK /\ OpenedOK
    BY <1>1 DEF FreshOK, WrittenOK, RenamedOK, OpenedOK, Activating, Exchanged, Placed,
       Committing, Cleaning, Opened
  <1> QED
    BY <1>3, <1>5, <1>6, <1>7 DEF ClassInv

LEMMA ClassNext ==
    ASSUME Inv, Inv', KeptInv, KeptInv', CandidatesOK, ClassInv, [Next]_vars
    PROVE  ClassInv'
  BY OrdinaryClass, BeginClass, ExternalClass, PowerFailureClass DEF Next, Ordinary

\* What an identity on record that fits the active name says of its bytes.
LEMMA ClassTrue ==
    ASSUME Inv, ClassInv
    PROVE  ClassificationTrue
  <1>1. FsOK /\ edits \in Nat /\ Empty \notin Nat /\ Files \subseteq Paths
        /\ 1 \in Files
    BY PathsAssumption, FileType, FirstFile DEF Inv, MemoryOK
  <1>2. ASSUME NEW f \in Files, SamePlacement(journal.files[f].candidate, Entry(f, "target"))
        PROVE  Entry(f, "target").content = edits
    <2> DEFINE e == journal.files[f].candidate
    <2>1. e.ino # 0 /\ e.ino = Entry(f, "target").ino /\ e.stamp = Entry(f, "target").stamp
      BY <1>2 DEF SamePlacement, Exists
    <2>2. /\ e.ino = dir[f].target /\ e.stamp = inodes[e.ino].stamp
          /\ Entry(f, "target").content = inodes[e.ino].content
      BY <1>1, <2>1, EntryFacts, SlotNames
    <2>3. Sound(e, f, inodes, dir, disk, edits)
      BY DEF ClassInv, SoundOK
    <2>4. inodes[e.ino].stamp \in Nat
      BY <1>1, <2>1, <2>3, StampType DEF Sound
    <2> QED
      BY <2>1, <2>2, <2>3, <2>4 DEF Sound
  <1>3. ASSUME NEW f \in Files, OriginalPlacement(journal.files[f].original, Entry(f, "target"))
        PROVE  Entry(f, "target").content # edits
    <2>1. CASE Exists(journal.files[f].original)
      <3>1. /\ journal.files[f].original.ino # 0
            /\ journal.files[f].original.ino = Entry(f, "target").ino
        BY <1>3, <2>1 DEF OriginalPlacement, SamePlacement, Exists
      <3>2. inodes[Entry(f, "target").ino].content # edits
        BY <3>1 DEF ClassInv, OldOK
      <3> QED
        BY <1>1, <3>1, <3>2, EntryFacts, SlotNames
    <2>2. CASE ~Exists(journal.files[f].original)
      <3>1. Entry(f, "target") = Missing
        BY <1>1, <1>3, <2>2, EntryFacts, SlotNames DEF OriginalPlacement
      <3> QED
        BY <1>1, <3>1 DEF Missing
    <2> QED
      BY <2>1, <2>2
  <1>4. \A f \in Files :
           /\ ClassifyFile(f) = "applied" =>
                 SamePlacement(journal.files[f].candidate, Entry(f, "target"))
           /\ ClassifyFile(f) \in {"unapplied", "unstaged"} =>
                 OriginalPlacement(journal.files[f].original, Entry(f, "target"))
    BY DEF ClassifyFile
  <1>5. RecoveryState = "applied" => \A f \in Files : ClassifyFile(f) = "applied"
    BY DEF RecoveryState
  <1>6. RecoveryState = "unapplied" =>
           \A f \in Files : ClassifyFile(f) \in {"unapplied", "unstaged"}
    BY DEF RecoveryState
  <1> QED
    BY <1>2, <1>3, <1>4, <1>5, <1>6 DEF ClassificationTrue

\* Although the journal records identities and never bytes, what recovery shows
\* the administrator is true of the bytes, after any crash, power failure,
\* rollback and save by another program, and whatever fsync orders: the files
\* of an "applied" edit hold the candidate, those of an "unapplied" one do not.
THEOREM ClassificationTheorem == Spec => []ClassificationTrue
  <1>1. Inv /\ KeptInv /\ [Next]_vars /\ Inv' => KeptInv'
    BY KeptNext
  <1>2. Inv /\ CandidatesOK /\ [Next]_vars => CandidatesOK'
    BY CandidatesStep
  <1>3. Inv /\ KeptInv /\ CandidatesOK /\ ClassInv /\ [Next]_vars /\ Inv' /\ KeptInv'
           => ClassInv'
    BY ClassNext
  <1>4. Init => CandidatesOK
    BY InitWhole DEF WholeInv
  <1>5. Spec => [](Inv /\ KeptInv /\ CandidatesOK /\ ClassInv)
    BY Invariance, InitKept, InitClass, <1>1, <1>2, <1>3, <1>4, PTL DEF Spec
  <1>6. Inv /\ ClassInv => ClassificationTrue
    BY ClassTrue
  <1> QED
    BY <1>5, <1>6, PTL

-----------------------------------------------------------------------------
(* All or nothing.                                                         *)

\* No other program has written, and nothing was adopted as it is.
Quiet == used = {} /\ ~adopted

\* The identity e fits no inode that has another content than v, now or after
\* a power failure.
Fits(e, n, k, v) ==
    e.ino # 0 =>
        /\ e.ino \in 1..Len(n) /\ e.stamp <= n[e.ino].stamp
        /\ \A p \in Paths, t \in Slots :
              k[p].slots[t] = e.ino => e.stamp <= k[p].stamp[t]
        /\ n[e.ino].content # v =>
              /\ e.stamp < n[e.ino].stamp
              /\ \A p \in Paths, t \in Slots :
                    k[p].slots[t] = e.ino => e.stamp < k[p].stamp[t]

\* The selection is of version v of every edited file.
Selects(v) ==
    \A f \in Files :
        /\ Fits(selection[f], inodes, disk, v)
        /\ selection[f].ino = 0 => f \in Created /\ v = 0

\* New files, and only those, have no original on record.
OriginOK ==
    \A f \in Files : selection[f].ino = 0 =>
        orig[f].ino = 0 /\ journal.files[f].original.ino = 0

UnselectedOK ==
    pc \in {"write", "mark"} => \A f \in Files : selection[f].ino # rm.fd

\* A file that was exchanged back: the selected bytes, with new times.
Returned(v, p) ==
    /\ restored /\ p \in Files /\ selection[p].ino = dir[p].target
    /\ selection[p].stamp < inodes[dir[p].target].stamp
    /\ inodes[dir[p].target].content = v

\* An active entry that is on disk is there with its times, unless it was
\* exchanged back.
StampsOK(v) ==
    \A p \in Paths :
        dir[p].target # 0 /\ disk[p].slots["target"] = dir[p].target =>
            disk[p].stamp["target"] = inodes[dir[p].target].stamp \/ Returned(v, p)

\* An edit that has begun writes another version than the selected one.
Begun(v) == pc # "idle" \/ Pending => v < edits

\* The active files are those of the selection, with its version of the edited
\* ones, and with its times unless a file was exchanged back.
Absent == \A f \in Files : selection[f].ino = 0 => dir[f].target = 0
Named(p) == selection[p].ino # 0 => dir[p].target = selection[p].ino
Held(v) ==
    /\ Absent /\ \A p \in Paths : Named(p)
    /\ \A f \in Files : dir[f].target # 0 => inodes[dir[f].target].content = v
    /\ restored \/ Verified

BystandersOK == \A p \in Paths \ Files : Named(p)

\* Nothing is replaced, or replaced for good.
Unreplaced ==
    \/ ~Pending
    \/ pc \in Before \cup {"abort", "clear"}
    \/ pc = "rename" /\ at = 1
    \/ pc \in Cleaning /\ rm.caller = "abort"

\* The files still to be replaced are the selected ones; what was displaced is.
Waiting ==
    IF pc = "rename" THEN at..NumEdits
    ELSE IF pc \in Exchanged \cup Placed \/ Committing THEN (at + 1)..NumEdits
    ELSE {}

Selected(v, f, i) == i = selection[f].ino /\ (i # 0 => inodes[i].content = v)

UndisturbedOK(v) ==
    /\ pc \in Exchanged => Selected(v, at, dir[at].stage)
    /\ \A f \in Files : f \in Waiting => Selected(v, f, dir[f].target)

\* All files have the candidate's bytes.
Replaced ==
    \A f \in Files : dir[f].target # 0 /\ inodes[dir[f].target].content = edits

Resolving(places) == pc \in places \/ (pc \in Cleaning /\ rm.caller = "recover")

ResolutionOK ==
    /\ pc = "authorize_discard" => choice = "discard_unapplied"
    /\ pc \in {"validate", "authorize_current", "recheck_final"} =>
          choice # "discard_unapplied"
    /\ Resolving({"authorize_discard"}) /\ choice = "discard_unapplied" => Absent
    /\ pc = "recheck_discard" => Absent
    /\ Resolving({"validate", "authorize_current", "recheck_final"})
          /\ choice \notin {"discard_unapplied", "adopt_current"} => Replaced
    /\ pc = "finalize" /\ choice # "adopt_current" => Replaced /\ seen = Current

QuietAt(v) ==
    /\ Selects(v) /\ Begun(v) /\ UnselectedOK /\ StampsOK(v) /\ BystandersOK
    /\ (Unreplaced => Held(v)) /\ UndisturbedOK(v) /\ ResolutionOK

AllInv == OriginOK /\ (Quiet => \E v \in 0..edits : QuietAt(v))

-----------------------------------------------------------------------------
\* Only the end of an edit selects.
Selecting ==
    /\ pc = "finalize" /\ Return /\ journal' = NoJournal
    /\ selection' = [p \in Paths |-> Identity(seen[p])]
    /\ adopted' = (adopted \/ choice = "adopt_current")
    /\ UNCHANGED <<fs, edits, faults, saved, used, restored>>

LEMMA SelectionKept ==
    ASSUME Ordinary
    PROVE  \/ UNCHANGED <<selection, adopted>> /\ restored' \in {restored, TRUE}
           \/ Selecting
  <1> USE DEF db, history
  <1>1. CASE Staging \/ StageFails
    <2>1. CASE Abort
      BY <2>1 DEF Abort, Discard
    <2> QED
      BY <1>1, <2>1 DEF Staging, CreateJournal, StageCreate, StageWrite, MarkCandidate,
         StageFails, Refuse
  <1>2. CASE FinalizeEdit
    BY <1>2 DEF FinalizeEdit, Refuse, Selecting
  <1>3. CASE Activation /\ ~FinalizeEdit
    <2>1. CASE Abort \/ Refuse
      BY <2>1 DEF Abort, Discard, Refuse
    <2> QED
      BY <1>3, <2>1 DEF Activation, RecheckStaged, EnterReplacing, Authorize, Rename,
         VerifyActive, CheckRollback, ExchangeBack, MarkPlacement, SyncActive,
         ConfirmActive, MarkApplied, EnterFinalizing, InspectCommitted, ActivationFails
  <1>4. CASE Cleanup
    <2>1. CASE CleanupFails \/ Cleaned
      BY <2>1 DEF CleanupFails, Cleaned
    <2> QED
      BY <1>4, <2>1 DEF Cleanup, DiscardPrepared, CleanOpen, Quarantine,
         VerifyQuarantine, Scrub, Unlink, ClearAborted, Refuse
  <1>5. CASE Recovery \/ Resolve
    BY <1>5 DEF Recovery, Resolve, AuthorizeDiscard, ClearDiscarded, ValidateCurrent,
       AuthorizeCurrent, RecheckCurrent, ResolveDiscard, ResolveCurrent, Refuse
  <1>6. CASE HostCleanup \/ Crash \/ UNCHANGED vars
    BY <1>6 DEF HostCleanup, Crash, vars
  <1> QED
    BY <1>1, <1>2, <1>3, <1>4, <1>5, <1>6 DEF Ordinary, Service

\* After a step of another program, or an adoption, nothing is claimed.
LEMMA QuietShrinks ==
    ASSUME [Next]_vars, Quiet'
    PROVE  Quiet /\ (Ordinary \/ Begin \/ PowerFailure)
  <1>1. CASE Ordinary
    <2>1. used' = used
      BY <1>1, SavedShrinks
    <2>2. adopted => adopted'
      BY <1>1, SelectionKept DEF Selecting
    <2> QED
      BY <1>1, <2>1, <2>2 DEF Quiet
  <1>2. CASE Begin \/ PowerFailure
    <2>1. UNCHANGED <<used, adopted>>
      BY <1>2 DEF Begin, PowerFailure, history
    <2> QED
      BY <1>2, <2>1 DEF Quiet
  <1>3. CASE External
    BY <1>3 DEF External, Quiet
  <1> QED
    BY <1>1, <1>2, <1>3 DEF Next, Ordinary

\* An original on record is a reviewed file.
LEMMA OriginStep ==
    ASSUME Inv, OriginOK, [Next]_vars
    PROVE  OriginOK'
  <1>1. Files \subseteq Paths /\ Missing.ino = 0
    BY FileType DEF Missing
  <1>2. SUFFICES ASSUME NEW f \in Files, selection'[f].ino = 0
                 PROVE  orig'[f].ino = 0 /\ journal'.files[f].original.ino = 0
    BY DEF OriginOK
  <1>3. CASE Ordinary
    <2>1. CASE Selecting
      BY <1>1, <2>1 DEF Selecting, Return, NoEntries, NoJournal, NoFile
    <2>2. CASE UNCHANGED selection
      BY <1>2, <1>3, <2>2, Recorded DEF OriginOK
    <2> QED
      BY <1>3, <2>1, <2>2, SelectionKept
  <1>4. CASE Begin
    <2>1. UNCHANGED <<journal, selection>> /\ orig'[f] = Missing
      BY <1>1, <1>2, <1>4 DEF Begin, db, Exists
    <2> QED
      BY <1>1, <1>2, <2>1 DEF OriginOK
  <1>5. CASE External
    BY <1>2, <1>5 DEF External, db, mem, OriginOK
  <1>6. CASE PowerFailure
    <2>1. UNCHANGED <<journal, selection>> /\ orig'[f] = Missing
      BY <1>1, <1>6 DEF PowerFailure, Return, db, NoEntries
    <2> QED
      BY <1>1, <1>2, <2>1 DEF OriginOK
  <1> QED
    BY <1>3, <1>4, <1>5, <1>6 DEF Next, Ordinary

-----------------------------------------------------------------------------
\* What is selected fits one version through every step of the service.
LEMMA FitsStep ==
    ASSUME FsOK, FsOK', Preserves, Effect, NEW e \in Entries, NEW v,
           Fits(e, inodes, disk, v), pc \in {"write", "mark"} => e.ino # rm.fd
    PROVE  Fits(e, inodes', disk', v)
  <1> SUFFICES ASSUME e.ino # 0
               PROVE  /\ e.ino \in 1..Len(inodes') /\ e.stamp <= inodes'[e.ino].stamp
                      /\ \A p \in Paths, t \in Slots :
                            disk'[p].slots[t] = e.ino => e.stamp <= disk'[p].stamp[t]
                      /\ inodes'[e.ino].content # v =>
                            /\ e.stamp < inodes'[e.ino].stamp
                            /\ \A p \in Paths, t \in Slots :
                                  disk'[p].slots[t] = e.ino => e.stamp < disk'[p].stamp[t]
    BY DEF Fits
  <1>1. /\ e.ino \in 1..Len(inodes) /\ e.stamp <= inodes[e.ino].stamp
        /\ \A p \in Paths, t \in Slots :
              disk[p].slots[t] = e.ino => e.stamp <= disk[p].stamp[t]
        /\ inodes[e.ino].content # v =>
              /\ e.stamp < inodes[e.ino].stamp
              /\ \A p \in Paths, t \in Slots :
                    disk[p].slots[t] = e.ino => e.stamp < disk[p].stamp[t]
    BY DEF Fits
  <1>2. Len(inodes) \in Nat /\ Len(inodes') \in Nat /\ Len(inodes') >= Len(inodes)
    BY DEF FsOK, Preserves
  <1>3. e.ino \in 1..Len(inodes') /\ e.stamp \in Nat
    BY <1>1, <1>2 DEF Entries
  <1>4. inodes[e.ino].stamp \in Nat /\ inodes'[e.ino].stamp \in Nat
    <2>1. inodes'[e.ino] \in INode
      BY <1>3, ElementOfSeq DEF FsOK
    <2> QED
      BY <1>1, <2>1, StampType DEF INode
  <1>5. inodes'[e.ino].stamp >= inodes[e.ino].stamp
    BY <1>1 DEF Preserves
  <1>6. ASSUME NEW p \in Paths, NEW t \in Slots, disk'[p].slots[t] = e.ino
        PROVE  \/ disk'[p].stamp[t] = inodes'[e.ino].stamp
               \/ disk[p].slots[t] = e.ino /\ disk'[p].stamp[t] = disk[p].stamp[t]
    BY <1>6 DEF Preserves
  <1>7. e.stamp <= inodes'[e.ino].stamp
    BY <1>1, <1>3, <1>4, <1>5
  <1>8. CASE inodes'[e.ino].content # inodes[e.ino].content
    <2>1. /\ inodes'[e.ino].stamp = inodes[e.ino].stamp + 1
          /\ \A p \in Paths, t \in Slots :
                disk'[p].slots[t] = e.ino => disk'[p].stamp[t] = inodes'[e.ino].stamp
      BY <1>1, <1>8 DEF Effect
    <2>2. e.stamp < inodes'[e.ino].stamp
      BY <1>1, <1>3, <1>4, <2>1
    <2> QED
      BY <1>3, <1>7, <2>1, <2>2
  <1>9. CASE inodes'[e.ino].content = inodes[e.ino].content
    <2>1. inodes[e.ino].content # v => e.stamp < inodes'[e.ino].stamp
      BY <1>1, <1>3, <1>4, <1>5
    <2> QED
      BY <1>1, <1>3, <1>6, <1>7, <1>9, <2>1
  <1> QED
    BY <1>8, <1>9

LEMMA FitsPower ==
    ASSUME FsOK, FsOK', PowerFailure, NEW e \in Entries, NEW v, Fits(e, inodes, disk, v)
    PROVE  Fits(e, inodes', disk', v)
  <1> SUFFICES ASSUME e.ino # 0
               PROVE  /\ e.ino \in 1..Len(inodes') /\ e.stamp <= inodes'[e.ino].stamp
                      /\ \A p \in Paths, t \in Slots :
                            disk'[p].slots[t] = e.ino => e.stamp <= disk'[p].stamp[t]
                      /\ inodes'[e.ino].content # v =>
                            /\ e.stamp < inodes'[e.ino].stamp
                            /\ \A p \in Paths, t \in Slots :
                                  disk'[p].slots[t] = e.ino => e.stamp < disk'[p].stamp[t]
    BY DEF Fits
  <1>1. /\ e.ino \in 1..Len(inodes) /\ e.stamp <= inodes[e.ino].stamp
        /\ \A p \in Paths, t \in Slots :
              disk[p].slots[t] = e.ino => e.stamp <= disk[p].stamp[t]
        /\ inodes[e.ino].content # v =>
              /\ e.stamp < inodes[e.ino].stamp
              /\ \A p \in Paths, t \in Slots :
                    disk[p].slots[t] = e.ino => e.stamp < disk[p].stamp[t]
    BY DEF Fits
  <1>2. /\ Len(inodes') = Len(inodes)
        /\ \A p \in Paths : disk'[p].slots = dir'[p]
        /\ \A i \in 1..Len(inodes) : inodes'[i].content = inodes[i].content
    BY PowerFailureFs
  <1>3. /\ e.stamp <= inodes'[e.ino].stamp
        /\ inodes'[e.ino].content # v => e.stamp < inodes'[e.ino].stamp
    BY <1>1, <1>2, PowerInodes
  <1>4. ASSUME NEW q \in Paths, NEW t \in Slots, disk'[q].slots[t] = e.ino
        PROVE  disk'[q].stamp[t] = inodes'[e.ino].stamp
    BY <1>2, <1>4, PowerStamps
  <1> QED
    BY <1>1, <1>2, <1>3, <1>4

LEMMA BeginStamps ==
    ASSUME FsOK, FreshNames, NEW p \in Paths
    PROVE  disk'[p].stamp["target"] = disk[p].stamp["target"]
  <1>1. disk[p].stamp \in [Slots -> Nat]
    BY DEF FsOK, Disks
  <1> DEFINE new == [disk[p].stamp EXCEPT !.stage = 0, !.remove = 0]
  <1>2. disk'[p].stamp = new
    BY DEF FreshNames
  <1>3. new["target"] = disk[p].stamp["target"]
    BY <1>1 DEF Slots
  <1> HIDE DEF new
  <1> QED
    BY <1>2, <1>3

LEMMA FitsBegin ==
    ASSUME FsOK, UNCHANGED inodes, FreshNames, NEW e, NEW v, Fits(e, inodes, disk, v)
    PROVE  Fits(e, inodes', disk', v)
  <1> SUFFICES ASSUME e.ino # 0  PROVE Fits(e, inodes', disk', v)
    BY DEF Fits
  <1>1. ASSUME NEW p \in Paths, NEW t \in Slots, disk'[p].slots[t] = e.ino
        PROVE  disk[p].slots[t] = e.ino /\ disk'[p].stamp[t] = disk[p].stamp[t]
    <2>1. t = "target"
      BY <1>1, BeginFs DEF Slots
    <2> QED
      BY <1>1, <2>1, BeginFs, BeginStamps
  <1> QED
    BY <1>1 DEF Fits

\* The active file of a synchronised path, with the times it has on disk.
LEMMA EntryFits ==
    ASSUME FsOK, NEW f \in Files, dir[f].target # 0,
           disk[f].slots["target"] = dir[f].target,
           disk[f].stamp["target"] = inodes[dir[f].target].stamp
    PROVE  Fits(Identity(Entry(f, "target")), inodes, disk, inodes[dir[f].target].content)
  <1> DEFINE e == Identity(Entry(f, "target"))
  <1>1. Files \subseteq Paths /\ "target" \in Slots
    BY FileType, SlotNames
  <1>2. /\ Entry(f, "target") \in Entries /\ Entry(f, "target").ino = dir[f].target
        /\ Entry(f, "target").stamp = inodes[dir[f].target].stamp
    BY <1>1, EntryFacts
  <1>3. e.ino = dir[f].target /\ e.stamp = inodes[e.ino].stamp
    BY <1>2 DEF Identity, Entries
  <1>4. e.ino \in 1..Len(inodes) /\ inodes[e.ino].stamp \in Nat
    BY <1>1, <1>3, IdRange, StampType
  <1>5. ASSUME NEW p \in Paths, NEW t \in Slots, disk[p].slots[t] = e.ino
        PROVE  disk[p].stamp[t] = inodes[e.ino].stamp
    <2>1. p = f
      <3>1. e.ino \in Ids /\ e.ino # 0
        BY <1>4 DEF Ids, FsOK
      <3>2. Refers(p, e.ino) /\ Refers(f, e.ino)
        BY <1>1, <1>3, <1>5, <3>1 DEF Refers
      <3> QED
        BY <1>1, <3>1, <3>2 DEF FsOK
    <2>2. t = "target"
      BY <1>1, <1>3, <1>4, <1>5, <2>1 DEF FsOK, OneName
    <2> QED
      BY <1>1, <1>3, <2>1, <2>2
  <1>6. e.stamp <= inodes[e.ino].stamp
    BY <1>3, <1>4
  <1> HIDE DEF e
  <1>7. Fits(e, inodes, disk, inodes[e.ino].content)
    BY <1>3, <1>4, <1>5, <1>6 DEF Fits
  <1> QED
    BY <1>3, <1>7 DEF e

\* Only a new file is written by Commit.
LEMMA UnselectedStep ==
    ASSUME Inv, UnselectedOK, NEW v, Selects(v), Ordinary
    PROVE  UnselectedOK'
  <1> USE DEF mem
  <1> SUFFICES ASSUME pc' \in {"write", "mark"}
               PROVE  \A f \in Files : selection'[f].ino # rm'.fd
    BY DEF UnselectedOK
  <1>1. FsOK /\ rm \in Removals /\ Len(inodes) \in Nat
    BY DEF Inv, MemoryOK, FsOK
  <1>2. UNCHANGED selection
    BY SelectionKept DEF Selecting, Return
  <1>3. CASE StageCreate
    <2>1. rm' = [rm EXCEPT !.fd = Len(inodes) + 1]
      BY <1>3 DEF StageCreate, Abort, Discard, Goto
    <2>2. rm'.fd = Len(inodes) + 1
      BY <1>1, <2>1 DEF Removals
    <2>3. \A f \in Files : selection[f].ino = 0 \/ selection[f].ino \in 1..Len(inodes)
      BY DEF Selects, Fits
    <2>4. \A i : i = 0 \/ i \in 1..Len(inodes) => i # Len(inodes) + 1
      BY <1>1
    <2> QED
      BY <1>2, <2>2, <2>3, <2>4
  <1>4. CASE StageWrite
    <2>1. rm' = rm /\ pc = "write"
      BY <1>4 DEF StageWrite
    <2> QED
      BY <1>2, <2>1 DEF UnselectedOK
  <1>5. CASE UNCHANGED vars
    BY <1>5 DEF vars, UnselectedOK
  <1>6. CASE CreateJournal \/ MarkCandidate \/ RecheckStaged \/ EnterReplacing
    BY <1>6 DEF CreateJournal, MarkCandidate, RecheckStaged, EnterReplacing, Refuse, Return,
       Abort, Discard, Goto
  <1>7. pc' \in Before /\ [Next]_vars /\ ~External
    BY OrdinaryNext DEF Before
  <1> QED
    BY <1>3, <1>4, <1>5, <1>6, <1>7, Landing

-----------------------------------------------------------------------------
\* The two steps that change an active file.
Renaming ==
    /\ pc = "rename" /\ CanRename /\ Swap(at, "stage", "target")
    /\ Goto("verify", at) /\ activated' = TRUE
    /\ UNCHANGED <<disk, db, orig, cand, unsure, rm, seen, choice, edits, faults, history>>

Returning ==
    /\ pc = "exchange_back" /\ dir[at].stage # 0 /\ dir[at].target # 0
    /\ Swap(at, "stage", "target") /\ (disk' = disk \/ SyncDirectory(at))
    /\ restored' = TRUE /\ UNCHANGED <<journal, selection>>
    /\ Return \/ (at = 1 /\ Discard)

LEMMA ActiveStays ==
    ASSUME Inv, Ordinary
    PROVE  ActiveKept \/ Renaming \/ Returning
  <1>1. FsOK /\ at \in Paths /\ edits \in 0..MaxEdits
    BY FileType DEF Inv, MemoryOK
  <1>2. CASE UNCHANGED <<inodes, dir>>
    BY <1>2, QuietKept
  <1>3. CASE UNCHANGED fs
    BY <1>2, <1>3 DEF fs
  <1>4. CASE Refuse
    BY <1>3, <1>4 DEF Refuse
  <1>5. CASE pc \in {"write", "mark"} /\ UNCHANGED dir /\ (UNCHANGED disk \/ SyncDirectory(at))
             /\ \E c \in {edits, Empty} : inodes' = Write(rm.fd, c)
    <2>1. PICK c \in {edits, Empty} : inodes' = Write(rm.fd, c)
      BY <1>5
    <2>2. /\ rm.fd \in Ids /\ rm.fd # 0 /\ \A q \in Paths : Refers(q, rm.fd) => q = at
          /\ dir[at].target # rm.fd
      BY <1>5, OpenStage DEF Inv, DescriptorOK
    <2>3. Local(at) /\ \A j \in 1..Len(inodes) : j # rm.fd => inodes'[j] = inodes[j]
      BY <1>1, <1>5, <2>1, <2>2, NoWork, WriteLocal
    <2>4. dir[at].target # 0 => dir[at].target \in 1..Len(inodes)
      BY <1>1, IdRange, SlotNames
    <2> QED
      BY <1>1, <1>5, <2>2, <2>3, <2>4, LocalKept
  <1>6. CASE CreateJournal \/ MarkCandidate
    BY <1>2, <1>3, <1>4, <1>6 DEF CreateJournal, MarkCandidate
  <1>7. CASE StageCreate
    <2>1. CASE UNCHANGED fs
      BY <1>3, <2>1
    <2>2. CASE /\ inodes' = Append(inodes, [content |-> Empty, stamp |-> 0])
               /\ dir' = [dir EXCEPT ![at].stage = Len(inodes) + 1] /\ disk' = disk
      <3>1. /\ Local(at) /\ dir'[at] = [dir[at] EXCEPT !["stage"] = Len(inodes) + 1]
            /\ \A i \in 1..Len(inodes) : inodes'[i] = inodes[i]
        BY <1>1, <2>2, CreateLocal, SlotNames, NoWork
      <3>2. dir[at].target # 0 => dir[at].target \in 1..Len(inodes)
        BY <1>1, IdRange, SlotNames
      <3>3. dir'[at].target = dir[at].target
        BY <1>1, <3>1 DEF FsOK, Slots
      <3> QED
        BY <1>1, <3>1, <3>2, <3>3, LocalKept
    <2> QED
      BY <1>7, <2>1, <2>2 DEF StageCreate
  <1>8. CASE StageWrite
    BY <1>5, <1>8 DEF StageWrite
  <1>9. CASE StageFails
    <2>1. /\ pc \in {"write", "mark"} /\ UNCHANGED dir /\ (UNCHANGED disk \/ SyncDirectory(at))
          /\ inodes' = inodes \/ inodes' = Write(rm.fd, Empty)
      BY <1>9 DEF StageFails
    <2> QED
      BY <1>2, <1>5, <2>1
  <1>10. CASE Rename
    <2>1. CASE Renaming
      BY <2>1
    <2>2. CASE UNCHANGED fs
      BY <1>3, <2>2
    <2>3. ActivationFails => UNCHANGED fs
      BY DEF ActivationFails, Refuse
    <2> QED
      BY <1>10, <2>1, <2>2, <2>3 DEF Rename, Renaming
  <1>11. CASE Activation /\ ~Rename
    <2>1. CASE ExchangeBack
      BY <1>4, <2>1 DEF ExchangeBack, Returning, db
    <2>2. CASE RecheckStaged \/ EnterReplacing \/ Authorize \/ SyncActive
      BY <1>2, <1>3, <1>4, <2>2 DEF RecheckStaged, EnterReplacing, Authorize, SyncActive
    <2>3. CASE VerifyActive \/ CheckRollback \/ MarkPlacement \/ ConfirmActive
      BY <1>3, <1>4, <2>3 DEF VerifyActive, CheckRollback, MarkPlacement, ConfirmActive
    <2>4. CASE MarkApplied \/ EnterFinalizing \/ InspectCommitted \/ FinalizeEdit
      BY <1>3, <1>4, <2>4 DEF MarkApplied, EnterFinalizing, InspectCommitted, FinalizeEdit
    <2> QED
      BY <1>11, <2>1, <2>2, <2>3, <2>4 DEF Activation
  <1>12. CASE Cleanup
    BY <1>3, <1>4, <1>12, CleanupKept DEF Cleanup, DiscardPrepared, ClearAborted
  <1>13. CASE HostCleanup
    <2>1. PICK f \in Files, s \in {"stage", "remove"} :
             dir' = [dir EXCEPT ![f][s] = 0] /\ UNCHANGED inodes
      BY <1>13 DEF HostCleanup
    <2>2. \A p \in Paths : dir'[p].target = dir[p].target
      BY <1>1, <2>1, SlotNames, FileType DEF FsOK
    <2> QED
      BY <2>1, <2>2 DEF ActiveKept
  <1>14. CASE Recovery \/ Resolve \/ Crash \/ UNCHANGED vars
    BY <1>3, <1>14 DEF Recovery, Resolve, AuthorizeDiscard, ClearDiscarded,
       ValidateCurrent, AuthorizeCurrent, RecheckCurrent, ResolveDiscard, ResolveCurrent,
       Refuse, Crash, vars, fs
  <1> QED
    BY <1>6, <1>7, <1>8, <1>9, <1>10, <1>11, <1>12, <1>13, <1>14 DEF Ordinary, Service, Staging

\* The two names are exchanged, in the directory of one path.
LEMMA RenamingFs ==
    ASSUME Inv, Renaming
    PROVE  /\ at \in Files /\ at \in Paths /\ Local(at) /\ FsOK' /\ UNCHANGED disk
           /\ dir'[at].target = dir[at].stage /\ dir'[at].stage = dir[at].target
           /\ dir[at].stage # 0 /\ dir[at].stage # dir[at].target
           /\ disk[at].slots["target"] = dir[at].target
           /\ \A i \in 1..Len(inodes) : inodes'[i].content = inodes[i].content
  <1>1. at \in Files /\ at \in Paths /\ FsOK
    BY FileType DEF Inv, MemoryOK
  <1>2. Swap(at, "stage", "target") /\ UNCHANGED disk /\ dir[at].stage # 0
    BY DEF Renaming, CanRename
  <1>3. /\ Local(at) /\ FsOK'
        /\ dir'[at].target = dir[at].stage /\ dir'[at].stage = dir[at].target
        /\ \A i \in 1..Len(inodes) : inodes'[i].content = inodes[i].content
    BY <1>1, <1>2, SwapLocal, SlotNames
  <1>4. dir[at].stage # dir[at].target
    BY <1>1, <1>2, SlotNames DEF FsOK, OneName
  <1>5. Synchronised = Files
    BY DEF Renaming, Synchronised, Asking, Cleaning, Opened, Exchanged
  <1>6. disk[at].slots["target"] = dir[at].target
    BY <1>1, <1>5 DEF Inv, SynchronisedOK
  <1> QED
    BY <1>1, <1>2, <1>3, <1>4, <1>6

LEMMA StampsStep ==
    ASSUME Inv, Preserves, NEW v, StampsOK(v), Ordinary, ~Returning, UNCHANGED selection,
           restored => restored'
    PROVE  StampsOK(v)'
  <1>1. SUFFICES ASSUME NEW p \in Paths, dir'[p].target # 0,
                        disk'[p].slots["target"] = dir'[p].target
                 PROVE  \/ disk'[p].stamp["target"] = inodes'[dir'[p].target].stamp
                        \/ Returned(v, p)'
    BY DEF StampsOK
  <1>2. SUFFICES ASSUME disk[p].slots["target"] = dir'[p].target,
                        disk'[p].stamp["target"] = disk[p].stamp["target"]
                 PROVE  \/ disk[p].stamp["target"] = inodes'[dir'[p].target].stamp
                        \/ Returned(v, p)'
    BY <1>1, SlotNames DEF Preserves
  <1>3. CASE dir'[p].target = dir[p].target /\ inodes'[dir[p].target] = inodes[dir[p].target]
    <2>1. disk[p].stamp["target"] = inodes[dir[p].target].stamp \/ Returned(v, p)
      BY <1>1, <1>2, <1>3 DEF StampsOK
    <2> QED
      BY <1>3, <2>1 DEF Returned
  <1>4. CASE ActiveKept
    BY <1>1, <1>3, <1>4 DEF ActiveKept
  <1>5. CASE Renaming
    <2>1. p # at
      BY <1>1, <1>2, <1>5, RenamingFs
    <2>2. FsOK /\ Local(at) /\ at \in Paths
      BY <1>5, RenamingFs DEF Inv
    <2>3. dir'[p] = dir[p]
      BY <2>1, <2>2, Elsewhere
    <2>4. dir[p].target \in Ids /\ Refers(p, dir[p].target)
      BY <1>1, <2>2, <2>3, SlotNames DEF FsOK, Refers
    <2> QED
      BY <1>3, <2>1, <2>2, <2>3, <2>4 DEF Local
  <1> QED
    BY <1>4, <1>5, ActiveStays

-----------------------------------------------------------------------------
LEMMA SelectsStep ==
    ASSUME Inv, FsOK', Preserves, Effect, UnselectedOK, NEW v, Selects(v), UNCHANGED selection
    PROVE  Selects(v)'
  <1>1. ASSUME NEW f \in Files
        PROVE  Fits(selection[f], inodes', disk', v)
    <2>1. selection[f] \in Entries /\ FsOK
      BY FileType DEF Inv, MemoryOK
    <2>2. Fits(selection[f], inodes, disk, v)
      BY DEF Selects
    <2>3. pc \in {"write", "mark"} => selection[f].ino # rm.fd
      BY DEF UnselectedOK
    <2> QED
      BY <2>1, <2>2, <2>3, FitsStep
  <1> QED
    BY <1>1 DEF Selects

\* The files of a finished edit are those that are selected.
LEMMA SelectingStep ==
    ASSUME Inv, NEW v \in Nat, StampsOK(v), Begun(v), ResolutionOK, Selecting, ~adopted'
    PROVE  /\ Selects(edits)' /\ StampsOK(edits)' /\ BystandersOK' /\ Held(edits)'
           /\ Begun(edits)'
  <1>1. /\ pc = "finalize" /\ choice # "adopt_current" /\ UNCHANGED <<fs, edits>>
        /\ selection' = [p \in Paths |-> Identity(seen[p])]
    BY DEF Selecting
  <1>2. Replaced /\ seen = Current
    BY <1>1 DEF ResolutionOK
  <1>3. FsOK /\ Files \subseteq Paths /\ "target" \in Slots
    BY FileType, SlotNames DEF Inv
  <1>4. UNCHANGED <<inodes, dir, disk>>
    BY <1>1 DEF fs
  <1>5. \A p \in Paths : selection'[p] = Identity(Entry(p, "target"))
    BY <1>1, <1>2 DEF Current
  <1>6. ASSUME NEW p \in Paths
        PROVE  /\ selection'[p].ino = dir[p].target
               /\ selection'[p].stamp = Entry(p, "target").stamp
    <2>1. Entry(p, "target") \in Entries /\ Entry(p, "target").ino = dir[p].target
      BY <1>3, EntryFacts
    <2> QED
      BY <1>5, <2>1 DEF Identity, Entries
  <1>7. Verified'
    <2>1. \A p \in Paths : Entry(p, "target")' = Entry(p, "target")
      BY <1>4 DEF Entry, Stat
    <2>2. \A p \in Paths : Entry(p, "target").ino = dir[p].target
      BY <1>3, EntryFacts
    <2> QED
      BY <1>6, <2>1, <2>2 DEF Verified, SamePlacement, Exists
  <1>8. Absent'
    BY <1>3, <1>4, <1>6 DEF Absent
  <1>9. \A f \in Files : dir[f].target # 0 /\ inodes[dir[f].target].content = edits
    BY <1>2 DEF Replaced
  <1>10. v < edits /\ edits \in Nat
    BY <1>1 DEF Begun, Inv, MemoryOK
  <1>11. ASSUME NEW p \in Paths, dir[p].target # 0, disk[p].slots["target"] = dir[p].target
         PROVE  disk[p].stamp["target"] = inodes[dir[p].target].stamp
    <2>1. ~Returned(v, p)
      BY <1>9, <1>10 DEF Returned
    <2> QED
      BY <1>11, <2>1 DEF StampsOK
  <1>12. ASSUME NEW f \in Files
         PROVE  Fits(selection'[f], inodes, disk, edits) /\ selection'[f].ino # 0
    <2>1. Synchronised = Files
      BY <1>1 DEF Synchronised, Asking, Cleaning, Opened, Exchanged
    <2>2. disk[f].slots["target"] = dir[f].target
      BY <1>3, <2>1 DEF Inv, SynchronisedOK
    <2> QED
      BY <1>3, <1>5, <1>6, <1>9, <1>11, <2>2, EntryFits
  <1>13. Selects(edits)'
    BY <1>1, <1>4, <1>12 DEF Selects
  <1>14. StampsOK(edits)'
    BY <1>1, <1>4, <1>11 DEF StampsOK
  <1>15. \A p \in Paths : Named(p)'
    BY <1>4, <1>6 DEF Named
  <1>16. Begun(edits)'
    BY DEF Selecting, Return, Begun, Pending
  <1>17. Held(edits)'
    BY <1>1, <1>3, <1>4, <1>7, <1>8, <1>9, <1>15 DEF Held
  <1> QED
    BY <1>13, <1>14, <1>15, <1>16, <1>17 DEF BystandersOK

\* An unapplied edit is given up.
Discarding ==
    /\ pc = "recheck_discard"
    /\ IF FirstCreation THEN RecoveryState = "unapplied" ELSE Verified
    /\ journal' = NoJournal /\ Return
    /\ UNCHANGED <<fs, selection, edits, faults, history>>

\* How a journal ends.
LEMMA JournalEnds ==
    ASSUME Inv, Ordinary
    PROVE  Pending' \/ ~Pending \/ pc = "clear" \/ Selecting \/ Discarding
  <1> USE DEF db
  <1>1. SUFFICES ASSUME Pending
                 PROVE  journal' # NoJournal \/ pc = "clear" \/ Selecting \/ Discarding
    BY DEF Pending
  <1>2. journal.phase # "none" /\ NoJournal.phase = "none" /\ journal # NoJournal
    BY <1>1, PendingPhase, JournalType DEF Inv, Pending
  <1>3. /\ MemoryOK /\ at \in Files /\ at \in Paths /\ pc # "prepare"
        /\ Identity(cand[at]) \in Entries /\ Identity(orig[at]) \in Entries
    <2>1. at \in Paths /\ cand[at] \in Entries /\ orig[at] \in Entries
      BY FileType DEF Inv, MemoryOK
    <2> QED
      BY <1>2, <2>1, EntryTypes DEF Inv, MemoryOK, PlaceOK
  <1>4. CASE UNCHANGED journal
    BY <1>2, <1>4
  <1>5. CASE Refuse \/ Abort
    BY <1>4, <1>5 DEF Refuse, Abort, Discard
  <1>6. CASE Staging \/ StageFails
    <2>1. CASE MarkCandidate
      <3>1. journal'.phase = journal.phase
        BY <1>3, <2>1, JournalMarked DEF MarkCandidate
      <3> QED
        BY <1>2, <3>1
    <2> QED
      BY <1>3, <1>4, <1>5, <1>6, <2>1 DEF Staging, CreateJournal, StageCreate, StageWrite,
         StageFails
  <1>7. CASE \E phase \in {"prepared", "replacing", "finalizing"} :
                journal' = [journal EXCEPT !.phase = phase]
    BY <1>2, <1>3, <1>7 DEF MemoryOK
  <1>8. CASE RecheckStaged \/ EnterReplacing \/ EnterFinalizing
    BY <1>5, <1>7, <1>8 DEF RecheckStaged, EnterReplacing, EnterFinalizing
  <1>9. CASE MarkPlacement
    <2>1. CASE journal' = [journal EXCEPT !.files[at].candidate = Identity(cand[at]),
                                          !.files[at].original = Identity(orig[at])]
      <3>1. journal'.phase = journal.phase
        BY <1>3, <2>1, JournalPlaced
      <3> QED
        BY <1>2, <3>1
    <2> QED
      BY <1>5, <1>9, <2>1 DEF MarkPlacement
  <1>10. CASE MarkApplied
    <2>1. CASE journal' = [journal EXCEPT !.files[at].candidate = Identity(cand[at]),
                                          !.files[at].original = Identity(orig[at]),
                                          !.files[at].applied = TRUE]
      <3>1. journal'.phase = journal.phase
        BY <1>3, <2>1, JournalApplied
      <3> QED
        BY <1>2, <3>1
    <2> QED
      BY <1>5, <1>10, <2>1 DEF MarkApplied
  <1>11. CASE FinalizeEdit
    BY <1>5, <1>11 DEF FinalizeEdit, Selecting
  <1>12. CASE Authorize \/ Rename \/ VerifyActive \/ CheckRollback \/ ExchangeBack
              \/ SyncActive \/ ConfirmActive \/ InspectCommitted
    BY <1>4, <1>5, <1>12 DEF Authorize, Rename, VerifyActive, CheckRollback, ExchangeBack,
       SyncActive, ConfirmActive, InspectCommitted, ActivationFails
  <1>13. CASE Cleanup
    <2>1. CASE CleanupFails \/ Cleaned
      BY <1>4, <2>1 DEF CleanupFails, Cleaned
    <2> QED
      BY <1>4, <1>13, <2>1 DEF Cleanup, DiscardPrepared, CleanOpen, Quarantine,
         VerifyQuarantine, Scrub, Unlink, ClearAborted
  <1>14. CASE ClearDiscarded
    BY <1>5, <1>14 DEF ClearDiscarded, Discarding
  <1>15. CASE (Recovery /\ ~ClearDiscarded) \/ Resolve \/ HostCleanup \/ Crash \/ UNCHANGED vars
    BY <1>4, <1>5, <1>15 DEF Recovery, Resolve, AuthorizeDiscard, ValidateCurrent,
       AuthorizeCurrent, RecheckCurrent, ResolveDiscard, ResolveCurrent, HostCleanup, Crash,
       vars
  <1> QED
    BY <1>6, <1>8, <1>9, <1>10, <1>11, <1>12, <1>13, <1>14, <1>15
    DEF Ordinary, Service, Activation

-----------------------------------------------------------------------------
\* An abort begins before the first rename is done.
LEMMA AbortLanding ==
    ASSUME Inv, Ordinary, ~Returning, rm'.caller = "abort"
    PROVE  rm.caller = "abort" \/ pc \in Before \/ (pc = "rename" /\ at = 1)
  <1> USE DEF mem
  <1>0. rm \in Removals /\ NoRemoval.caller = "commit"
    BY DEF Inv, MemoryOK, NoRemoval
  <1>1. CASE UNCHANGED rm
    BY <1>1
  <1>2. ~Return
    BY <1>0 DEF Return
  <1>3. ~Refuse
    BY <1>2 DEF Refuse
  <1>4. CASE pc \in Before
    BY <1>4
  <1>5. CASE Staging \/ StageFails
    BY <1>1, <1>3, <1>4, <1>5 DEF Staging, CreateJournal, StageCreate, StageWrite, MarkCandidate,
       StageFails, Before
  <1>6. CASE RecheckStaged \/ EnterReplacing \/ Authorize
    BY <1>4, <1>6 DEF RecheckStaged, EnterReplacing, Authorize, Before
  <1>7. CASE Rename
    BY <1>1, <1>3, <1>7 DEF Rename, ActivationFails
  <1>8. CASE VerifyActive \/ CheckRollback \/ MarkPlacement \/ SyncActive \/ ConfirmActive
             \/ EnterFinalizing \/ InspectCommitted \/ FinalizeEdit
    BY <1>1, <1>2, <1>3, <1>8 DEF VerifyActive, CheckRollback, MarkPlacement, SyncActive,
       ConfirmActive, EnterFinalizing, InspectCommitted, FinalizeEdit
  <1>9. ~Advance
    BY <1>0 DEF Advance
  <1>10. CASE MarkApplied
    <2>1. rm' # [NoRemoval EXCEPT !.caller = "commit"]
      BY DEF NoRemoval
    <2> QED
      BY <1>3, <1>9, <1>10, <2>1 DEF MarkApplied
  <1>11. CASE Cleanup
    <2>1. CASE Cleaned
      <3>1. CASE rm.caller = "commit"
        BY <1>9, <2>1, <3>1 DEF Cleaned
      <3>2. CASE rm.caller = "recover"
        BY <1>1, <2>1, <3>2 DEF Cleaned
      <3> QED
        BY <1>0, <3>1, <3>2 DEF Removals
    <2>2. CASE CleanupFails
      BY <1>2, <2>2 DEF CleanupFails
    <2>3. CASE \E s, i : rm' = [rm EXCEPT !.fd = i, !.slot = s]
      <3>1. rm'.caller = rm.caller
        BY <1>0, <2>3 DEF Removals
      <3> QED
        BY <3>1
    <2>4. CASE DiscardPrepared \/ ClearAborted
      BY <2>4 DEF DiscardPrepared, ClearAborted, Inv, PlaceOK
    <2>5. CASE CleanOpen
      BY <2>1, <2>2, <2>3, <2>5 DEF CleanOpen
    <2> QED
      BY <1>1, <1>11, <2>1, <2>2, <2>4, <2>5
      DEF Cleanup, Quarantine, VerifyQuarantine, Scrub, Unlink
  <1>12. CASE AuthorizeDiscard \/ AuthorizeCurrent
    <2>1. rm' # [NoRemoval EXCEPT !.caller = "recover"]
      BY DEF NoRemoval
    <2> QED
      BY <1>3, <1>12, <2>1 DEF AuthorizeDiscard, AuthorizeCurrent
  <1>13. CASE ClearDiscarded \/ Crash \/ ValidateCurrent \/ RecheckCurrent
    BY <1>1, <1>2, <1>3, <1>13 DEF ClearDiscarded, Crash, ValidateCurrent, RecheckCurrent
  <1>14. CASE Resolve \/ HostCleanup \/ UNCHANGED vars
    BY <1>1, <1>14 DEF Resolve, ResolveDiscard, ResolveCurrent, HostCleanup, vars
  <1>15. CASE ExchangeBack
    BY <1>3, <1>15 DEF ExchangeBack, Returning, db
  <1> QED
    BY <1>5, <1>6, <1>7, <1>8, <1>10, <1>11, <1>12, <1>13, <1>14, <1>15
    DEF Ordinary, Service, Activation, Recovery

\* The first file is the next one at the start of the activation only.
LEMMA RenameLanding ==
    ASSUME Inv, Ordinary, pc' = "rename"
    PROVE  \/ Authorize /\ Rechecked /\ at' = 1 /\ UNCHANGED <<fs, db, mem>>
           \/ Advance /\ at # NumEdits /\ at' = at + 1 /\ pc = "apply" /\ MarkApplied
                /\ ~Existed(at)
           \/ Advance /\ at # NumEdits /\ at' = at + 1 /\ Committing /\ Cleaned
           \/ UNCHANGED vars
  <1> USE DEF Goto
  <1>1. pc' \in Activating /\ [Next]_vars /\ ~External
    BY OrdinaryNext DEF Activating
  <1>2. CASE Authorize
    BY <1>2 DEF Authorize, Abort, Discard
  <1>3. CASE Rename \/ VerifyActive \/ CheckRollback \/ MarkPlacement \/ SyncActive \/ ConfirmActive
    BY <1>3 DEF Rename, VerifyActive, CheckRollback, MarkPlacement, SyncActive, ConfirmActive,
       ActivationFails, Abort, Discard, Refuse, Return
  <1>4. CASE MarkApplied
    BY <1>4 DEF MarkApplied, Refuse, Return, Advance
  <1>5. CASE Committing /\ (CleanOpen \/ Quarantine \/ VerifyQuarantine \/ Scrub \/ Unlink)
    <2>1. rm.caller = "commit"
      BY <1>5 DEF Committing
    <2>2. CASE Cleaned
      BY <1>5, <2>1, <2>2 DEF Cleaned, Advance
    <2>3. ~CleanupFails
      BY <2>1 DEF CleanupFails, Return
    <2> QED
      BY <1>5, <2>2, <2>3 DEF CleanOpen, Quarantine, VerifyQuarantine, Scrub, Unlink
  <1> QED
    BY <1>1, <1>2, <1>3, <1>4, <1>5, Landing

LEMMA UnreplacedLanding ==
    ASSUME Inv, Inv', Ordinary, ~Returning, Unreplaced'
    PROVE  Unreplaced \/ Selecting \/ Discarding
  <1>1. SUFFICES ASSUME ~Unreplaced  PROVE Selecting \/ Discarding
    OBVIOUS
  <1>2. /\ Pending /\ pc \notin Before /\ pc \notin {"abort", "clear"}
        /\ ~(pc = "rename" /\ at = 1) /\ ~(pc \in Cleaning /\ rm.caller = "abort")
    BY <1>1 DEF Unreplaced
  <1>3. rm.caller # "abort" /\ pc # "prepare"
    BY <1>2 DEF Inv, PlaceOK, Pending
  <1>4. CASE ~Pending'
    BY <1>2, <1>4, JournalEnds
  <1>5. CASE pc' \in Before
    <2>1. UNCHANGED vars
      BY <1>2, <1>3, <1>5, Landing, OrdinaryNext DEF CreateJournal, StageCreate, StageWrite,
         MarkCandidate, RecheckStaged, EnterReplacing, Before
    <2> QED
      BY <1>2, <1>5, <2>1 DEF vars
  <1>6. CASE pc' = "rename" /\ at' = 1
    <2>1. at \in Nat \ {0}
      BY FileType DEF Inv, MemoryOK, Files
    <2>2. ~(at' = at + 1)
      BY <1>6, <2>1
    <2>3. UNCHANGED vars
      BY <1>2, <1>6, <2>2, RenameLanding DEF Authorize, Before
    <2> QED
      BY <1>2, <1>6, <2>3 DEF vars
  <1>7. CASE rm'.caller = "abort"
    BY <1>2, <1>3, <1>7, AbortLanding
  <1>8. pc' \in {"abort", "clear"} => rm'.caller = "abort"
    BY DEF Inv, PlaceOK
  <1> QED
    BY <1>4, <1>5, <1>6, <1>7, <1>8 DEF Unreplaced

LEMMA HeldKept ==
    ASSUME NEW v, Held(v), ActiveKept, UNCHANGED selection,
           (restored => restored') \/ Verified
    PROVE  Held(v)'
  <1>1. \A p \in Paths : Entry(p, "target")' = Entry(p, "target")
    BY DEF ActiveKept, Entry, Stat
  <1>2. Verified => Verified'
    BY <1>1 DEF Verified
  <1>3. Absent' /\ \A p \in Paths : Named(p)'
    BY FileType DEF Held, Absent, ActiveKept, Named
  <1>4. \A f \in Files : dir'[f].target # 0 => inodes'[dir'[f].target].content = v
    BY FileType DEF Held, ActiveKept
  <1> QED
    BY <1>2, <1>3, <1>4 DEF Held

\* A selection of version v that fits the active files: they have its bytes.
LEMMA VerifiedHeld ==
    ASSUME Inv, NEW v, Selects(v), Absent, Verified
    PROVE  Held(v)
  <1>1. FsOK /\ Files \subseteq Paths /\ "target" \in Slots
    BY FileType, SlotNames DEF Inv
  <1>2. ASSUME NEW p \in Paths, selection[p].ino # 0
        PROVE  /\ dir[p].target = selection[p].ino
               /\ selection[p].stamp = inodes[selection[p].ino].stamp
    <2>1. SamePlacement(selection[p], Entry(p, "target"))
      BY <1>2 DEF Verified, Exists
    <2> QED
      BY <1>1, <1>2, <2>1, EntryFacts DEF SamePlacement
  <1>3. ASSUME NEW f \in Files, dir[f].target # 0
        PROVE  inodes[dir[f].target].content = v
    <2>1. selection[f].ino # 0
      BY <1>3 DEF Absent
    <2>2. /\ dir[f].target = selection[f].ino
          /\ selection[f].stamp = inodes[selection[f].ino].stamp
      BY <1>1, <1>2, <2>1
    <2>3. Fits(selection[f], inodes, disk, v)
      BY DEF Selects
    <2>4. inodes[selection[f].ino].stamp \in Nat
      BY <1>1, <2>1, <2>3, StampType DEF Fits
    <2> QED
      BY <2>1, <2>2, <2>3, <2>4 DEF Fits
  <1> QED
    BY <1>2, <1>3 DEF Held, Named

\* Until the first rename, and once a journal has ended, the active files are
\* those of the selection.
LEMMA HeldStep ==
    ASSUME Inv, Inv', NEW v, Selects(v), ResolutionOK, Ordinary, ~Returning, ~Selecting,
           UNCHANGED selection, restored => restored', Unreplaced => Held(v), Unreplaced'
    PROVE  Held(v)'
  <1>1. CASE Discarding
    <2>1. Absent
      BY <1>1 DEF Discarding, ResolutionOK
    <2>2. Verified
      BY <1>1 DEF Discarding, FirstCreation, NoSelection, Verified, Exists, Missing
    <2>3. UNCHANGED <<inodes, dir>>
      BY <1>1 DEF Discarding, fs
    <2> QED
      BY <2>1, <2>2, <2>3, QuietKept, VerifiedHeld, HeldKept
  <1>2. CASE Unreplaced
    <2>1. ~Renaming
      <3>1. SUFFICES ASSUME Renaming  PROVE FALSE
        OBVIOUS
      <3>2. pc = "rename" /\ pc' = "verify" /\ UNCHANGED <<journal, rm>>
        BY <3>1 DEF Renaming, Goto, db
      <3>3. Pending'
        BY <3>2 DEF Inv, PlaceOK, Pending, NoJournal
      <3> QED
        BY <3>2, <3>3 DEF Unreplaced, Before, Cleaning, Opened
    <2>2. ActiveKept
      BY <2>1, ActiveStays
    <2> QED
      BY <1>2, <2>2, HeldKept
  <1> QED
    BY <1>1, <1>2, UnreplacedLanding

\* No step of an edit or a recovery touches a file that is not edited.
LEMMA BystandersStep ==
    ASSUME Inv, BystandersOK, Ordinary, UNCHANGED selection
    PROVE  BystandersOK'
  <1>1. SUFFICES ASSUME NEW p \in Paths, p \notin Files  PROVE dir'[p].target = dir[p].target
    BY DEF BystandersOK, Named
  <1>2. FsOK /\ at \in Files /\ at \in Paths
    BY FileType DEF Inv, MemoryOK
  <1>3. CASE ActiveKept
    BY <1>3 DEF ActiveKept
  <1>4. CASE Swap(at, "stage", "target")
    BY <1>1, <1>2, <1>4 DEF Swap, FsOK
  <1> QED
    BY <1>3, <1>4, ActiveStays DEF Renaming, Returning

\* Without a journal a call that has ended stays ended.
LEMMA RestingLanding ==
    ASSUME Inv, Ordinary, pc = "idle", ~Pending
    PROVE  UNCHANGED vars
  <1>1. ~Staging /\ ~StageFails /\ ~Crash /\ ~HostCleanup
    BY DEF Staging, CreateJournal, StageCreate, StageWrite, MarkCandidate, StageFails, Crash,
       HostCleanup
  <1>2. ~Activation
    BY DEF Activation, RecheckStaged, EnterReplacing, Authorize, Rename, VerifyActive,
       CheckRollback, ExchangeBack, MarkPlacement, SyncActive, ConfirmActive, MarkApplied,
       EnterFinalizing, InspectCommitted, FinalizeEdit
  <1>3. ~Cleanup /\ ~Recovery
    BY DEF Cleanup, DiscardPrepared, CleanOpen, Quarantine, VerifyQuarantine, Scrub, Unlink,
       ClearAborted, Recovery, AuthorizeDiscard, ClearDiscarded, ValidateCurrent,
       AuthorizeCurrent, RecheckCurrent
  <1>4. ~Resolve
    BY DEF Resolve, ResolveDiscard, ResolveCurrent
  <1> QED
    BY <1>1, <1>2, <1>3, <1>4 DEF Ordinary, Service

LEMMA BegunStep ==
    ASSUME Inv, NEW v, Begun(v), Ordinary
    PROVE  Begun(v)'
  <1>1. UNCHANGED edits
    BY EditsKept
  <1>2. CASE pc = "idle" /\ ~Pending
    <2>1. UNCHANGED <<pc, journal>>
      BY <1>2, RestingLanding DEF vars
    <2> QED
      BY <1>2, <2>1 DEF Begun, Pending
  <1> QED
    BY <1>1, <1>2 DEF Begun

-----------------------------------------------------------------------------
\* The files still to be replaced were so before, or are all.
LEMMA WaitingLanding ==
    ASSUME Inv, Ordinary, NEW f \in Files, f \in Waiting'
    PROVE  \/ pc = "authorize" /\ UNCHANGED fs
           \/ f \in Waiting /\ (Renaming => f # at)
  <1> USE DEF Goto
  <1>1. at \in Nat /\ NumEdits \in Nat
    BY FileType, PathsAssumption DEF Inv, MemoryOK
  <1>2. CASE /\ pc \in Exchanged \cup Placed \/ Committing
             /\ pc' \in Exchanged \cup Placed \/ Committing'
             /\ at' = at
    <2>1. f \in (at + 1)..NumEdits
      BY <1>2 DEF Waiting, Exchanged, Placed, Committing, Cleaning, Opened
    <2>2. f \in Waiting /\ pc # "rename"
      BY <1>2, <2>1 DEF Waiting, Exchanged, Placed, Committing, Cleaning, Opened
    <2> QED
      BY <2>2 DEF Renaming
  <1>3. CASE /\ pc \in Exchanged \cup Placed \/ Committing
             /\ at' = at + 1 /\ pc' = "rename"
    <2>1. f \in (at + 1)..NumEdits
      BY <1>3 DEF Waiting
    <2>2. f \in Waiting /\ pc # "rename"
      BY <1>3, <2>1 DEF Waiting, Exchanged, Placed, Committing, Cleaning, Opened
    <2> QED
      BY <2>2 DEF Renaming
  <1>4. CASE UNCHANGED vars
    <2>1. f \in Waiting /\ pc' = pc
      BY <1>4 DEF vars, Waiting, Committing
    <2> QED
      BY <2>1 DEF Renaming
  <1>5. pc' \in Activating \/ Committing'
    BY DEF Waiting, Activating
  <1>6. pc' \notin {"idle", "abort", "finalizing"}
    BY <1>5 DEF Activating, Exchanged, Placed, Committing, Cleaning, Opened
  <1>7. ~Refuse /\ ~Abort /\ ~Return
    BY <1>6 DEF Refuse, Return, Abort, Discard
  <1>8. CASE Authorize
    BY <1>7, <1>8 DEF Authorize
  <1>9. CASE Rename
    <2>1. Renaming
      BY <1>7, <1>9 DEF Rename, Renaming, ActivationFails
    <2>2. f \in (at + 1)..NumEdits
      BY <2>1 DEF Renaming, Waiting, Exchanged
    <2>3. f \in at..NumEdits /\ f # at
      BY <1>1, <2>2
    <2>4. f \in Waiting
      BY <2>1, <2>3 DEF Waiting, Renaming
    <2> QED
      BY <2>3, <2>4
  <1>10. CASE VerifyActive \/ CheckRollback \/ MarkPlacement \/ SyncActive \/ ConfirmActive
    BY <1>2, <1>7, <1>10 DEF VerifyActive, CheckRollback, MarkPlacement, SyncActive,
       ConfirmActive, Exchanged, Placed
  <1>11. CASE MarkApplied
    <2>1. pc = "apply"
      BY <1>11 DEF MarkApplied
    <2>2. CASE Advance
      BY <1>3, <1>6, <2>1, <2>2 DEF Advance, Placed
    <2>3. CASE pc' = "clean" /\ at' = at /\ rm' = [NoRemoval EXCEPT !.caller = "commit"]
      BY <1>2, <2>1, <2>3 DEF Placed, Committing, Cleaning, NoRemoval
    <2> QED
      BY <1>7, <1>11, <2>2, <2>3 DEF MarkApplied
  <1>12. CASE Committing /\ (CleanOpen \/ Quarantine \/ VerifyQuarantine \/ Scrub \/ Unlink)
    <2>1. rm.caller = "commit"
      BY <1>12 DEF Committing
    <2>2. CASE Cleaned
      <3>1. Advance
        BY <2>1, <2>2 DEF Cleaned
      <3> QED
        BY <1>3, <1>6, <1>12, <3>1 DEF Advance
    <2>3. ~CleanupFails
      BY <1>7, <2>1 DEF CleanupFails
    <2>4. CASE at' = at /\ pc' \in Opened
      <3>1. Committing'
        BY <1>5, <2>4 DEF Activating, Exchanged, Placed, Opened
      <3> QED
        BY <1>2, <1>12, <2>4, <3>1
    <2> QED
      BY <1>12, <2>2, <2>3, <2>4 DEF CleanOpen, Quarantine, VerifyQuarantine, Scrub, Unlink,
         Opened
  <1> QED
    BY <1>4, <1>5, <1>8, <1>9, <1>10, <1>11, <1>12, Landing, OrdinaryNext

\* A displaced file is looked at until it is put back or its placement is
\* recorded.
LEMMA ExchangedLanding ==
    ASSUME Inv, Ordinary, pc' \in Exchanged
    PROVE  \/ Renaming
           \/ pc \in Exchanged /\ at' = at /\ UNCHANGED fs
  <1> USE DEF Goto
  <1>1. pc' \notin {"idle", "abort", "finalizing", "rename", "clean"} /\ pc' \notin Opened
    BY DEF Exchanged, Opened
  <1>2. ~Refuse /\ ~Abort /\ ~Return /\ ~Advance
    BY <1>1 DEF Refuse, Return, Abort, Discard, Advance
  <1>3. CASE Rename
    BY <1>2, <1>3 DEF Rename, Renaming, ActivationFails
  <1>4. CASE VerifyActive \/ CheckRollback
    BY <1>2, <1>4 DEF VerifyActive, CheckRollback, Exchanged
  <1>5. CASE UNCHANGED vars
    BY <1>5 DEF vars, fs
  <1>6. ~Authorize /\ ~MarkPlacement /\ ~SyncActive /\ ~ConfirmActive /\ ~MarkApplied
    BY <1>1, <1>2 DEF Authorize, MarkPlacement, SyncActive, ConfirmActive, MarkApplied, Exchanged
  <1>7. ~(Committing /\ (CleanOpen \/ Quarantine \/ VerifyQuarantine \/ Scrub \/ Unlink))
    <2>1. SUFFICES ASSUME rm.caller = "commit"
                   PROVE  ~(CleanOpen \/ Quarantine \/ VerifyQuarantine \/ Scrub \/ Unlink)
      BY DEF Committing
    <2>2. ~Cleaned /\ ~CleanupFails
      BY <1>2, <2>1 DEF Cleaned, CleanupFails
    <2> QED
      BY <1>1, <2>2 DEF CleanOpen, Quarantine, VerifyQuarantine, Scrub, Unlink, Opened
  <1> QED
    BY <1>3, <1>4, <1>5, <1>6, <1>7, Landing, OrdinaryNext DEF Activating

LEMMA UndisturbedStep ==
    ASSUME Inv, NEW v, UndisturbedOK(v), Unreplaced => Held(v), Ordinary, ~Returning,
           UNCHANGED selection
    PROVE  UndisturbedOK(v)'
  <1>1. /\ at \in Nat /\ NumEdits \in Nat /\ at \in Files /\ at \in Paths /\ FsOK
        /\ Files \subseteq Paths /\ at <= NumEdits
    BY FileType, PathsAssumption DEF Inv, MemoryOK, Files
  <1>2. ActiveKept \/ Renaming
    BY ActiveStays
  <1>3. ASSUME NEW f \in Files, dir'[f].target = dir[f].target, Selected(v, f, dir[f].target),
               dir[f].target # 0 =>
                  inodes'[dir[f].target].content = inodes[dir[f].target].content
        PROVE  Selected(v, f, dir[f].target)'
    BY <1>3 DEF Selected
  <1>4. ASSUME NEW f \in Files, f \in Waiting'
        PROVE  Selected(v, f, dir[f].target)'
    <2>1. CASE pc = "authorize" /\ UNCHANGED fs
      <3>1. Held(v)
        BY <2>1 DEF Unreplaced, Before
      <3>2. Selected(v, f, dir[f].target)
        BY <1>1, <3>1 DEF Held, Absent, Named, Selected
      <3> QED
        BY <1>3, <2>1, <3>2 DEF fs
    <2>2. CASE f \in Waiting /\ (Renaming => f # at)
      <3>1. Selected(v, f, dir[f].target)
        BY <2>2 DEF UndisturbedOK
      <3>2. CASE ActiveKept
        BY <1>1, <1>3, <3>1, <3>2 DEF ActiveKept
      <3>3. CASE Renaming
        <4>1. dir'[f] = dir[f]
          BY <1>1, <2>2, <3>3, RenamingFs, Elsewhere
        <4>2. dir[f].target # 0 =>
                 inodes'[dir[f].target].content = inodes[dir[f].target].content
          BY <1>1, <3>3, RenamingFs, IdRange, SlotNames
        <4> QED
          BY <1>3, <3>1, <4>1, <4>2
      <3> QED
        BY <1>2, <3>2, <3>3
    <2> QED
      BY <1>4, <2>1, <2>2, WaitingLanding
  <1>5. ASSUME pc' \in Exchanged
        PROVE  Selected(v, at, dir[at].stage)'
    <2>1. CASE Renaming
      <3>1. at' = at /\ pc = "rename"
        BY <2>1 DEF Renaming, Goto
      <3>2. at \in Waiting
        BY <1>1, <3>1 DEF Waiting
      <3>3. Selected(v, at, dir[at].target)
        BY <1>1, <3>2 DEF UndisturbedOK
      <3>4. /\ dir'[at].stage = dir[at].target
            /\ \A i \in 1..Len(inodes) : inodes'[i].content = inodes[i].content
        BY <2>1, RenamingFs
      <3>5. dir[at].target # 0 => dir[at].target \in 1..Len(inodes)
        BY <1>1, IdRange, SlotNames
      <3> QED
        BY <3>1, <3>3, <3>4, <3>5 DEF Selected
    <2>2. CASE pc \in Exchanged /\ at' = at /\ UNCHANGED fs
      <3>1. Selected(v, at, dir[at].stage)
        BY <2>2 DEF UndisturbedOK
      <3> QED
        BY <2>2, <3>1 DEF Selected, fs
    <2> QED
      BY <1>5, <2>1, <2>2, ExchangedLanding
  <1> QED
    BY <1>4, <1>5 DEF UndisturbedOK

-----------------------------------------------------------------------------
Resolutions == {"authorize_discard", "validate", "authorize_current", "recheck_discard",
                "recheck_final", "finalize"}

\* A file of an interrupted edit is cleaned up, or the last one was.
Sweeping ==
    /\ pc \in Cleaning /\ rm.caller = "recover" /\ ActiveKept
    /\ UNCHANGED <<selection, seen, choice>>
    /\ \/ pc' \in Cleaning
       \/ pc' = "recheck_discard" /\ choice = "discard_unapplied"
       \/ pc' = "recheck_final" /\ choice # "discard_unapplied"

LEMMA SweepLanding ==
    ASSUME Inv, CleanOpen \/ Quarantine \/ VerifyQuarantine \/ Scrub \/ Unlink,
           pc' \in Resolutions \/ (pc' \in Cleaning /\ rm'.caller = "recover")
    PROVE  Sweeping
  <1> USE DEF Goto, mem, db
  <1>1. pc \in Cleaning /\ rm \in Removals
    BY DEF CleanOpen, Quarantine, VerifyQuarantine, Scrub, Unlink, Cleaning, Opened, Inv,
       MemoryOK
  <1>2. ActiveKept
    BY CleanupKept
  <1>3. pc' \notin {"idle", "abort", "clear", "finalizing", "rename"}
    BY DEF Resolutions, Cleaning, Opened
  <1>4. ~CleanupFails
    BY <1>3 DEF CleanupFails, Return
  <1>5. CASE Cleaned
    <2>1. rm.caller = "recover"
      BY <1>1, <1>3, <1>5 DEF Cleaned, Advance, Removals
    <2> QED
      BY <1>1, <1>2, <1>5, <2>1 DEF Cleaned, Sweeping, Cleaning
  <1>6. CASE /\ pc' \in Opened /\ UNCHANGED <<selection, seen, choice>>
             /\ rm' = rm \/ \E s, i : rm' = [rm EXCEPT !.fd = i, !.slot = s]
    <2>1. rm'.caller = rm.caller
      BY <1>1, <1>6 DEF Removals
    <2>2. pc' \notin Resolutions
      BY <1>6 DEF Resolutions, Opened
    <2> QED
      BY <1>1, <1>2, <1>6, <2>1, <2>2 DEF Sweeping, Cleaning
  <1>7. CASE CleanOpen
    BY <1>4, <1>5, <1>6, <1>7 DEF CleanOpen, Opened
  <1> QED
    BY <1>4, <1>5, <1>6, <1>7 DEF Quarantine, VerifyQuarantine, Scrub, Unlink, Opened

\* Where a resolution, or the end of an edit, comes from.
LEMMA ResolutionLanding ==
    ASSUME Inv, Ordinary, pc' \in Resolutions \/ (pc' \in Cleaning /\ rm'.caller = "recover")
    PROVE  \/ ResolveDiscard \/ \E r \in {"finalize_applied", "adopt_current"} : ResolveCurrent(r)
           \/ ValidateCurrent \/ AuthorizeDiscard \/ AuthorizeCurrent \/ RecheckCurrent
           \/ InspectCommitted \/ Sweeping \/ UNCHANGED vars
  <1> USE DEF Goto
  <1>1. pc' \notin {"idle", "abort", "clear", "prepare", "rename"}
                     \cup Before \cup Exchanged \cup Placed \cup {"finalizing", "inspect"}
    BY DEF Resolutions, Cleaning, Opened, Before, Exchanged, Placed
  <1>2. ~Return
    BY <1>1 DEF Return
  <1>3. ~Refuse /\ ~Abort
    BY <1>1, <1>2 DEF Refuse, Abort, Discard
  <1>4. ~Staging /\ ~StageFails
    BY <1>1, <1>3 DEF Staging, CreateJournal, StageCreate, StageWrite, MarkCandidate, StageFails,
       Before
  <1>5. ~MarkApplied
    <2>1. ASSUME MarkApplied  PROVE FALSE
      <3>1. ~Advance
        BY <1>1 DEF Advance
      <3>2. pc' = "clean" /\ rm' = [NoRemoval EXCEPT !.caller = "commit"]
        BY <1>3, <2>1, <3>1 DEF MarkApplied
      <3> QED
        BY <3>2 DEF NoRemoval, Resolutions
    <2> QED
      BY <2>1
  <1>6. Activation => InspectCommitted
    <2>1. ~RecheckStaged /\ ~EnterReplacing /\ ~Authorize /\ ~Rename /\ ~VerifyActive
      BY <1>1, <1>3 DEF RecheckStaged, EnterReplacing, Authorize, Rename, VerifyActive,
         ActivationFails, Before, Exchanged, Placed
    <2>2. ~CheckRollback /\ ~ExchangeBack /\ ~MarkPlacement /\ ~SyncActive /\ ~ConfirmActive
      BY <1>1, <1>2, <1>3 DEF CheckRollback, ExchangeBack, MarkPlacement, SyncActive,
         ConfirmActive, Discard, Exchanged, Placed
    <2>3. ~EnterFinalizing /\ ~FinalizeEdit
      BY <1>1, <1>2, <1>3 DEF EnterFinalizing, FinalizeEdit
    <2> QED
      BY <1>5, <2>1, <2>2, <2>3 DEF Activation
  <1>7. Cleanup => Sweeping
    <2>1. ~ClearAborted
      BY <1>2, <1>3 DEF ClearAborted
    <2>2. ~DiscardPrepared
      <3>1. ASSUME DiscardPrepared  PROVE FALSE
        <4>1. rm.caller = "abort" /\ pc' = "clean" /\ rm' = rm
          BY <1>1, <3>1 DEF DiscardPrepared, Inv, PlaceOK
        <4> QED
          BY <4>1 DEF Resolutions
      <3> QED
        BY <3>1
    <2> QED
      BY <2>1, <2>2, SweepLanding DEF Cleanup
  <1>8. ~ClearDiscarded /\ ~Crash
    BY <1>2, <1>3 DEF ClearDiscarded, Crash
  <1>9. ~HostCleanup
    BY <1>1 DEF HostCleanup
  <1> QED
    BY <1>4, <1>6, <1>7, <1>8, <1>9 DEF Ordinary, Service, Recovery, Resolve

\* What a resolution rests on stays true while active files stay.
LEMMA KeptState ==
    ASSUME ActiveKept
    PROVE  /\ UNCHANGED selection /\ Absent => Absent'
           /\ UNCHANGED edits /\ Replaced => Replaced'
           /\ Current' = Current
  <1>1. \A p \in Paths : Entry(p, "target")' = Entry(p, "target")
    BY DEF ActiveKept, Entry, Stat
  <1>2. Current' = Current
    BY <1>1 DEF Current
  <1> QED
    BY <1>2, FileType DEF ActiveKept, Absent, Replaced

\* The files of an unapplied edit: a new one is not there.
LEMMA UnappliedAbsent ==
    ASSUME Inv, OriginOK, RecoveryState = "unapplied"
    PROVE  Absent
  <1>1. \A f \in Files : ClassifyFile(f) \in {"unapplied", "unstaged"}
    BY DEF RecoveryState
  <1>2. \A f \in Files : OriginalPlacement(journal.files[f].original, Entry(f, "target"))
    BY <1>1 DEF ClassifyFile
  <1>3. ASSUME NEW f \in Files, selection[f].ino = 0
        PROVE  dir[f].target = 0
    <2>1. ~Exists(journal.files[f].original)
      BY <1>3 DEF OriginOK, Exists
    <2>2. ~Exists(Entry(f, "target"))
      BY <1>2, <2>1 DEF OriginalPlacement
    <2> QED
      BY <2>2, EntryFacts, FileType, SlotNames DEF Inv
  <1> QED
    BY <1>3 DEF Absent

\* Files that show the candidate's bytes exist.
LEMMA ContentReplaced ==
    ASSUME Inv, \A f \in Files : Entry(f, "target").content = edits
    PROVE  Replaced
  <1>1. FsOK /\ edits \in Nat /\ Empty \notin Nat /\ Files \subseteq Paths /\ "target" \in Slots
    BY PathsAssumption, FileType, SlotNames DEF Inv, MemoryOK
  <1>2. ASSUME NEW f \in Files
        PROVE  dir[f].target # 0 /\ inodes[dir[f].target].content = edits
    <2>1. dir[f].target # 0
      BY <1>1, EntryFacts DEF Missing
    <2> QED
      BY <1>1, <2>1, EntryFacts
  <1> QED
    BY <1>2 DEF Replaced

LEMMA ResolutionStep ==
    ASSUME Inv, ClassInv, OriginOK, ResolutionOK, Ordinary
    PROVE  ResolutionOK'
  <1> USE DEF Goto, mem, db
  <1>1. UNCHANGED edits
    BY EditsKept
  <1>2. CASE ~(pc' \in Resolutions \/ (pc' \in Cleaning /\ rm'.caller = "recover"))
    BY <1>2 DEF ResolutionOK, Resolving, Resolutions
  <1>3. CASE Refuse
    BY <1>2, <1>3 DEF Refuse, Return, Resolutions, Cleaning, Opened
  <1>4. UNCHANGED fs => ActiveKept
    BY QuietKept DEF fs
  <1>5. CASE ResolveDiscard
    <2>1. Absent /\ UNCHANGED selection /\ ActiveKept
      BY <1>4, <1>5, UnappliedAbsent DEF ResolveDiscard
    <2>2. Absent' /\ pc' = "authorize_discard" /\ choice' = "discard_unapplied"
      BY <1>5, <2>1, KeptState DEF ResolveDiscard
    <2> QED
      BY <2>2 DEF ResolutionOK, Resolving, Cleaning, Opened
  <1>6. CASE \E r \in {"finalize_applied", "adopt_current"} : ResolveCurrent(r)
    <2>1. PICK r \in {"finalize_applied", "adopt_current"} : ResolveCurrent(r)
      BY <1>6
    <2>2. /\ pc = "idle" /\ Pending /\ pc' = "validate" /\ choice' = r /\ UNCHANGED fs
          /\ r = "finalize_applied" => RecoveryState = "applied"
      BY <2>1 DEF ResolveCurrent
    <2>3. r = "finalize_applied" => Replaced'
      <3>1. SUFFICES ASSUME r = "finalize_applied"  PROVE Replaced'
        OBVIOUS
      <3>2. \A f \in Files : Entry(f, "target").content = edits
        BY <2>2, <3>1, ClassTrue DEF ClassificationTrue
      <3> QED
        BY <1>1, <1>4, <2>2, <3>2, ContentReplaced, KeptState
    <2>4. pc' \notin Cleaning /\ choice' # "discard_unapplied"
          /\ (choice' # "adopt_current" => Replaced')
      BY <2>2, <2>3 DEF Cleaning, Opened
    <2> QED
      BY <2>2, <2>4 DEF ResolutionOK, Resolving
  <1>7. CASE ValidateCurrent
    <2>1. CASE pc = "validate" /\ pc' = "authorize_current" /\ UNCHANGED <<fs, choice>>
      <3>1. choice # "discard_unapplied" /\ (choice # "adopt_current" => Replaced')
        BY <1>1, <1>4, <2>1, KeptState DEF ResolutionOK, Resolving
      <3> QED
        BY <2>1, <3>1 DEF ResolutionOK, Resolving, Cleaning, Opened
    <2> QED
      BY <1>3, <1>7, <2>1 DEF ValidateCurrent
  <1>8. CASE AuthorizeDiscard
    <2>1. CASE pc = "authorize_discard" /\ pc' = "clean" /\ UNCHANGED <<fs, selection, choice>>
      <3>1. choice = "discard_unapplied" /\ Absent'
        BY <1>4, <2>1, KeptState DEF ResolutionOK, Resolving
      <3> QED
        BY <2>1, <3>1 DEF ResolutionOK, Resolving
    <2> QED
      BY <1>3, <1>8, <2>1 DEF AuthorizeDiscard
  <1>9. CASE AuthorizeCurrent
    <2>1. CASE pc = "authorize_current" /\ pc' = "clean" /\ UNCHANGED <<fs, choice>>
      <3>1. choice # "discard_unapplied" /\ (choice # "adopt_current" => Replaced')
        BY <1>1, <1>4, <2>1, KeptState DEF ResolutionOK, Resolving
      <3> QED
        BY <2>1, <3>1 DEF ResolutionOK, Resolving
    <2> QED
      BY <1>3, <1>9, <2>1 DEF AuthorizeCurrent
  <1>10. CASE RecheckCurrent
    <2>1. CASE /\ pc = "recheck_final" /\ pc' = "finalize" /\ UNCHANGED <<fs, choice, seen>>
               /\ Current = seen
      <3>1. choice # "adopt_current" => Replaced'
        BY <1>1, <1>4, <2>1, KeptState DEF ResolutionOK, Resolving
      <3>2. seen' = Current'
        BY <1>4, <2>1, KeptState
      <3> QED
        BY <2>1, <3>1, <3>2 DEF ResolutionOK, Resolving, Cleaning, Opened
    <2> QED
      BY <1>3, <1>10, <2>1 DEF RecheckCurrent
  <1>11. CASE InspectCommitted
    <2>1. CASE /\ pc' = "finalize" /\ UNCHANGED fs /\ seen' = Current
               /\ \A f \in Files : Current[f].content = edits
      <3>1. \A f \in Files : Entry(f, "target").content = edits
        BY <2>1, FileType DEF Current
      <3>2. Replaced' /\ seen' = Current'
        BY <1>1, <1>4, <2>1, <3>1, ContentReplaced, KeptState
      <3> QED
        BY <2>1, <3>2 DEF ResolutionOK, Resolving, Cleaning, Opened
    <2>2. \A f \in Files : f \in Paths
      BY FileType
    <2> QED
      BY <1>3, <1>11, <2>1, <2>2 DEF InspectCommitted
  <1>12. CASE Sweeping
    <2>1. /\ pc \in Cleaning /\ rm.caller = "recover" /\ UNCHANGED choice
          /\ (Absent => Absent') /\ (Replaced => Replaced')
      BY <1>1, <1>12, KeptState DEF Sweeping
    <2>2. /\ choice = "discard_unapplied" => Absent'
          /\ choice \notin {"discard_unapplied", "adopt_current"} => Replaced'
      BY <2>1 DEF ResolutionOK, Resolving
    <2>3. \/ pc' \in Cleaning
          \/ pc' = "recheck_discard" /\ choice = "discard_unapplied"
          \/ pc' = "recheck_final" /\ choice # "discard_unapplied"
      BY <1>12 DEF Sweeping
    <2> QED
      BY <2>1, <2>2, <2>3 DEF ResolutionOK, Resolving, Cleaning, Opened
  <1>13. CASE UNCHANGED vars
    <2>1. ActiveKept /\ UNCHANGED <<pc, rm, choice, seen, selection>>
      BY <1>13, QuietKept DEF vars
    <2>2. (Absent => Absent') /\ (Replaced => Replaced') /\ Current' = Current
      BY <1>1, <2>1, KeptState
    <2> QED
      BY <2>1, <2>2 DEF ResolutionOK, Resolving
  <1> QED
    BY <1>2, <1>5, <1>6, <1>7, <1>8, <1>9, <1>10, <1>11, <1>12, <1>13, ResolutionLanding

-----------------------------------------------------------------------------
\* A call that has not begun, has ended or gives up waits for nothing.
LEMMA RestingStep ==
    ASSUME pc' \in {"idle", "prepare", "abort"}, NEW v
    PROVE  UnselectedOK' /\ UndisturbedOK(v)' /\ ResolutionOK'
  <1>1. pc' \notin Exchanged \cup Placed \cup Cleaning
    BY DEF Exchanged, Placed, Cleaning, Opened
  <1>2. Waiting' = {}
    BY <1>1 DEF Waiting, Committing
  <1> QED
    BY <1>1, <1>2 DEF UnselectedOK, UndisturbedOK, ResolutionOK, Resolving

\* What is exchanged back is what was displaced: the selected file.
LEMMA ReturningAll ==
    ASSUME Inv, Preserves, NEW v, QuietAt(v), Selects(v)', Begun(v)', Ordinary, Returning
    PROVE  QuietAt(v)'
  <1>1. /\ at \in Files /\ at \in Paths /\ FsOK /\ Files \subseteq Paths /\ Pending
        /\ selection[at].stamp \in Nat
    <2>1. selection[at] \in Entries /\ at \in Files
      BY FileType DEF Inv, MemoryOK
    <2> QED
      BY <2>1, PendingPhase, FileType DEF Inv, PlaceOK, Returning, Entries
  <1>2. /\ Swap(at, "stage", "target") /\ dir[at].stage # 0 /\ (disk' = disk \/ SyncDirectory(at))
        /\ restored' = TRUE /\ UNCHANGED <<journal, selection>> /\ pc = "exchange_back"
    BY DEF Returning
  <1>3. /\ Local(at) /\ dir'[at].target = dir[at].stage
        /\ \A i \in 1..Len(inodes) : inodes'[i].content = inodes[i].content
        /\ inodes'[dir[at].stage].stamp = inodes[dir[at].stage].stamp + 1
    <2>1. dir[at].stage \in 1..Len(inodes)
      BY <1>1, <1>2, IdRange, SlotNames
    <2> QED
      BY <1>1, <1>2, <2>1, SwapLocal, SlotNames
  <1>4. dir[at].stage = selection[at].ino /\ inodes[dir[at].stage].content = v
    BY <1>2 DEF QuietAt, UndisturbedOK, Selected, Exchanged
  <1>5. inodes'[dir[at].stage].content = v /\ inodes[dir[at].stage].stamp \in Nat
    BY <1>1, <1>2, <1>3, <1>4, IdRange, SlotNames, StampType
  <1>6. \A p \in Paths : p # at => dir'[p] = dir[p]
    BY <1>1, <1>3, Elsewhere
  <1>7. Pending' /\ (pc' = "idle" \/ (pc' = "abort" /\ at = 1))
    BY <1>1, <1>2 DEF Returning, Return, Discard, Goto, Pending
  <1>8. StampsOK(v)'
    <2>1. SUFFICES ASSUME NEW p \in Paths, dir'[p].target # 0,
                          disk'[p].slots["target"] = dir'[p].target
                   PROVE  \/ disk'[p].stamp["target"] = inodes'[dir'[p].target].stamp
                          \/ Returned(v, p)'
      BY DEF StampsOK
    <2>2. CASE p = at
      <3>1. selection[at].stamp <= inodes[dir[at].stage].stamp
        BY <1>1, <1>2, <1>4 DEF QuietAt, Selects, Fits
      <3>2. selection[at].stamp < inodes'[dir[at].stage].stamp
        BY <1>1, <1>3, <1>5, <3>1
      <3> QED
        BY <1>1, <1>2, <1>3, <1>4, <1>5, <2>2, <3>2 DEF Returned
    <2>3. CASE p # at
      <3>1. dir'[p] = dir[p] /\ dir[p].target \in Ids /\ Refers(p, dir[p].target)
        BY <1>1, <1>6, <2>1, <2>3, SlotNames DEF FsOK, Refers
      <3>2. inodes'[dir[p].target] = inodes[dir[p].target] /\ disk'[p].slots = disk[p].slots
        BY <1>1, <1>3, <2>3, <3>1 DEF Local
      <3>3. CASE disk'[p].stamp["target"] = disk[p].stamp["target"]
        <4>1. disk[p].stamp["target"] = inodes[dir[p].target].stamp \/ Returned(v, p)
          BY <2>1, <3>1, <3>2 DEF QuietAt, StampsOK
        <4> QED
          BY <1>2, <3>1, <3>2, <3>3, <4>1 DEF Returned
      <3> QED
        BY <1>2, <2>1, <3>1, <3>3, SlotNames DEF Preserves
    <2> QED
      BY <2>2, <2>3
  <1>9. BystandersOK'
    BY <1>1, <1>2, <1>6 DEF QuietAt, BystandersOK, Named
  <1>10. ASSUME Unreplaced'  PROVE Held(v)'
    <2>1. at = 1
      BY <1>7, <1>10 DEF Unreplaced, Before, Cleaning, Opened
    <2>2. ASSUME NEW f \in Files
          PROVE  /\ dir'[f].target = selection[f].ino
                 /\ dir'[f].target # 0 => inodes'[dir'[f].target].content = v
      <3>1. CASE f = at
        BY <1>3, <1>4, <1>5, <3>1
      <3>2. CASE f # at
        <4>1. f \in (at + 1)..NumEdits
          BY <2>1, <3>2, PathsAssumption DEF Files
        <4>2. f \in Waiting
          BY <1>2, <4>1 DEF Waiting, Exchanged
        <4>3. Selected(v, f, dir[f].target)
          BY <4>2 DEF QuietAt, UndisturbedOK
        <4>4. dir'[f] = dir[f] /\ (dir[f].target # 0 => dir[f].target \in 1..Len(inodes))
          BY <1>1, <1>6, <3>2, IdRange, SlotNames
        <4> QED
          BY <1>3, <4>3, <4>4 DEF Selected
      <3> QED
        BY <3>1, <3>2
    <2>3. \A p \in Paths : Named(p)'
      BY <1>2, <1>9, <2>2 DEF BystandersOK, Named
    <2> QED
      BY <1>2, <2>2, <2>3 DEF Held, Absent
  <1> QED
    BY <1>7, <1>8, <1>9, <1>10, RestingStep DEF QuietAt

LEMMA OrdinaryAll ==
    ASSUME Inv, Inv', KeptInv, ClassInv, OriginOK, NEW v \in 0..edits, QuietAt(v), Ordinary,
           Quiet'
    PROVE  \E u \in 0..edits' : QuietAt(u)'
  <1>1. Preserves /\ Effect /\ UNCHANGED edits /\ FsOK' /\ edits \in Nat
    BY OrdinaryPreserves, OrdinaryEffect, EditsKept DEF KeptInv, Inv, MemoryOK
  <1>2. /\ Selects(v) /\ Begun(v) /\ UnselectedOK /\ StampsOK(v) /\ BystandersOK
        /\ (Unreplaced => Held(v)) /\ UndisturbedOK(v) /\ ResolutionOK
    BY DEF QuietAt
  <1>3. UnselectedOK' /\ ~adopted' /\ Begun(v)'
    BY <1>2, UnselectedStep, BegunStep DEF Quiet
  <1>4. ResolutionOK'
    BY <1>2, ResolutionStep
  <1>5. CASE Selecting
    <2>1. /\ Selects(edits)' /\ StampsOK(edits)' /\ BystandersOK' /\ Held(edits)'
          /\ Begun(edits)'
      BY <1>2, <1>3, <1>5, SelectingStep
    <2>2. pc' = "idle"
      BY <1>5 DEF Selecting, Return
    <2>3. UndisturbedOK(edits)'
      BY <2>2, RestingStep
    <2>4. QuietAt(edits)' /\ edits' \in 0..edits'
      BY <1>1, <1>3, <1>4, <2>1, <2>3 DEF QuietAt
    <2> QED
      BY <1>1, <2>4
  <1>6. CASE ~Selecting
    <2>1. UNCHANGED selection /\ (restored => restored')
      <3>1. UNCHANGED selection /\ (restored' = restored \/ restored' = TRUE)
        BY <1>6, SelectionKept
      <3>2. restored => restored'
        BY <3>1, Zenon
      <3> QED
        BY <3>1, <3>2
    <2>2. Selects(v)'
      BY <1>1, <1>2, <2>1, SelectsStep
    <2>3. CASE Returning
      BY <1>1, <1>3, <2>2, <2>3, ReturningAll
    <2>4. CASE ~Returning
      <3>1. StampsOK(v)' /\ BystandersOK'
        BY <1>1, <1>2, <2>1, <2>4, StampsStep, BystandersStep
      <3>2. Unreplaced' => Held(v)'
        BY <1>2, <1>6, <2>1, <2>4, HeldStep
      <3>3. UndisturbedOK(v)'
        BY <1>2, <2>1, <2>4, UndisturbedStep
      <3>4. QuietAt(v)'
        BY <1>3, <1>4, <2>2, <3>1, <3>2, <3>3 DEF QuietAt
      <3> QED
        BY <1>1, <3>4
    <2> QED
      BY <2>3, <2>4
  <1> QED
    BY <1>5, <1>6

LEMMA BeginAll ==
    ASSUME Inv, NEW v \in 0..edits, QuietAt(v), Begin
    PROVE  \E u \in 0..edits' : QuietAt(u)'
  <1>1. /\ UNCHANGED <<inodes, selection, journal>> /\ FreshNames /\ pc' = "prepare"
        /\ edits' = edits + 1 /\ ~Pending /\ Verified
    BY DEF Begin, FreshNames, Goto, db
  <1>2. FsOK /\ edits \in Nat /\ Files \subseteq Paths
    BY FileType DEF Inv, MemoryOK
  <1>3. \A p \in Paths :
           /\ dir'[p].target = dir[p].target
           /\ disk'[p].slots["target"] = disk[p].slots["target"]
           /\ disk'[p].stamp["target"] = disk[p].stamp["target"]
    BY <1>1, <1>2, BeginFs, BeginStamps
  <1>4. Selects(v)'
    <2>1. \A f \in Files : Fits(selection[f], inodes', disk', v)
      BY <1>1, <1>2, FitsBegin DEF QuietAt, Selects
    <2> QED
      BY <1>1, <2>1 DEF QuietAt, Selects
  <1>5. StampsOK(v)'
    <2>1. ASSUME NEW p \in Paths, dir[p].target # 0, Returned(v, p)  PROVE FALSE
      <3>1. SamePlacement(selection[p], Entry(p, "target"))
        BY <1>1, <2>1 DEF Verified, Returned, Exists
      <3>2. /\ selection[p].stamp = inodes[dir[p].target].stamp
            /\ inodes[dir[p].target].stamp \in Nat
        BY <1>2, <2>1, <3>1, EntryFacts, IdRange, StampType, SlotNames DEF SamePlacement
      <3> QED
        BY <2>1, <3>2 DEF Returned
    <2>2. \A p \in Paths : dir[p].target # 0 /\ disk[p].slots["target"] = dir[p].target =>
                               disk[p].stamp["target"] = inodes[dir[p].target].stamp
      BY <2>1 DEF QuietAt, StampsOK
    <2> QED
      BY <1>1, <1>3, <2>2 DEF StampsOK
  <1>6. Held(v)' /\ BystandersOK'
    <2>1. Held(v)
      BY <1>1 DEF QuietAt, Unreplaced
    <2>2. ActiveKept
      BY <1>1, <1>3 DEF ActiveKept
    <2>3. Held(v)'
      BY <1>1, <2>1, <2>2, HeldKept
    <2> QED
      BY <2>3 DEF Held, BystandersOK
  <1>7. Begun(v)' /\ v \in 0..edits'
    BY <1>1, <1>2 DEF Begun
  <1> QED
    BY <1>1, <1>4, <1>5, <1>6, <1>7, RestingStep DEF QuietAt

\* Where nothing is under way, power failures change no active file.
LEMMA PowerFailureAll ==
    ASSUME Inv, Inv', NEW v \in 0..edits, QuietAt(v), PowerFailure
    PROVE  \E u \in 0..edits' : QuietAt(u)'
  <1>1. UNCHANGED <<selection, journal, edits, restored>> /\ pc' = "idle"
    BY DEF PowerFailure, Return, db, history
  <1>2. FsOK /\ FsOK' /\ Files \subseteq Paths
    BY FileType DEF Inv
  <1>3. Selects(v)'
    <2>1. \A f \in Files : Fits(selection[f], inodes', disk', v)
      BY <1>2, FitsPower DEF QuietAt, Selects, Inv, MemoryOK
    <2> QED
      BY <1>1, <2>1 DEF QuietAt, Selects
  <1>4. StampsOK(v)'
    BY <1>2, PowerStamps, SlotNames DEF StampsOK
  <1>5. ASSUME NEW p \in Paths, disk[p].slots["target"] = dir[p].target
        PROVE  dir'[p].target = dir[p].target
    BY <1>2, <1>5, PowerFailureFs
  <1>6. BystandersOK'
    <2>1. \A p \in Paths \ Files : disk[p].slots["target"] = dir[p].target
      BY DEF Inv, SynchronisedOK
    <2> QED
      BY <1>1, <1>5, <2>1 DEF QuietAt, BystandersOK, Named
  <1>7. ASSUME Unreplaced'  PROVE Held(v)'
    <2>1. ~Pending
      BY <1>1, <1>7 DEF Unreplaced, Before, Cleaning, Opened, Pending
    <2>2. Held(v) /\ StampsOK(v)
      BY <2>1 DEF QuietAt, Unreplaced
    <2>3. \A p \in Paths : disk[p].slots["target"] = dir[p].target /\ dir'[p].target = dir[p].target
      BY <1>5, <2>1, Unjournaled
    <2>4. \A p \in Paths : dir[p].target # 0 =>
             inodes'[dir[p].target].content = inodes[dir[p].target].content
      BY <1>2, PowerFailureFs, IdRange, SlotNames
    <2>5. ASSUME ~restored  PROVE Verified'
      <3>1. ASSUME NEW p \in Paths, dir[p].target # 0
            PROVE  Entry(p, "target")' = Entry(p, "target")
        <4>1. disk[p].stamp["target"] = inodes[dir[p].target].stamp
          BY <2>2, <2>3, <2>5, <3>1 DEF StampsOK, Returned
        <4>2. inodes'[dir[p].target].stamp = inodes[dir[p].target].stamp
          BY <1>2, <2>3, <3>1, <4>1, PowerStamps, SlotNames
        <4> QED
          BY <2>3, <2>4, <3>1, <4>2 DEF Entry, Stat
      <3>2. \A p \in Paths : Entry(p, "target")' = Entry(p, "target")
        BY <2>3, <3>1 DEF Entry
      <3> QED
        BY <1>1, <2>2, <2>5, <3>2 DEF Held, Verified
    <2> QED
      BY <1>1, <1>2, <2>2, <2>3, <2>4, <2>5 DEF Held, Absent, Named
  <1>8. Begun(v)'
    BY <1>1 DEF QuietAt, Begun, Pending
  <1> QED
    BY <1>1, <1>3, <1>4, <1>6, <1>7, <1>8, RestingStep DEF QuietAt

LEMMA AllNext ==
    ASSUME Inv, Inv', KeptInv, ClassInv, AllInv, [Next]_vars
    PROVE  AllInv'
  <1>1. OriginOK'
    BY OriginStep DEF AllInv
  <1>2. ASSUME Quiet'  PROVE \E u \in 0..edits' : QuietAt(u)'
    <2>1. Quiet /\ (Ordinary \/ Begin \/ PowerFailure)
      BY <1>2, QuietShrinks
    <2>2. PICK v \in 0..edits : QuietAt(v)
      BY <2>1 DEF AllInv
    <2> QED
      BY <1>2, <2>1, <2>2, OrdinaryAll, BeginAll, PowerFailureAll DEF AllInv
  <1> QED
    BY <1>1, <1>2 DEF AllInv

LEMMA InitAll == Init => AllInv
  <1> SUFFICES ASSUME Init  PROVE AllInv
    OBVIOUS
  <1>1. /\ pc = "idle" /\ orig = NoEntries /\ journal = NoJournal /\ edits = 0
        /\ inodes = [p \in 1..NumPaths |-> [content |-> 0, stamp |-> 0]]
        /\ dir = [p \in Paths |-> [s \in Slots |->
                     IF s = "target" /\ p \notin Created THEN p ELSE 0]]
        /\ disk = [p \in Paths |-> [slots |-> dir[p], stamp |-> [s \in Slots |-> 0]]]
        /\ selection = [p \in Paths |->
              IF p \in Created THEN Missing ELSE Identity(Entry(p, "target"))]
    BY DEF Init
  <1>2. /\ Len(inodes) = NumPaths /\ NumPaths \in Nat /\ Paths = 1..NumPaths
        /\ Files \subseteq Paths /\ "target" \in Slots
    BY <1>1, PathsAssumption, FileType, SlotNames DEF Paths
  <1>3. OriginOK
    BY <1>1, <1>2 DEF OriginOK, NoEntries, NoJournal, NoFile, Missing
  <1>4. ASSUME NEW p \in Paths
        PROVE  /\ p # 0 /\ inodes[p].stamp = 0 /\ inodes[p].content = 0
               /\ dir[p].target = IF p \in Created THEN 0 ELSE p
               /\ \A s \in Slots : disk[p].stamp[s] = 0
    BY <1>1, <1>2
  <1>5. ASSUME NEW p \in Paths
        PROVE  /\ selection[p].ino = IF p \in Created THEN 0 ELSE p
               /\ p \notin Created => selection[p].stamp = 0 /\ Entry(p, "target").ino = p
                                      /\ Entry(p, "target").stamp = 0
    <2>1. CASE p \in Created
      BY <1>1, <2>1 DEF Missing
    <2>2. CASE p \notin Created
      <3>1. Entry(p, "target") = [ino |-> p, stamp |-> 0, content |-> 0]
        BY <1>4, <2>2 DEF Entry, Stat
      <3>2. selection[p] = Identity(Entry(p, "target"))
        BY <1>1, <2>2
      <3> QED
        BY <2>2, <3>1, <3>2 DEF Identity
    <2> QED
      BY <2>1, <2>2
  <1>6. Selects(0)
    <2>1. ASSUME NEW f \in Files
          PROVE  /\ Fits(selection[f], inodes, disk, 0)
                 /\ selection[f].ino = 0 => f \in Created
      <3>1. CASE f \in Created
        BY <1>2, <1>5, <3>1 DEF Fits
      <3>2. CASE f \notin Created
        <4>1. selection[f].ino = f /\ selection[f].stamp = 0 /\ f # 0
          BY <1>2, <1>4, <1>5, <3>2
        <4>2. f \in 1..Len(inodes) /\ inodes[f].stamp = 0 /\ inodes[f].content = 0
          BY <1>2, <1>4
        <4> QED
          BY <1>4, <4>1, <4>2 DEF Fits
      <3> QED
        BY <3>1, <3>2
    <2> QED
      BY <2>1 DEF Selects
  <1>7. StampsOK(0)
    BY <1>2, <1>4 DEF StampsOK
  <1>8. Held(0) /\ BystandersOK
    <2>1. Verified
      BY <1>5 DEF Verified, SamePlacement, Exists
    <2>2. Absent
      BY <1>2, <1>4, <1>5 DEF Absent
    <2>3. \A p \in Paths : Named(p)
      BY <1>4, <1>5 DEF Named
    <2>4. \A f \in Files : dir[f].target # 0 => inodes[dir[f].target].content = 0
      BY <1>2, <1>4
    <2> QED
      BY <2>1, <2>2, <2>3, <2>4 DEF Held, BystandersOK
  <1>9. UnselectedOK /\ UndisturbedOK(0) /\ ResolutionOK
    <2>1. pc \notin Exchanged \cup Placed \cup Cleaning
      BY <1>1 DEF Exchanged, Placed, Cleaning, Opened
    <2>2. Waiting = {}
      BY <1>1, <2>1 DEF Waiting, Committing
    <2> QED
      BY <1>1, <2>1, <2>2 DEF UnselectedOK, UndisturbedOK, ResolutionOK, Resolving
  <1>10. 0 \in 0..edits /\ Begun(0)
    BY <1>1 DEF Begun, Pending
  <1>11. QuietAt(0)
    BY <1>6, <1>7, <1>8, <1>9, <1>10 DEF QuietAt
  <1> QED
    BY <1>3, <1>10, <1>11 DEF AllInv

LEMMA AllTrue ==
    ASSUME AllInv
    PROVE  AllOrNothing
  <1>1. SUFFICES ASSUME ~Pending, Quiet
                 PROVE  /\ restored \/ Verified
                        /\ \A p \in Paths : Exists(selection[p]) =>
                              dir[p].target = selection[p].ino
                        /\ \E v \in 0..edits : \A f \in Files :
                              IF dir[f].target = 0 THEN v = 0 /\ f \in Created
                              ELSE inodes[dir[f].target].content = v
    BY DEF AllOrNothing, Quiet
  <1>2. PICK v \in 0..edits : QuietAt(v)
    BY <1>1 DEF AllInv
  <1>3. Held(v) /\ Selects(v)
    BY <1>1, <1>2 DEF QuietAt, Unreplaced
  <1>4. ASSUME NEW f \in Files
        PROVE  IF dir[f].target = 0 THEN v = 0 /\ f \in Created
               ELSE inodes[dir[f].target].content = v
    <2>1. dir[f].target = 0 => selection[f].ino = 0
      BY <1>3, FileType DEF Held, Named
    <2> QED
      BY <1>3, <2>1 DEF Held, Selects
  <1> QED
    BY <1>3, <1>4 DEF Held, Named, Exists

\* As long as no other program writes and nothing is adopted as it is, an edit
\* that has ended, by Commit, its rollback or abort or a recovery, after any
\* crashes, power failures and failed calls, whatever fsync orders, happened to
\* all its files or to none; the stored selection names exactly the active
\* files, and describes them fully unless the edit exchanged a file back.
THEOREM AllTheorem == Spec => []AllOrNothing
  <1>1. Inv /\ KeptInv /\ [Next]_vars /\ Inv' => KeptInv'
    BY KeptNext
  <1>2. Inv /\ CandidatesOK /\ [Next]_vars => CandidatesOK'
    BY CandidatesStep
  <1>3. Inv /\ KeptInv /\ CandidatesOK /\ ClassInv /\ [Next]_vars /\ Inv' /\ KeptInv'
           => ClassInv'
    BY ClassNext
  <1>4. Inv /\ KeptInv /\ ClassInv /\ AllInv /\ [Next]_vars /\ Inv' => AllInv'
    BY AllNext
  <1>5. Init => CandidatesOK
    BY InitWhole DEF WholeInv
  <1>6. Spec => [](Inv /\ KeptInv /\ CandidatesOK /\ ClassInv /\ AllInv)
    BY Invariance, InitKept, InitClass, InitAll, <1>1, <1>2, <1>3, <1>4, <1>5, PTL DEF Spec
  <1>7. AllInv => AllOrNothing
    BY AllTrue
  <1> QED
    BY <1>6, <1>7, PTL
=============================================================================
