-------------------------- MODULE EditTransaction ---------------------------
(***************************************************************************)
(* Journaled replacement of native files (internal/workspace): Commit and  *)
(* Bootstrap, the cleanup of staged files, and administrator recovery      *)
(* after a crash, while other host programs keep writing the same files.   *)
(*                                                                         *)
(* The directory of a path has three names the service uses: the target,   *)
(* the stage `.acmemux-edit-<id>-<n>' and the quarantine `<stage>.remove'. *)
(* An inode has a content and a stamp; the stamp stands for mtime and      *)
(* ctime, and every write, rename or truncation of the inode moves it.     *)
(* The journal holds identities (inode and stamp), never contents.         *)
(*                                                                         *)
(* disk is what a power failure leaves of a directory: the state at its    *)
(* last fsync.  Contents are synchronised by the code before they matter.  *)
(***************************************************************************)
EXTENDS Integers, Sequences, FiniteSets

CONSTANTS NumEdits,   \* replacements of one edit, in activation order
          NumPaths,   \* reviewed paths; those above NumEdits are not edited
          Created,    \* edited paths that do not exist at first (all of
                      \* them: a first creation, nothing is selected)
          Works,      \* pieces of work saved by other host programs
          Empty,      \* the content of a scrubbed or unwritten inode
          FsyncOrders, \* fsync of a file also persists earlier renames of it
                       \* (journaling file systems do, POSIX does not say)
          MaxEdits,   \* edits started
          MaxFaults   \* crashes, power failures and failed calls

Files == 1..NumEdits
Paths == 1..NumPaths

ASSUME PathsAssumption ==
    /\ NumEdits \in Nat \ {0} /\ NumPaths \in Nat /\ NumEdits <= NumPaths
    /\ Created \subseteq Files
    /\ FsyncOrders \in BOOLEAN
    /\ MaxEdits \in Nat /\ MaxFaults \in Nat
    /\ Empty \notin Nat /\ Works \cap (Nat \cup {Empty}) = {}

VARIABLES
    inodes,     \* all inodes ever created: content and stamp
    dir,        \* directory entries of every path (0: no entry)
    disk,       \* the same as of the last directory synchronisation
    journal,    \* durable: the singleton edit journal
    selection,  \* durable: identity of every reviewed path
    pc,         \* where the lease holder is
    at,         \* the file it works on
    orig,       \* Commit: reviewed fingerprints
    cand,       \* Commit: fingerprints of the staged candidates
    unsure,     \* Commit: files with cleanupUncertain
    activated,  \* Commit: the current file's rename happened
    rm,         \* cleanup: descriptor, entry name, caller, failures so far
    seen,       \* sources read and validated by inspection or recovery
    choice,     \* resolution the administrator asked for
    edits,      \* edits started (the version of the candidate content)
    faults,
    saved,      \* history: external work nobody has reviewed or replaced
    used,       \* history: external work ever written
    adopted,    \* history: adopt_current resolved some edit
    restored    \* history: this edit (the last one) exchanged a file back

fs == <<inodes, dir, disk>>
db == <<journal, selection>>
mem == <<orig, cand, unsure, activated, rm, seen, choice>>
history == <<saved, used, adopted, restored>>
vars == <<inodes, dir, disk, journal, selection, pc, at, orig, cand, unsure,
          activated, rm, seen, choice, edits, faults, saved, used, adopted,
          restored>>

Slots == {"target", "stage", "remove"}
Contents == (0..MaxEdits) \cup Works \cup {Empty}

\* The identity of no file.
Missing == [ino |-> 0, stamp |-> 0, content |-> Empty]
Stat(i) == [ino |-> i, stamp |-> inodes[i].stamp, content |-> inodes[i].content]

\* openFingerprintAt, identityAt: what a name of a path shows now.
Entry(p, slot) ==
    IF dir[p][slot] = 0 THEN Missing ELSE Stat(dir[p][slot])

Exists(entry) == entry.ino # 0

\* Mutant: compares the inode only, an in-place save goes unnoticed.
SameContentByInode(expected, current) ==
    Exists(expected) /\ expected.ino = current.ino

\* sameFingerprintContent without times: the retained inode, the same bytes.
SameContent(expected, current) ==
    Exists(expected) /\ expected.ino = current.ino
        /\ expected.content = current.content

\* Mutant: the times are not compared.
SamePlacementByInode(expected, current) ==
    Exists(expected) /\ expected.ino = current.ino

\* samePlacement: everything the journal knows, times included.
SamePlacement(expected, current) ==
    Exists(expected) /\ expected.ino = current.ino
        /\ expected.stamp = current.stamp

OriginalPlacement(original, current) ==
    IF Exists(original) THEN SamePlacement(original, current)
                        ELSE ~Exists(current)

\* The journal keeps no content.
Identity(entry) == [entry EXCEPT !.content = Empty]

-----------------------------------------------------------------------------
(* The file system.                                                        *)

\* Rename, write and truncate move the stamps of the inodes they touch.
Touch(S) ==
    [i \in DOMAIN inodes |->
        IF i \in S THEN [inodes[i] EXCEPT !.stamp = @ + 1] ELSE inodes[i]]

Write(i, content) ==
    [inodes EXCEPT ![i] = [content |-> content, stamp |-> @.stamp + 1]]

\* fsync of the directory of p, given its entries and inodes.
Synced(p, d, n) ==
    [disk EXCEPT ![p] =
        [slots |-> d[p],
         stamp |-> [s \in Slots |-> IF d[p][s] = 0 THEN 0
                                    ELSE n[d[p][s]].stamp]]]

SyncDirectory(p) == disk' = Synced(p, dir', inodes')

\* renameat2: EXCHANGE two names, or move one to a free name (NOREPLACE).
Swap(p, a, b) ==
    /\ dir' = [dir EXCEPT ![p] = [@ EXCEPT ![a] = dir[p][b], ![b] = dir[p][a]]]
    /\ inodes' = Touch({dir[p][a], dir[p][b]})

\* Truncate and fsync the inode behind a descriptor, whatever its name is now.
ScrubOpenFile(p, i) ==
    /\ inodes' = Write(i, Empty)
    /\ disk' = IF FsyncOrders THEN Synced(p, dir, inodes')
               ELSE [disk EXCEPT ![p].stamp =
                       [s \in Slots |-> IF disk[p].slots[s] = i
                                        THEN inodes'[i].stamp ELSE @[s]]]

-----------------------------------------------------------------------------
NoFile == [original |-> Missing, candidate |-> Missing, ready |-> FALSE,
           applied |-> FALSE]
NoJournal == [phase |-> "none", files |-> [f \in Files |-> NoFile]]
NoSelection == [p \in Paths |-> Missing]
NoEntries == [p \in Paths |-> Missing]
NoRemoval == [fd |-> 0, slot |-> "stage", caller |-> "commit", failed |-> FALSE]

Pending == journal # NoJournal
FirstCreation == selection = NoSelection

Init ==
    /\ inodes = [p \in 1..NumPaths |-> [content |-> 0, stamp |-> 0]]
    /\ dir = [p \in Paths |-> [s \in Slots |->
                IF s = "target" /\ p \notin Created THEN p ELSE 0]]
    /\ disk = [p \in Paths |-> [slots |-> dir[p], stamp |-> [s \in Slots |-> 0]]]
    /\ journal = NoJournal
    /\ selection = [p \in Paths |->
          IF p \in Created THEN Missing ELSE Identity(Entry(p, "target"))]
    /\ pc = "idle" /\ at = 1
    /\ orig = NoEntries /\ cand = NoEntries /\ unsure = {} /\ activated = FALSE
    /\ rm = NoRemoval /\ seen = NoEntries /\ choice = "none"
    /\ edits = 0 /\ faults = 0
    /\ saved = {} /\ used = {} /\ adopted = FALSE /\ restored = FALSE

Fault == faults < MaxFaults /\ faults' = faults + 1

\* The call returns (or the process ends): its variables are gone.
Return ==
    /\ pc' = "idle" /\ at' = 1
    /\ orig' = NoEntries /\ cand' = NoEntries /\ unsure' = {}
    /\ activated' = FALSE
    /\ rm' = NoRemoval /\ seen' = NoEntries /\ choice' = "none"

\* Return with an error; a journal on record now asks for recovery.
Refuse == Return /\ UNCHANGED <<fs, db, edits, history>>

\* Go on at another location, for the same or another file.
Goto(location, file) == pc' = location /\ at' = file

\* abortBeforeReplacement: discardPrepared from the first file on.
Discard ==
    /\ Goto("abort", 1)
    /\ rm' = [NoRemoval EXCEPT !.caller = "abort"]
    /\ activated' = FALSE
    /\ UNCHANGED <<orig, seen, choice>>

Abort == Discard /\ UNCHANGED <<db, edits, history>>

-----------------------------------------------------------------------------
(* Snapshot, Commit and Bootstrap up to the first rename.                  *)

Existed(f) == Exists(orig[f])
Current == [p \in Paths |-> Entry(p, "target")]

\* Inspector.Verify: every reviewed path still is what was reviewed.
Verified ==
    \A p \in Paths : Exists(selection[p]) =>
        SamePlacement(selection[p], Entry(p, "target"))

\* The reviewed sources are read under the lease (what others wrote into them
\* has been reviewed by now).  Stage names carry a fresh transaction
\* identifier: entries under older names are out of the picture.
Begin ==
    /\ pc = "idle" /\ ~Pending /\ Verified /\ edits < MaxEdits
    /\ orig' = [p \in Paths |->
          IF Exists(selection[p]) THEN Entry(p, "target") ELSE Missing]
    /\ edits' = edits + 1
    /\ dir' = [p \in Paths |-> [dir[p] EXCEPT !.stage = 0, !.remove = 0]]
    /\ disk' = [p \in Paths |->
          [slots |-> [disk[p].slots EXCEPT !.stage = 0, !.remove = 0],
           stamp |-> [disk[p].stamp EXCEPT !.stage = 0, !.remove = 0]]]
    /\ saved' = {w \in saved : \E p \in Paths :
                    ~Exists(selection[p]) /\ Entry(p, "target").content = w}
    /\ restored' = FALSE
    /\ Goto("prepare", 1)
    /\ UNCHANGED <<inodes, db, cand, unsure, activated, rm, seen, choice,
                   faults, used, adopted>>

\* prepareJournal and journal.Create.
CreateJournal ==
    /\ pc = "prepare"
    /\ \/ /\ \A f \in Files :
                dir[f].remove = 0 /\ (Existed(f) \/ dir[f].target = 0)
          /\ journal' = [phase |-> "staging", files |-> [f \in Files |->
                [NoFile EXCEPT !.original = Identity(orig[f])]]]
          /\ Goto("stage", 1)
          /\ UNCHANGED <<fs, selection, mem, edits, faults, history>>
       \/ /\ \E f \in Files :
                dir[f].remove # 0 \/ (~Existed(f) /\ dir[f].target # 0)
          /\ Refuse /\ UNCHANGED faults
       \/ Fault /\ Refuse

\* stageCandidate: O_EXCL never takes over an entry that is already there.
StageCreate ==
    /\ pc = "stage"
    /\ \/ /\ dir[at].stage = 0
          /\ inodes' = Append(inodes, [content |-> Empty, stamp |-> 0])
          /\ dir' = [dir EXCEPT ![at].stage = Len(inodes) + 1]
          /\ rm' = [rm EXCEPT !.fd = Len(inodes) + 1]
          /\ Goto("write", at)
          /\ UNCHANGED <<disk, db, orig, cand, unsure, activated, seen, choice,
                         edits, faults, history>>
       \/ /\ dir[at].stage # 0
          /\ Abort /\ UNCHANGED <<fs, cand, unsure, faults>>
       \/ Fault /\ Abort /\ UNCHANGED <<fs, cand, unsure>>

\* The candidate is written and synchronised through the open descriptor.
StageWrite ==
    /\ pc = "write"
    /\ inodes' = Write(rm.fd, edits)
    /\ cand' = [cand EXCEPT ![at] = [ino |-> rm.fd, content |-> edits,
                                     stamp |-> inodes'[rm.fd].stamp]]
    /\ Goto("mark", at)
    /\ UNCHANGED <<dir, disk, db, orig, unsure, activated, rm, seen, choice,
                   edits, faults, history>>

\* Directory synchronisation, then the candidate's identity in the journal.
MarkCandidate ==
    /\ pc = "mark"
    /\ UNCHANGED <<inodes, dir>> /\ SyncDirectory(at)
    /\ journal' = [journal EXCEPT !.files[at].candidate = Identity(cand[at]),
                                  !.files[at].ready = TRUE]
    /\ IF at = NumEdits THEN Goto("recheck", 1) ELSE Goto("stage", at + 1)
    /\ UNCHANGED <<selection, mem, edits, faults, history>>

\* Any failure after the create scrubs the open inode and never unlinks.
StageFails ==
    /\ pc \in {"write", "mark"} /\ Fault
    /\ Abort
    /\ \/ /\ inodes' = Write(rm.fd, Empty)
          /\ cand' = [cand EXCEPT ![at] = [ino |-> rm.fd, content |-> Empty,
                                           stamp |-> inodes'[rm.fd].stamp]]
          /\ UNCHANGED <<dir, unsure>> /\ SyncDirectory(at)
       \/ /\ inodes' \in {inodes, Write(rm.fd, Empty)}
          /\ unsure' = unsure \cup {at}
          /\ UNCHANGED <<dir, disk, cand>>

\* recheckSources: sources unchanged, new targets free, candidates in place.
Rechecked ==
    /\ \A p \in Paths : Existed(p) => Entry(p, "target") = orig[p]
    /\ \A f \in Files :
          /\ ~Existed(f) => dir[f].target = 0
          /\ Entry(f, "stage") = cand[f]

RecheckStaged ==
    /\ pc = "recheck"
    /\ \/ /\ Rechecked
          /\ journal' = [journal EXCEPT !.phase = "prepared"]
          /\ Goto("replacing", 1)
          /\ UNCHANGED <<fs, selection, mem, edits, faults, history>>
       \/ ~Rechecked /\ Abort /\ UNCHANGED <<fs, cand, unsure, faults>>
       \/ Fault /\ Abort /\ UNCHANGED <<fs, cand, unsure>>

\* The replacing phase is recorded, then the session guard is asked.
EnterReplacing ==
    /\ pc = "replacing"
    /\ \/ /\ journal' = [journal EXCEPT !.phase = "replacing"]
          /\ Goto("authorize", 1)
          /\ UNCHANGED <<fs, selection, mem, edits, faults, history>>
       \/ Fault /\ Abort /\ UNCHANGED <<fs, cand, unsure>>

Authorize ==
    /\ pc = "authorize"
    /\ \/ /\ Rechecked
          /\ Goto("rename", 1)
          /\ UNCHANGED <<fs, db, mem, edits, faults, history>>
       \/ Abort /\ UNCHANGED <<fs, cand, unsure, faults>>

-----------------------------------------------------------------------------
(* activateCandidate, one file after another.                              *)

\* An error before anything was activated is an ordinary abort; afterwards,
\* and in a first creation, the journal stays and recovery is required.
ActivationFails ==
    IF at = 1 /\ ~activated /\ ~FirstCreation
    THEN Abort /\ UNCHANGED <<fs, cand, unsure>>
    ELSE Refuse

\* EXCHANGE for a reviewed target, NOREPLACE for a new one.
CanRename ==
    /\ dir[at].stage # 0
    /\ Existed(at) <=> dir[at].target # 0

\* Mutant: the target is unlinked first, then the stage takes its name.
RenameAfterUnlink ==
    /\ pc = "rename"
    /\ \/ /\ dir[at].target # 0
          /\ dir' = [dir EXCEPT ![at].target = 0]
          /\ UNCHANGED <<inodes, pc, at, activated>>
       \/ /\ dir[at].target = 0
          /\ Swap(at, "stage", "target")
          /\ activated' = TRUE
          /\ Goto("verify", at)
    /\ UNCHANGED <<disk, db, orig, cand, unsure, rm, seen, choice, edits,
                   faults, history>>

Rename ==
    /\ pc = "rename"
    /\ \/ /\ CanRename
          /\ Swap(at, "stage", "target")
          /\ activated' = TRUE
          /\ Goto("verify", at)
          /\ UNCHANGED <<disk, db, orig, cand, unsure, rm, seen, choice, edits,
                         faults, history>>
       \/ ~CanRename /\ ActivationFails /\ UNCHANGED faults
       \/ Fault /\ ActivationFails

\* Both files are read back.  Times differ now: the rename moved them.  A
\* displaced file that cannot be read is treated like somebody's work.
VerifyActive ==
    /\ pc = "verify"
    /\ LET active == Entry(at, "target")
           displaced == Entry(at, "stage")
       IN \/ /\ ~SameContent(cand[at], active)
             /\ Refuse /\ UNCHANGED faults
          \/ Fault /\ Refuse
          \/ /\ SameContent(cand[at], active) /\ Existed(at)
             /\ \/ ~SameContent(orig[at], displaced) /\ UNCHANGED faults
                \/ Fault
             /\ Goto("rollback", at)
             /\ UNCHANGED <<fs, db, mem, edits, history>>
          \/ /\ SameContent(cand[at], active)
             /\ Existed(at) => SameContent(orig[at], displaced)
             /\ cand' = [cand EXCEPT ![at] = active]
             /\ orig' = [orig EXCEPT ![at] =
                            IF Existed(at) THEN displaced ELSE Missing]
             /\ Goto("placement", at)
             /\ UNCHANGED <<fs, db, unsure, activated, rm, seen, choice, edits,
                            faults, history>>

\* The displaced file is not known to be the reviewed one.  It is put back
\* while the target still is the candidate.
CheckRollback ==
    /\ pc = "rollback"
    /\ \/ /\ SameContent(cand[at], Entry(at, "target"))
          /\ Goto("exchange_back", at)
          /\ UNCHANGED <<fs, db, mem, edits, faults, history>>
       \/ /\ ~SameContent(cand[at], Entry(at, "target"))
          /\ Refuse /\ UNCHANGED faults
       \/ Fault /\ Refuse

\* The exchange moves the times of the file that comes back, as well.  Once it
\* is synchronised, the first file counts as not activated.
ExchangeBack ==
    /\ pc = "exchange_back"
    /\ \/ /\ dir[at].stage # 0 /\ dir[at].target # 0
          /\ Swap(at, "stage", "target") /\ SyncDirectory(at)
          /\ restored' = TRUE
          /\ IF at = 1 THEN Discard /\ UNCHANGED <<cand, unsure>> ELSE Return
          /\ UNCHANGED <<db, edits, faults, saved, used, adopted>>
       \/ /\ dir[at].stage # 0 /\ dir[at].target # 0 /\ Fault
          /\ Swap(at, "stage", "target") /\ UNCHANGED disk
          /\ restored' = TRUE
          /\ Return /\ UNCHANGED <<db, edits, saved, used, adopted>>
       \/ /\ dir[at].stage = 0 \/ dir[at].target = 0
          /\ Refuse /\ UNCHANGED faults
       \/ Fault /\ Refuse

\* The identities after the rename, not yet applied.
MarkPlacement ==
    /\ pc = "placement"
    /\ \/ /\ journal' = [journal EXCEPT
                !.files[at].candidate = Identity(cand[at]),
                !.files[at].original = Identity(orig[at])]
          /\ Goto("sync", at)
          /\ UNCHANGED <<fs, selection, mem, edits, faults, history>>
       \/ Fault /\ Refuse

\* Mutant: the active directory is not synchronised.
SyncActiveSkipped ==
    /\ pc = "sync"
    /\ Goto("confirm", at)
    /\ UNCHANGED <<fs, db, mem, edits, faults, history>>

SyncActive ==
    /\ pc = "sync"
    /\ \/ /\ UNCHANGED <<inodes, dir>> /\ SyncDirectory(at)
          /\ Goto("confirm", at)
          /\ UNCHANGED <<db, mem, edits, faults, history>>
       \/ Fault /\ Refuse

ConfirmActive ==
    /\ pc = "confirm"
    /\ LET active == Entry(at, "target")
           displaced == Entry(at, "stage")
           good == /\ SameContent(cand[at], active)
                   /\ Existed(at) => SameContent(orig[at], displaced)
       IN \/ /\ good
             /\ cand' = [cand EXCEPT ![at] = active]
             /\ orig' = [orig EXCEPT ![at] =
                            IF Existed(at) THEN displaced ELSE Missing]
             /\ Goto("apply", at)
             /\ UNCHANGED <<fs, db, unsure, activated, rm, seen, choice, edits,
                            faults, history>>
          \/ ~good /\ Refuse /\ UNCHANGED faults
          \/ Fault /\ Refuse

\* Mutant: one file too many.
AdvancePastLast ==
    /\ IF at > NumEdits THEN Goto("finalizing", 1) ELSE Goto("rename", at + 1)
    /\ activated' = FALSE
    /\ rm' = NoRemoval

\* The next file, or the finalizing phase after the last one.
Advance ==
    /\ IF at = NumEdits THEN Goto("finalizing", 1) ELSE Goto("rename", at + 1)
    /\ activated' = FALSE
    /\ rm' = NoRemoval

MarkApplied ==
    /\ pc = "apply"
    /\ \/ /\ journal' = [journal EXCEPT
                !.files[at].candidate = Identity(cand[at]),
                !.files[at].original = Identity(orig[at]),
                !.files[at].applied = TRUE]
          /\ IF Existed(at)
             THEN /\ Goto("clean", at)
                  /\ rm' = [NoRemoval EXCEPT !.caller = "commit"]
                  /\ UNCHANGED activated
             ELSE Advance
          /\ UNCHANGED <<fs, selection, orig, cand, unsure, seen, choice, edits,
                         faults, history>>
       \/ Fault /\ Refuse

EnterFinalizing ==
    /\ pc = "finalizing"
    /\ \/ /\ journal' = [journal EXCEPT !.phase = "finalizing"]
          /\ Goto("inspect", 1)
          /\ UNCHANGED <<fs, selection, mem, edits, faults, history>>
       \/ Fault /\ Refuse

\* inspectCommitted: fresh evidence with the candidate's bytes in every edited
\* file and every other source untouched.
InspectCommitted ==
    /\ pc = "inspect"
    /\ LET good == \A p \in Paths :
              IF p \in Files THEN Current[p].content = edits
                             ELSE Existed(p) => Current[p] = orig[p]
       IN \/ /\ good
             /\ seen' = Current
             /\ Goto("finalize", 1)
             /\ UNCHANGED <<fs, db, orig, cand, unsure, activated, rm, choice,
                            edits, faults, history>>
          \/ ~good /\ Refuse /\ UNCHANGED faults
          \/ Fault /\ Refuse

\* Selection and journal change in one transaction.
FinalizeEdit ==
    /\ pc = "finalize"
    /\ \/ /\ selection' = [p \in Paths |-> Identity(seen[p])]
          /\ journal' = NoJournal
          /\ adopted' = (adopted \/ choice = "adopt_current")
          /\ Return
          /\ UNCHANGED <<fs, edits, faults, saved, used, restored>>
       \/ Fault /\ Refuse

-----------------------------------------------------------------------------
(* Cleanup of one stage: verify, quarantine, verify again, scrub, unlink.  *)

\* discardPrepared: a stage whose cleanup is uncertain is left alone.
DiscardPrepared ==
    /\ pc = "abort"
    /\ \/ /\ at \notin unsure
          /\ Goto("clean", at)
          /\ UNCHANGED rm
       \/ /\ at \in unsure
          /\ rm' = [rm EXCEPT !.failed = TRUE]
          /\ IF at = NumEdits THEN Goto("clear", 1) ELSE Goto("abort", at + 1)
    /\ UNCHANGED <<fs, db, orig, cand, unsure, activated, seen, choice, edits,
                   faults, history>>

\* Where the caller goes on after one file.
Cleaned ==
    /\ CASE rm.caller = "commit" -> Advance
         [] rm.caller = "abort" ->
              /\ IF at = NumEdits THEN Goto("clear", 1) ELSE Goto("abort", at + 1)
              /\ UNCHANGED <<rm, activated>>
         [] rm.caller = "recover" ->
              /\ IF at = NumEdits
                 THEN Goto(IF choice = "discard_unapplied" THEN "recheck_discard"
                           ELSE "recheck_final", 1)
                 ELSE Goto("clean", at + 1)
              /\ UNCHANGED <<rm, activated>>
    /\ UNCHANGED <<db, orig, cand, unsure, seen, choice, edits, history>>

CleanupFails ==
    IF rm.caller = "abort"
    THEN /\ IF at = NumEdits THEN Goto("clear", 1) ELSE Goto("abort", at + 1)
         /\ rm' = [rm EXCEPT !.failed = TRUE, !.fd = 0]
         /\ UNCHANGED <<db, orig, cand, unsure, activated, seen, choice, edits,
                        history>>
    ELSE Return /\ UNCHANGED <<db, edits, history>>

\* Mutant: a stage that is already gone, or quarantined, is not expected.
OwnedSlotsAssumed(f) == {"stage"}

\* ownedStageBasename: the stage or its quarantine, never both.
OwnedSlots(f) == {s \in {"stage", "remove"} : dir[f][s] # 0}

\* The file the caller may destroy: the displaced original, its own candidate,
\* or (recovery) a placement the journal knows.
Recognized(f, entry) ==
    CASE rm.caller = "commit"  -> SameContent(orig[f], entry)
      [] rm.caller = "abort"   -> SameContent(cand[f], entry)
      [] rm.caller = "recover" ->
            \/ /\ journal.files[f].ready
               /\ SamePlacement(journal.files[f].candidate, entry)
            \/ /\ choice # "discard_unapplied"
               /\ SamePlacement(journal.files[f].original, entry)

CleanOpen ==
    /\ pc = "clean"
    /\ LET owned == IF rm.caller = "commit" THEN {"stage"} ELSE OwnedSlots(at)
       IN \/ /\ owned = {}
             /\ UNCHANGED <<inodes, dir>>
             /\ IF rm.caller = "recover" THEN SyncDirectory(at)
                                         ELSE UNCHANGED disk
             /\ Cleaned /\ UNCHANGED faults
          \/ /\ Cardinality(owned) = 1
             /\ \E slot \in owned :
                   /\ Recognized(at, Entry(at, slot))
                   /\ rm' = [rm EXCEPT !.fd = dir[at][slot], !.slot = slot]
                   /\ Goto(IF slot = "stage" THEN "quarantine" ELSE "quarantined",
                           at)
             /\ UNCHANGED <<fs, db, orig, cand, unsure, activated, seen, choice,
                            edits, faults, history>>
          \/ /\ ~(owned = {} \/ \E slot \in owned :
                                   owned = {slot} /\ Recognized(at, Entry(at, slot)))
             /\ CleanupFails /\ UNCHANGED <<fs, faults>>
          \/ Fault /\ CleanupFails /\ UNCHANGED fs

\* Mutant: the wrong basename is moved.
QuarantineTarget ==
    /\ pc = "quarantine"
    /\ dir[at].remove = 0
    /\ Swap(at, "target", "remove")
    /\ Goto("quarantined", at)
    /\ UNCHANGED <<disk, db, mem, edits, faults, history>>

\* The entry, whatever it is by now, moves to the quarantine name.
Quarantine ==
    /\ pc = "quarantine"
    /\ \/ /\ dir[at].stage # 0 /\ dir[at].remove = 0
          /\ Swap(at, "stage", "remove")
          /\ Goto("quarantined", at)
          /\ UNCHANGED <<disk, db, mem, edits, faults, history>>
       \/ /\ dir[at].stage = 0 \/ dir[at].remove # 0
          /\ CleanupFails /\ UNCHANGED <<fs, faults>>
       \/ Fault /\ CleanupFails /\ UNCHANGED fs

\* A substituted file, or one that cannot be identified, is moved back, and
\* reported instead of destroyed.
VerifyQuarantine ==
    /\ pc = "quarantined"
    /\ \/ /\ dir[at].remove = rm.fd
          /\ Goto("scrub", at)
          /\ UNCHANGED <<fs, db, mem, edits, faults, history>>
       \/ /\ \/ dir[at].remove # rm.fd /\ UNCHANGED faults
             \/ Fault
          /\ IF rm.slot = "stage" /\ dir[at].stage = 0 /\ dir[at].remove # 0
             THEN Swap(at, "stage", "remove") /\ UNCHANGED disk
             ELSE UNCHANGED fs
          /\ CleanupFails

Scrub ==
    /\ pc = "scrub"
    /\ \/ /\ ScrubOpenFile(at, rm.fd) /\ UNCHANGED dir
          /\ Goto("unlink", at)
          /\ UNCHANGED <<db, mem, edits, faults, history>>
       \/ Fault /\ CleanupFails /\ UNCHANGED fs

Unlink ==
    /\ pc = "unlink"
    /\ \/ /\ dir[at].remove = rm.fd
          /\ dir' = [dir EXCEPT ![at].remove = 0]
          /\ UNCHANGED inodes
          /\ \/ SyncDirectory(at) /\ Cleaned /\ UNCHANGED faults
             \/ Fault /\ CleanupFails /\ UNCHANGED disk
       \/ /\ dir[at].remove # rm.fd
          /\ CleanupFails /\ UNCHANGED <<fs, faults>>
       \/ Fault /\ CleanupFails /\ UNCHANGED fs

\* Mutant: the journal is cleared although a stage may be left.
ClearAbortedAnyway ==
    /\ pc = "clear"
    /\ journal' = NoJournal
    /\ Return
    /\ UNCHANGED <<fs, selection, edits, faults, history>>

\* journal.Clear, only when every stage is provably gone.
ClearAborted ==
    /\ pc = "clear"
    /\ \/ /\ ~rm.failed
          /\ journal' = NoJournal
          /\ Return
          /\ UNCHANGED <<fs, selection, edits, faults, history>>
       \/ rm.failed /\ Refuse /\ UNCHANGED faults
       \/ Fault /\ Refuse

-----------------------------------------------------------------------------
(* Administrator recovery.                                                 *)

\* classifyRecoveryFile: identities only, times included.
ClassifyFile(f) ==
    LET j == journal.files[f]
        target == Entry(f, "target")
        stage == Entry(f, "stage")
        targetOriginal == OriginalPlacement(j.original, target)
        targetCandidate == SamePlacement(j.candidate, target)
        stageCandidate == SamePlacement(j.candidate, stage)
        stageOriginal == SamePlacement(j.original, stage)
    IN IF dir[f].remove # 0 THEN "ambiguous"
       ELSE IF ~j.ready
       THEN IF ~Exists(stage) /\ targetOriginal /\ ~j.applied
            THEN "unstaged" ELSE "ambiguous"
       ELSE IF targetOriginal /\ ~Exists(stage) /\ ~j.applied THEN "unstaged"
       ELSE IF targetCandidate /\ ~stageCandidate
                 /\ (~Exists(stage) \/ stageOriginal) THEN "applied"
       ELSE IF targetOriginal /\ stageCandidate /\ ~j.applied THEN "unapplied"
       ELSE "ambiguous"

\* Mutant: one applied file is taken for an applied edit.
RecoveryStateAnyApplied ==
    LET states == {ClassifyFile(f) : f \in Files}
    IN IF "ambiguous" \in states THEN "ambiguous"
       ELSE IF "applied" \in states THEN "applied"
       ELSE "unapplied"

\* InspectRecovery.
RecoveryState ==
    LET states == {ClassifyFile(f) : f \in Files}
    IN IF "ambiguous" \in states THEN "ambiguous"
       ELSE IF states = {"applied"} THEN "applied"
       ELSE IF states \subseteq {"unapplied", "unstaged"} THEN "unapplied"
       ELSE "partial"

\* readRecoveryCurrent: the reviewed (or all created) files exist.
Adoptable ==
    \A p \in Paths : FirstCreation \/ Exists(selection[p]) => dir[p].target # 0

\* samePreEditRecoveryBoundary: only journaled targets may have changed.
SameBoundary(read) ==
    \A p \in Paths \ Files : SamePlacement(selection[p], read[p])

ResolveDiscard ==
    /\ pc = "idle" /\ Pending /\ RecoveryState = "unapplied" /\ Verified
    /\ choice' = "discard_unapplied"
    /\ Goto("authorize_discard", 1)
    /\ UNCHANGED <<fs, db, orig, cand, unsure, activated, rm, seen, edits,
                   faults, history>>

\* The session guard; a first creation is classified once more.
AuthorizeDiscard ==
    /\ pc = "authorize_discard"
    /\ \/ /\ FirstCreation => RecoveryState = "unapplied"
          /\ rm' = [NoRemoval EXCEPT !.caller = "recover"]
          /\ Goto("clean", 1)
          /\ UNCHANGED <<fs, db, orig, cand, unsure, activated, seen, choice,
                         edits, history>>
       \/ Refuse
    /\ UNCHANGED faults

ClearDiscarded ==
    /\ pc = "recheck_discard"
    /\ LET good == IF FirstCreation THEN RecoveryState = "unapplied" ELSE Verified
       IN \/ /\ good
             /\ journal' = NoJournal
             /\ Return
             /\ UNCHANGED <<fs, selection, edits, faults, history>>
          \/ ~good /\ Refuse /\ UNCHANGED faults
          \/ Fault /\ Refuse

\* finalize_applied and adopt_current read the current files first.
ResolveCurrent(resolution) ==
    /\ pc = "idle" /\ Pending /\ Adoptable
    /\ \/ /\ resolution = "finalize_applied"
          /\ RecoveryState = "applied" /\ ~FirstCreation
          /\ SameBoundary(Current)
       \/ /\ resolution = "adopt_current"
          /\ RecoveryState \in {"applied", "partial", "ambiguous"}
    /\ choice' = resolution
    /\ seen' = Current
    /\ Goto("validate", 1)
    /\ UNCHANGED <<fs, db, orig, cand, unsure, activated, rm, edits, faults,
                   history>>

\* The validator judges what was read; it is read again and compared.
ValidateCurrent ==
    /\ pc = "validate"
    /\ \/ /\ Current = seen
          /\ Goto("authorize_current", 1)
          /\ UNCHANGED <<fs, db, mem, edits, history>>
       \/ Refuse
    /\ UNCHANGED faults

\* The session guard, a fresh classification, a third reading.
AuthorizeCurrent ==
    /\ pc = "authorize_current"
    /\ \/ /\ Current = seen
          /\ choice = "finalize_applied" =>
                RecoveryState = "applied" /\ SameBoundary(seen)
          /\ rm' = [NoRemoval EXCEPT !.caller = "recover"]
          /\ Goto("clean", 1)
          /\ UNCHANGED <<fs, db, orig, cand, unsure, activated, seen, choice,
                         edits, history>>
       \/ Refuse
    /\ UNCHANGED faults

RecheckCurrent ==
    /\ pc = "recheck_final"
    /\ \/ /\ Current = seen
          /\ choice = "finalize_applied" => SameBoundary(seen)
          /\ Goto("finalize", 1)
          /\ UNCHANGED <<fs, db, mem, edits, faults, history>>
       \/ /\ ~(Current = seen /\ (choice = "finalize_applied" => SameBoundary(seen)))
          /\ Refuse /\ UNCHANGED faults
       \/ Fault /\ Refuse

-----------------------------------------------------------------------------
(* Other host programs, the operator, and the end of the process.          *)

\* A save by rename: a new file takes the target's name.
ExternalReplace(p, w) ==
    /\ inodes' = Append(inodes, [content |-> w, stamp |-> 0])
    /\ dir' = [dir EXCEPT ![p].target = Len(inodes) + 1]
    /\ saved' = (saved \ {Entry(p, "target").content}) \cup {w}

\* A save in place.
ExternalWrite(p, w) ==
    /\ dir[p].target # 0
    /\ inodes' = Write(dir[p].target, w)
    /\ saved' = (saved \ {Entry(p, "target").content}) \cup {w}
    /\ UNCHANGED dir

\* A file that appears under a stage name.
ExternalSubstitute(p, w) ==
    /\ Pending /\ p \in Files
    /\ inodes' = Append(inodes, [content |-> w, stamp |-> 0])
    /\ dir' = [dir EXCEPT ![p].stage = Len(inodes) + 1]
    /\ saved' = (saved \ {Entry(p, "stage").content}) \cup {w}

\* The host program synchronises what it saved.
External ==
    \E p \in Paths, w \in Works \ used :
        /\ \/ ExternalReplace(p, w)
           \/ ExternalWrite(p, w)
           \/ ExternalSubstitute(p, w)
        /\ used' = used \cup {w}
        /\ SyncDirectory(p)
        /\ UNCHANGED <<db, pc, at, mem, edits, faults, adopted, restored>>

\* The operator removes a staging entry the incident left behind.
HostCleanup ==
    /\ pc = "idle" /\ Pending /\ RecoveryState = "ambiguous"
    /\ \E f \in Files, s \in {"stage", "remove"} :
          /\ dir[f][s] # 0
          /\ dir' = [dir EXCEPT ![f][s] = 0]
          /\ UNCHANGED inodes /\ SyncDirectory(f)
          /\ saved' = saved \ {Entry(f, s).content}
    /\ UNCHANGED <<db, pc, at, mem, edits, faults, used, adopted, restored>>

\* The process is killed; the kernel keeps its directories.
Crash ==
    /\ pc # "idle" /\ Fault
    /\ Return
    /\ UNCHANGED <<fs, db, edits, history>>

\* Power fails: any directory may fall back to its last synchronisation.
PowerFailure ==
    /\ disk # [p \in Paths |-> Synced(p, dir, inodes)[p]] /\ Fault
    /\ \E lost \in SUBSET Paths :
          /\ dir' = [p \in Paths |-> IF p \in lost THEN disk[p].slots ELSE dir[p]]
          /\ inodes' = [i \in DOMAIN inodes |->
                IF \E p \in lost, s \in Slots : disk[p].slots[s] = i
                THEN [inodes[i] EXCEPT !.stamp =
                        LET where == CHOOSE ps \in lost \X Slots :
                                        disk[ps[1]].slots[ps[2]] = i
                        IN disk[where[1]].stamp[where[2]]]
                ELSE inodes[i]]
          /\ disk' = [p \in Paths |-> Synced(p, dir', inodes')[p]]
    /\ Return
    /\ UNCHANGED <<db, edits, history>>

-----------------------------------------------------------------------------
Staging == CreateJournal \/ StageCreate \/ StageWrite \/ MarkCandidate
Activation ==
    \/ RecheckStaged \/ EnterReplacing \/ Authorize
    \/ Rename \/ VerifyActive \/ CheckRollback \/ ExchangeBack
    \/ MarkPlacement \/ SyncActive \/ ConfirmActive \/ MarkApplied
    \/ EnterFinalizing \/ InspectCommitted \/ FinalizeEdit
Cleanup ==
    \/ DiscardPrepared \/ CleanOpen \/ Quarantine \/ VerifyQuarantine
    \/ Scrub \/ Unlink \/ ClearAborted
Recovery ==
    \/ AuthorizeDiscard \/ ClearDiscarded
    \/ ValidateCurrent \/ AuthorizeCurrent \/ RecheckCurrent

Service == Staging \/ Activation \/ Cleanup \/ Recovery

Resolve ==
    \/ ResolveDiscard
    \/ \E resolution \in {"finalize_applied", "adopt_current"} :
          ResolveCurrent(resolution)

Next ==
    \/ Begin \/ Service \/ StageFails \/ Resolve
    \/ External \/ HostCleanup \/ Crash \/ PowerFailure

Spec == Init /\ [][Next]_vars

(***************************************************************************)
(* Fairness.  A call that holds the lease goes on; an administrator keeps  *)
(* trying the offered resolutions, is not refused for ever by the session  *)
(* guard or the validator, and clears the staging entries the incident     *)
(* names.                                                                  *)
(***************************************************************************)
Fairness ==
    /\ WF_vars(Service) /\ SF_vars(HostCleanup)
    /\ SF_vars(ResolveDiscard) /\ SF_vars(ResolveCurrent("adopt_current"))
    /\ SF_vars(AuthorizeDiscard /\ pc' # "idle")
    /\ SF_vars(ValidateCurrent /\ pc' # "idle")
    /\ SF_vars(AuthorizeCurrent /\ pc' # "idle")

FairSpec == Spec /\ Fairness

-----------------------------------------------------------------------------
Phases == {"none", "staging", "prepared", "replacing", "finalizing"}
Entries == [ino : Nat, stamp : Nat, content : Contents]

\* Shape of the state.
TypeOK ==
    /\ \A i \in DOMAIN inodes : inodes[i] \in [content : Contents, stamp : Nat]
    /\ dir \in [Paths -> [Slots -> 0..Len(inodes)]]
    /\ \A p \in Paths : disk[p].slots \in [Slots -> 0..Len(inodes)]
    /\ journal.phase \in Phases
    /\ journal.files \in [Files -> [original : Entries, candidate : Entries,
                                    ready : BOOLEAN, applied : BOOLEAN]]
    /\ selection \in [Paths -> Entries]
    /\ at \in Files
    /\ orig \in [Paths -> Entries] /\ cand \in [Paths -> Entries]
    /\ unsure \subseteq Files
    /\ seen \in [Paths -> Entries]
    /\ saved \subseteq used /\ used \subseteq Works

\* What a power failure would leave of a directory holds the content.
Holds(slots, content) ==
    \E s \in Slots : slots[s] # 0 /\ inodes[slots[s]].content = content

\* Work that another program saved is never destroyed or overwritten by the
\* service: it is still under some name, now and after a power failure.  The
\* rollback of activateCandidate and the quarantine are there for this.
ExternalWorkKept ==
    \A w \in saved :
        /\ \E p \in Paths : Holds(dir[p], w)
        /\ \E p \in Paths : Holds(disk[p].slots, w)

\* An active file is at every instant, and after every power failure, a
\* complete one: a reviewed or candidate version or somebody's own work, never
\* missing (once it is part of the selected workspace), half written or
\* scrubbed.
ActiveFilesWhole ==
    \A p \in Paths : \A t \in {dir[p].target, disk[p].slots["target"]} :
        IF t = 0 THEN selection[p] = Missing ELSE inodes[t].content # Empty

\* Nothing confidential is left behind unrecorded: without a journal no stage
\* or quarantine name holds a candidate or an original, even after a crash.
StagesJournaled ==
    ~Pending =>
        \A f \in Files, s \in {"stage", "remove"} :
            \A i \in {dir[f][s], disk[f].slots[s]} :
                i # 0 => inodes[i].content \in Works

\* Without outside interference and without an explicit adoption of current
\* files, an edit without a journal happened to all its files or to none, and
\* the stored selection names exactly the active files.  It describes them to
\* the last detail unless activateCandidate exchanged a file back: a displaced
\* file that could not be read returns with new times, and no edit starts on
\* it before it is reviewed again.
AllOrNothing ==
    ~Pending /\ pc = "idle" /\ used = {} /\ ~adopted =>
        /\ restored \/ Verified
        /\ \A p \in Paths : Exists(selection[p]) =>
              dir[p].target = selection[p].ino
        /\ \E v \in 0..edits : \A f \in Files :
              IF dir[f].target = 0 THEN v = 0 /\ f \in Created
              ELSE inodes[dir[f].target].content = v

\* The classification shown to the administrator tells the truth about the
\* bytes although the journal records only identities: "applied" files hold
\* the candidate, files of an "unapplied" edit what they held before it.
ClassificationTrue ==
    Pending /\ pc = "idle" =>
        /\ RecoveryState = "applied" =>
              \A f \in Files : Entry(f, "target").content = edits
        /\ RecoveryState = "unapplied" =>
              \A f \in Files : Entry(f, "target").content # edits

\* Recovery never replays an edit: discarding, finalising and adopting leave
\* every active file in place, with its bytes.
RecoveryKeepsActive ==
    [][rm.caller = "recover" /\ pc # "idle" /\ used' = used /\ faults' = faults =>
        \A p \in Paths :
            /\ dir'[p].target = dir[p].target
            /\ dir[p].target # 0 =>
                  inodes'[dir[p].target] = inodes[dir[p].target]]_vars

\* Commit destroys a file's earlier content only after the replacement is
\* recorded as applied and durably in place, whatever fsync orders.
DestroyedAfterApplied ==
    [][rm.caller = "commit" /\ pc = "scrub" /\ pc' = "unlink" =>
        /\ journal.files[at].applied
        /\ disk[at].slots["target"] \notin {0, rm.fd}]_vars

\* No interrupted edit blocks the workspace for ever: with the documented
\* operator actions every pending journal is resolved.
RecoveryResolves == Pending ~> ~Pending
=============================================================================
