----------------------- MODULE EditTransactionProofs ------------------------
(***************************************************************************)
(* Theorems about EditTransaction for any number of paths, edits, faults   *)
(* and pieces of external work.                                            *)
(*                                                                         *)
(* An inode belongs to one path for ever, and every step but the start of  *)
(* an edit and a power failure works in the directory of one path: what    *)
(* the invariant says of the other paths carries over (Local).             *)
(***************************************************************************)
EXTENDS EditTransaction, FiniteSetTheorems, SequenceTheorems, TLAPS

-----------------------------------------------------------------------------
(* The file system.                                                        *)

INode == [content : Contents, stamp : Nat]
Ids == 0..Len(inodes)
Disks == [slots : [Slots -> Ids], stamp : [Slots -> Nat]]

\* A name of path p, in memory or on disk, leads to inode i.
Refers(p, i) ==
    i # 0 /\ \E s \in Slots : dir[p][s] = i \/ disk[p].slots[s] = i

OneName(slots) ==
    \A s, t \in Slots : slots[s] # 0 /\ slots[s] = slots[t] => s = t

\* An inode has one name at a time, and never a name of another path.
FsOK ==
    /\ inodes \in Seq(INode)
    /\ dir \in [Paths -> [Slots -> Ids]]
    /\ disk \in [Paths -> Disks]
    /\ \A p, q \in Paths, i \in Ids : Refers(p, i) /\ Refers(q, i) => p = q
    /\ \A p \in Paths : OneName(dir[p]) /\ OneName(disk[p].slots)

-----------------------------------------------------------------------------
(* Where the lease holder is.                                              *)

Before == {"stage", "write", "mark", "recheck", "replacing", "authorize"}
Exchanged == {"verify", "rollback", "exchange_back"}
Placed == {"placement", "sync", "confirm", "apply"}
Activating == {"rename"} \cup Exchanged \cup Placed
Opened == {"quarantine", "quarantined", "scrub", "unlink"}
Cleaning == {"clean"} \cup Opened
Last == {"finalizing", "inspect", "finalize", "recheck_discard", "recheck_final"}
Asking == {"authorize_discard", "validate", "authorize_current"}
Places == {"idle", "prepare", "abort", "clear"} \cup Asking \cup Before
          \cup Activating \cup Cleaning \cup Last

FileRecords == [original : Entries, candidate : Entries, ready : BOOLEAN,
                applied : BOOLEAN]
Removals == [fd : Ids, slot : {"stage", "remove"},
             caller : {"commit", "abort", "recover"}, failed : BOOLEAN]

MemoryOK ==
    /\ journal \in [phase : Phases, files : [Files -> FileRecords]]
    /\ selection \in [Paths -> Entries] /\ seen \in [Paths -> Entries]
    /\ orig \in [Paths -> Entries] /\ cand \in [Paths -> Entries]
    /\ at \in Files /\ unsure \subseteq Files /\ edits \in 0..MaxEdits
    /\ saved \subseteq used /\ used \subseteq Works
    /\ rm \in Removals
    /\ pc \in Places

\* Where the lease holder may be, on whose behalf, with a journal or without.
PlaceOK ==
    /\ journal = NoJournal \/ journal.phase # "none"
    /\ pc \notin {"idle", "prepare"} => journal.phase # "none"
    /\ pc = "prepare" => journal = NoJournal
    /\ pc \in {"abort", "clear"} => rm.caller = "abort"
    /\ pc \in {"recheck_discard", "recheck_final"} => rm.caller = "recover"
    /\ rm.caller = "abort" => pc \in {"abort", "clear"} \cup Cleaning
    /\ rm.caller = "recover" =>
          pc \in {"recheck_discard", "recheck_final", "finalize"} \cup Cleaning

\* The descriptor at hand is of no other path and of no active file.
DescriptorOK ==
    /\ pc \in {"write", "mark"} \cup Opened =>
          /\ rm.fd # 0 /\ dir[at].target # rm.fd
          /\ \A p \in Paths : Refers(p, rm.fd) => p = at
    /\ pc \in {"write", "mark"} =>
          /\ dir[at].stage # 0 /\ dir[at].remove # rm.fd
          /\ disk[at].slots["target"] # rm.fd /\ disk[at].slots["remove"] # rm.fd
    /\ pc \in {"quarantined", "scrub", "unlink"} => dir[at].stage # rm.fd

Committing == pc \in Cleaning /\ rm.caller = "commit"

\* A replacement is in place before the file it replaces is destroyed.
PlacementOK ==
    /\ pc \in Placed \/ Committing => dir[at].target # 0
    /\ Committing => journal.files[at].applied

\* The files whose active entry is the same in memory and on disk.
Synchronised ==
    IF (pc = "idle" /\ Pending) \/ pc \in Asking THEN {}
    ELSE IF pc \in Cleaning /\ rm.caller = "recover" THEN 1..(at - 1)
    ELSE IF pc \in Exchanged \cup {"placement", "sync"} THEN Files \ {at}
    ELSE Files

SynchronisedOK ==
    \A p \in Paths : p \notin Files \/ p \in Synchronised =>
        disk[p].slots["target"] = dir[p].target

-----------------------------------------------------------------------------
(* The names of staged files.                                              *)

\* Nothing but somebody's own work is left under them.
TidyEntry(i) == i # 0 => inodes[i].content \in Works
Tidy(f) ==
    /\ TidyEntry(dir[f].stage) /\ TidyEntry(dir[f].remove)
    /\ TidyEntry(disk[f].slots["stage"]) /\ TidyEntry(disk[f].slots["remove"])

\* The files whose stages are cleaned up, or were never made.
Tidied ==
    IF ~Pending \/ pc \in Last \/ (pc = "clear" /\ ~rm.failed) THEN Files
    ELSE IF \/ pc \in Activating
            \/ /\ pc \in {"abort"} \cup Cleaning
               /\ rm.caller = "abort" => ~rm.failed
    THEN 1..(at - 1) ELSE {}

\* The files that an abort finds untouched when they have no stage.
Abortable ==
    IF pc \in Before \/ (pc = "rename" /\ at = 1) THEN Files
    ELSE IF pc \in Exchanged /\ at = 1 THEN 2..NumEdits
    ELSE IF pc \in {"abort", "clean"} /\ rm.caller = "abort" THEN at..NumEdits
    ELSE IF pc \in Opened /\ rm.caller = "abort" THEN (at + 1)..NumEdits
    ELSE {}

\* The files that were not quarantined yet.
Unmoved ==
    IF pc \in Before THEN Files ELSE IF pc \in Activating THEN at..NumEdits
    ELSE IF Committing THEN (at + 1)..NumEdits
    ELSE {}

\* The current file's stage name is free, or somebody else's.
Vacated ==
    \/ pc \in {"quarantined", "scrub", "unlink"}
    \/ pc \in {"verify", "placement", "sync"} /\ ~Existed(at)

StagesOK ==
    /\ \A f \in Files : f \in Tidied => Tidy(f)
    /\ \A f \in Files :
          f \in Abortable /\ dir[f].stage = 0 /\ dir[f].remove = 0 => Tidy(f)
    /\ \A f \in Files : f \in Unmoved => dir[f].remove = 0
    /\ Vacated => TidyEntry(dir[at].stage)
    /\ pc \in {"confirm", "apply"} /\ ~Existed(at) => Tidy(at)
    /\ pc \in {"rollback", "exchange_back"} => Existed(at)

Inv ==
    /\ FsOK /\ MemoryOK /\ PlaceOK /\ DescriptorOK /\ PlacementOK
    /\ SynchronisedOK /\ StagesOK

-----------------------------------------------------------------------------
(* Steps in the directory of one path.                                     *)

\* Only path p has other names, each of an inode of p or a new one, and only
\* inodes without a name of another path are touched.
Local(p) ==
    /\ inodes' \in Seq(INode) /\ Len(inodes') >= Len(inodes)
    /\ dir' \in [Paths -> [Slots -> Ids']] /\ disk' \in [Paths -> Disks']
    /\ \A q \in Paths : q # p =>
          /\ dir'[q] = dir[q] /\ disk'[q].slots = disk[q].slots
          /\ \A i \in Ids : Refers(q, i) => inodes'[i] = inodes[i]
    /\ OneName(dir'[p]) /\ OneName(disk'[p].slots)
    /\ \A s \in Slots : \A i \in {dir'[p][s], disk'[p].slots[s]} :
          i # 0 => Refers(p, i) \/ i > Len(inodes)

LEMMA FileType == Files \subseteq Paths /\ Files \subseteq Nat /\ Paths \subseteq Nat \ {0}
  BY PathsAssumption DEF Files, Paths

\* An inode never gets a name of a second path.
LEMMA LocalFs == ASSUME FsOK, NEW p \in Paths, Local(p)  PROVE FsOK'
  <1>1. \A q \in Paths : OneName(dir'[q]) /\ OneName(disk'[q].slots)
    BY DEF FsOK, Local
  <1>2. \A q \in Paths : \A i : q # p => (Refers(q, i)' <=> Refers(q, i))
    BY DEF Local, Refers
  <1>3. \A i : Refers(p, i)' => i # 0 /\ (Refers(p, i) \/ i > Len(inodes))
    BY DEF Local, Refers
  <1>4. \A q \in Paths : \A i : Refers(q, i) => i \in Ids
    BY DEF FsOK, Refers, Ids, Disks
  <1>5. ASSUME NEW q \in Paths, NEW r \in Paths, NEW i \in Ids', Refers(q, i)',
               Refers(r, i)'
        PROVE q = r
    <2>1. Len(inodes) \in Nat
      BY DEF FsOK
    <2>2. CASE q # p /\ r # p
      BY <1>2, <1>4, <1>5, <2>2 DEF FsOK
    <2>3. CASE q = p /\ r # p
      BY <1>2, <1>3, <1>4, <1>5, <2>1, <2>3 DEF FsOK, Ids
    <2>4. CASE q # p /\ r = p
      BY <1>2, <1>3, <1>4, <1>5, <2>1, <2>4 DEF FsOK, Ids
    <2> QED
      BY <2>2, <2>3, <2>4
  <1> QED
    BY <1>1, <1>5 DEF FsOK, Local

\* What is known of another path carries over.
LEMMA Elsewhere ==
    ASSUME FsOK, NEW p \in Paths, Local(p), NEW q \in Paths, q # p
    PROVE  /\ dir'[q] = dir[q] /\ disk'[q].slots = disk[q].slots
           /\ \A s \in Slots : Entry(q, s)' = Entry(q, s)
           /\ Tidy(q)' <=> Tidy(q)
           /\ \A i : Refers(q, i)' <=> Refers(q, i)
  <1>1. /\ dir'[q] = dir[q] /\ disk'[q].slots = disk[q].slots
        /\ \A i \in Ids : Refers(q, i) => inodes'[i] = inodes[i]
    BY DEF Local
  <1>2. \A s \in Slots : /\ dir[q][s] # 0 => Refers(q, dir[q][s])
                         /\ disk[q].slots[s] # 0 => Refers(q, disk[q].slots[s])
    BY DEF Refers
  <1>3. \A s \in Slots : dir[q][s] \in Ids /\ disk[q].slots[s] \in Ids
    BY DEF FsOK, Disks
  <1>4. "target" \in Slots /\ "stage" \in Slots /\ "remove" \in Slots
    BY DEF Slots
  <1>5. \A s \in Slots : /\ dir[q][s] # 0 => inodes'[dir[q][s]] = inodes[dir[q][s]]
                         /\ disk[q].slots[s] # 0 =>
                              inodes'[disk[q].slots[s]] = inodes[disk[q].slots[s]]
    BY <1>1, <1>2, <1>3
  <1>6. \A s \in Slots : Entry(q, s)' = Entry(q, s)
    BY <1>1, <1>5 DEF Entry, Stat
  <1>7. Tidy(q)' <=> Tidy(q)
    BY <1>1, <1>4, <1>5 DEF Tidy, TidyEntry
  <1> QED
    BY <1>1, <1>6, <1>7 DEF Refers

\* A step that leaves the file system alone.
LEMMA Nowhere ==
    ASSUME FsOK, UNCHANGED fs
    PROVE  /\ FsOK' /\ dir' = dir /\ disk' = disk /\ inodes' = inodes
           /\ \A q : Tidy(q)' <=> Tidy(q)
           /\ \A q, s : Entry(q, s)' = Entry(q, s)
           /\ \A q, i : Refers(q, i)' <=> Refers(q, i)
           /\ Ids' = Ids
  BY DEF fs, FsOK, Tidy, TidyEntry, Entry, Stat, Refers, OneName, Ids, Disks

\* Whether the directory is synchronised or not is all the same.
LEMMA LocalStep ==
    ASSUME FsOK, NEW p \in Paths,
           inodes' \in Seq(INode), Len(inodes') >= Len(inodes),
           dir' \in [Paths -> [Slots -> Ids']],
           \A q \in Paths : q # p =>
              /\ dir'[q] = dir[q]
              /\ \A i \in Ids : Refers(q, i) => inodes'[i] = inodes[i],
           OneName(dir'[p]),
           \A s \in Slots : dir'[p][s] # 0 =>
              Refers(p, dir'[p][s]) \/ dir'[p][s] > Len(inodes),
           \/ disk' = disk \/ SyncDirectory(p)
           \/ /\ disk' \in [Paths -> Disks]
              /\ \A q \in Paths : disk'[q].slots = disk[q].slots
    PROVE  Local(p)
  <1>0. Len(inodes) \in Nat /\ Len(inodes') \in Nat
    BY DEF FsOK
  <1>1. Disks \subseteq Disks'
    BY <1>0, SMTT(30) DEF Disks, Ids
  <1>2. CASE \/ disk' = disk
             \/ /\ disk' \in [Paths -> Disks]
                /\ \A q \in Paths : disk'[q].slots = disk[q].slots
    <2>1. disk' \in [Paths -> Disks']
      BY <1>1, <1>2 DEF FsOK
    <2>2. \A q \in Paths : disk'[q].slots = disk[q].slots
      BY <1>2
    <2>3. OneName(disk'[p].slots)
      BY <2>2 DEF FsOK
    <2>4. \A s \in Slots : disk'[p].slots[s] # 0 => Refers(p, disk'[p].slots[s])
      BY <2>2 DEF Refers
    <2> QED
      BY <2>1, <2>2, <2>3, <2>4 DEF Local
  <1>3. CASE SyncDirectory(p)
    <2> DEFINE new == [slots |-> dir'[p],
                       stamp |-> [s \in Slots |-> IF dir'[p][s] = 0 THEN 0
                                                  ELSE inodes'[dir'[p][s]].stamp]]
    <2>1. disk' = [disk EXCEPT ![p] = new]
      BY <1>3 DEF SyncDirectory, Synced
    <2>2. dir'[p] \in [Slots -> Ids']
      OBVIOUS
    <2>a. \A i \in 1..Len(inodes') : inodes'[i] \in INode
      OBVIOUS
    <2>3. \A i \in Ids' : i # 0 => inodes'[i].stamp \in Nat
      BY <1>0, <2>a DEF Ids, INode
    <2>4. new.stamp \in [Slots -> Nat]
      BY <2>2, <2>3
    <2>5. new \in Disks'
      BY <2>2, <2>4 DEF Disks
    <2> HIDE DEF new
    <2>6. \A q \in Paths : q # p => disk'[q] = disk[q]
      BY <2>1 DEF FsOK
    <2>7. disk'[p] = new
      BY <2>1 DEF FsOK
    <2>8. disk' \in [Paths -> Disks']
      BY <1>1, <2>1, <2>5 DEF FsOK
    <2>9. disk'[p].slots = dir'[p]
      BY <2>7 DEF new
    <2> QED
      BY <2>6, <2>8, <2>9 DEF Local
  <1> QED
    BY <1>2, <1>3

\* The active entry is durable after a synchronisation.
LEMMA SyncSlots ==
    ASSUME FsOK, NEW p \in Paths, SyncDirectory(p)
    PROVE  disk'[p].slots = dir'[p]
  <1>1. p \in DOMAIN disk
    BY DEF FsOK
  <1> QED
    BY <1>1 DEF SyncDirectory, Synced

LEMMA SlotNames == "target" \in Slots /\ "stage" \in Slots /\ "remove" \in Slots
  BY DEF Slots

\* A new file under a name of p.
LEMMA CreateLocal ==
    ASSUME FsOK, NEW p \in Paths, NEW s \in Slots, NEW c \in Contents,
           inodes' = Append(inodes, [content |-> c, stamp |-> 0]),
           dir' = [dir EXCEPT ![p][s] = Len(inodes) + 1],
           disk' = disk \/ SyncDirectory(p)
    PROVE  /\ Local(p) /\ FsOK'
           /\ dir'[p] = [dir[p] EXCEPT ![s] = Len(inodes) + 1]
           /\ \A i \in 1..Len(inodes) : inodes'[i] = inodes[i]
           /\ inodes'[Len(inodes) + 1].content = c
           /\ Len(inodes') = Len(inodes) + 1
  <1>0. Len(inodes) \in Nat
    BY DEF FsOK
  <1>1. [content |-> c, stamp |-> 0] \in INode
    BY DEF INode
  <1>2. /\ inodes' \in Seq(INode) /\ Len(inodes') = Len(inodes) + 1
        /\ \A i \in 1..Len(inodes) : inodes'[i] = inodes[i]
        /\ inodes'[Len(inodes) + 1] = [content |-> c, stamp |-> 0]
    BY <1>1 DEF FsOK
  <1>3. /\ dir'[p] = [dir[p] EXCEPT ![s] = Len(inodes) + 1]
        /\ \A q \in Paths : q # p => dir'[q] = dir[q]
    BY DEF FsOK
  <1>4. dir' \in [Paths -> [Slots -> Ids']]
    <2>1. Ids \subseteq Ids' /\ Len(inodes) + 1 \in Ids'
      BY <1>0, <1>2 DEF Ids
    <2>2. dir[p] \in [Slots -> Ids']
      BY <2>1 DEF FsOK
    <2> QED
      BY <2>1, <2>2 DEF FsOK
  <1>5. dir[p] \in [Slots -> Ids]
    BY DEF FsOK
  <1>6. \A t \in Slots : t # s => dir'[p][t] = dir[p][t]
    BY <1>3, <1>5
  <1>7. dir'[p][s] = Len(inodes) + 1
    BY <1>3, <1>5
  <1>8. OneName(dir'[p])
    BY <1>0, <1>5, <1>6, <1>7 DEF OneName, FsOK, Ids
  <1>9. \A t \in Slots : dir'[p][t] # 0 =>
            Refers(p, dir'[p][t]) \/ dir'[p][t] > Len(inodes)
    BY <1>0, <1>6, <1>7 DEF Refers
  <1>10. \A q \in Paths, i \in Ids : Refers(q, i) => inodes'[i] = inodes[i]
    BY <1>0, <1>2 DEF Refers, Ids
  <1>11. Len(inodes') >= Len(inodes)
    BY <1>0, <1>2
  <1>12. Local(p)
    BY <1>2, <1>3, <1>4, <1>8, <1>9, <1>10, <1>11, LocalStep
  <1> QED
    BY <1>2, <1>3, <1>12, LocalFs

\* A write through a descriptor, whatever its name is now.
LEMMA WriteLocal ==
    ASSUME FsOK, NEW p \in Paths, NEW i \in Ids, i # 0, NEW c \in Contents,
           \A q \in Paths : Refers(q, i) => q = p,
           inodes' = Write(i, c), UNCHANGED dir,
           \/ disk' = disk \/ SyncDirectory(p)
           \/ /\ disk' \in [Paths -> Disks]
              /\ \A q \in Paths : disk'[q].slots = disk[q].slots
    PROVE  /\ Local(p) /\ FsOK' /\ Len(inodes') = Len(inodes)
           /\ \A j \in 1..Len(inodes) : j # i => inodes'[j] = inodes[j]
           /\ inodes'[i].content = c
           /\ inodes'[i].stamp = inodes[i].stamp + 1
  <1>0. Len(inodes) \in Nat /\ i \in 1..Len(inodes) /\ DOMAIN inodes = 1..Len(inodes)
    BY DEF FsOK, Ids
  <1>1. inodes[i] \in INode
    BY <1>0 DEF FsOK
  <1> DEFINE new == [content |-> c, stamp |-> inodes[i].stamp + 1]
  <1>2. new \in INode
    BY <1>1 DEF INode
  <1>3. inodes' = [inodes EXCEPT ![i] = new]
    BY DEF Write
  <1> HIDE DEF new
  <1>4. inodes' \in Seq(INode) /\ Len(inodes') = Len(inodes)
    BY <1>0, <1>2, <1>3, ExceptSeq DEF FsOK
  <1>5. /\ \A j \in 1..Len(inodes) : j # i => inodes'[j] = inodes[j]
        /\ inodes'[i] = new
    BY <1>0, <1>3
  <1>6. Ids' = Ids
    BY <1>4 DEF Ids
  <1>7. dir' \in [Paths -> [Slots -> Ids']] /\ OneName(dir'[p])
    BY <1>6 DEF FsOK
  <1>8. \A q \in Paths : q # p =>
           \A j \in Ids : Refers(q, j) => inodes'[j] = inodes[j]
    BY <1>0, <1>5 DEF Refers, Ids
  <1>9. \A t \in Slots : dir'[p][t] # 0 =>
            Refers(p, dir'[p][t]) \/ dir'[p][t] > Len(inodes)
    BY DEF Refers
  <1>10. Local(p)
    BY <1>0, <1>4, <1>7, <1>8, <1>9, LocalStep
  <1> QED
    BY <1>4, <1>5, <1>10, LocalFs DEF new

LEMMA SyncLocal ==
    ASSUME FsOK, NEW p \in Paths, UNCHANGED <<inodes, dir>>, SyncDirectory(p)
    PROVE  Local(p) /\ FsOK' /\ disk'[p].slots = dir[p]
  <1>1. Ids' = Ids /\ Len(inodes) \in Nat
    BY DEF Ids, FsOK
  <1>2. \A t \in Slots : dir'[p][t] # 0 => Refers(p, dir'[p][t])
    BY DEF Refers
  <1>3. Len(inodes') >= Len(inodes)
    BY <1>1
  <1>4. Local(p)
    BY <1>1, <1>2, <1>3, LocalStep DEF FsOK
  <1> QED
    BY <1>4, LocalFs, SyncSlots

\* Two names of p are exchanged, or one takes the place of the other.
LEMMA SwapLocal ==
    ASSUME FsOK, NEW p \in Paths, NEW a \in Slots, NEW b \in Slots, a # b,
           Swap(p, a, b), disk' = disk \/ SyncDirectory(p)
    PROVE  /\ Local(p) /\ FsOK' /\ Len(inodes') = Len(inodes)
           /\ dir'[p][a] = dir[p][b] /\ dir'[p][b] = dir[p][a]
           /\ \A s \in Slots : s # a /\ s # b => dir'[p][s] = dir[p][s]
           /\ \A i \in 1..Len(inodes) : inodes'[i].content = inodes[i].content
           /\ \A i \in 1..Len(inodes) : i \notin {dir[p][a], dir[p][b]} =>
                 inodes'[i] = inodes[i]
           /\ \A i \in 1..Len(inodes) : i \in {dir[p][a], dir[p][b]} =>
                 inodes'[i].stamp = inodes[i].stamp + 1
  <1>0. Len(inodes) \in Nat /\ DOMAIN inodes = 1..Len(inodes)
    BY DEF FsOK
  <1> DEFINE S == {dir[p][a], dir[p][b]}
  <1>1. inodes' = [i \in 1..Len(inodes) |->
            IF i \in S THEN [inodes[i] EXCEPT !.stamp = @ + 1] ELSE inodes[i]]
    BY <1>0 DEF Swap, Touch
  <1>2. \A i \in 1..Len(inodes) : inodes[i] \in INode
    BY DEF FsOK
  <1>3. \A i \in 1..Len(inodes) :
            /\ [inodes[i] EXCEPT !.stamp = @ + 1] \in INode
            /\ [inodes[i] EXCEPT !.stamp = @ + 1].content = inodes[i].content
            /\ [inodes[i] EXCEPT !.stamp = @ + 1].stamp = inodes[i].stamp + 1
    BY <1>2 DEF INode
  <1>4. inodes' \in [1..Len(inodes) -> INode]
    BY <1>1, <1>2, <1>3
  <1>5. inodes' \in Seq(INode) /\ Len(inodes') = Len(inodes)
    BY <1>0, <1>4
  <1>6. /\ \A i \in 1..Len(inodes) : inodes'[i].content = inodes[i].content
        /\ \A i \in 1..Len(inodes) : i \notin S => inodes'[i] = inodes[i]
        /\ \A i \in 1..Len(inodes) : i \in S =>
              inodes'[i].stamp = inodes[i].stamp + 1
    BY <1>1, <1>3
  <1>7. dir[p] \in [Slots -> Ids]
    BY DEF FsOK
  <1>8. dir' = [dir EXCEPT ![p] = [dir[p] EXCEPT ![a] = dir[p][b],
                                                 ![b] = dir[p][a]]]
    BY DEF Swap, FsOK
  <1>9. /\ dir'[p] = [dir[p] EXCEPT ![a] = dir[p][b], ![b] = dir[p][a]]
        /\ \A q \in Paths : q # p => dir'[q] = dir[q]
    BY <1>8 DEF FsOK
  <1>10. /\ dir'[p][a] = dir[p][b] /\ dir'[p][b] = dir[p][a]
         /\ \A s \in Slots : s # a /\ s # b => dir'[p][s] = dir[p][s]
    BY <1>7, <1>9
  <1>11. Ids' = Ids
    BY <1>5 DEF Ids
  <1>12. dir' \in [Paths -> [Slots -> Ids']]
    BY <1>7, <1>8, <1>11 DEF FsOK
  <1>13. OneName(dir'[p])
    BY <1>10 DEF OneName, FsOK
  <1>14. \A t \in Slots : dir'[p][t] # 0 => Refers(p, dir'[p][t])
    BY <1>10 DEF Refers
  <1>15. \A i \in S : i # 0 => Refers(p, i)
    BY DEF Refers
  <1>16. ASSUME NEW q \in Paths, q # p, NEW i \in Ids, Refers(q, i)
         PROVE  inodes'[i] = inodes[i]
    <2>1. i # 0
      BY <1>16 DEF Refers
    <2>2. i \notin S
      BY <1>15, <1>16, <2>1 DEF FsOK
    <2> QED
      BY <1>0, <1>6, <2>1, <2>2 DEF Ids
  <1>17. Len(inodes') >= Len(inodes)
    BY <1>0, <1>5
  <1> HIDE DEF S
  <1>18. Local(p)
    BY <1>5, <1>9, <1>12, <1>13, <1>14, <1>16, <1>17, LocalStep
  <1> QED
    BY <1>5, <1>6, <1>10, <1>18, LocalFs DEF S

\* A name of p is dropped.
LEMMA RemoveLocal ==
    ASSUME FsOK, NEW p \in Paths, NEW s \in Slots, UNCHANGED inodes,
           dir' = [dir EXCEPT ![p][s] = 0], disk' = disk \/ SyncDirectory(p)
    PROVE  /\ Local(p) /\ FsOK'
           /\ dir'[p][s] = 0
           /\ \A t \in Slots : t # s => dir'[p][t] = dir[p][t]
  <1>1. Ids' = Ids /\ Len(inodes) \in Nat /\ 0 \in Ids
    BY DEF Ids, FsOK
  <1>2. dir[p] \in [Slots -> Ids]
    BY DEF FsOK
  <1>3. /\ dir'[p] = [dir[p] EXCEPT ![s] = 0]
        /\ \A q \in Paths : q # p => dir'[q] = dir[q]
    BY DEF FsOK
  <1>4. dir'[p][s] = 0 /\ \A t \in Slots : t # s => dir'[p][t] = dir[p][t]
    BY <1>2, <1>3
  <1>5. dir' \in [Paths -> [Slots -> Ids']]
    BY <1>1, <1>2 DEF FsOK
  <1>6. OneName(dir'[p])
    BY <1>4 DEF OneName, FsOK
  <1>7. \A t \in Slots : dir'[p][t] # 0 => Refers(p, dir'[p][t])
    BY <1>4 DEF Refers
  <1>8. Len(inodes') >= Len(inodes)
    BY <1>1
  <1>9. Local(p)
    BY <1>3, <1>5, <1>6, <1>7, <1>8, LocalStep DEF FsOK
  <1> QED
    BY <1>4, <1>9, LocalFs

FreshNames ==
    /\ dir' = [p \in Paths |-> [dir[p] EXCEPT !.stage = 0, !.remove = 0]]
    /\ disk' = [p \in Paths |->
          [slots |-> [disk[p].slots EXCEPT !.stage = 0, !.remove = 0],
           stamp |-> [disk[p].stamp EXCEPT !.stage = 0, !.remove = 0]]]

\* A new edit: the names of older stages are out of the picture.
LEMMA BeginFs ==
    ASSUME FsOK, UNCHANGED inodes, FreshNames
    PROVE  /\ FsOK'
           /\ \A p \in Paths :
                 /\ dir'[p].target = dir[p].target
                 /\ disk'[p].slots["target"] = disk[p].slots["target"]
                 /\ dir'[p].stage = 0 /\ dir'[p].remove = 0
                 /\ disk'[p].slots["stage"] = 0 /\ disk'[p].slots["remove"] = 0
  <1>a. Len(inodes) \in Nat
    BY DEF FsOK
  <1>0. Ids' = Ids /\ 0 \in Ids
    BY <1>a DEF Ids
  <1>1. ASSUME NEW p \in Paths
        PROVE  /\ dir'[p] \in [Slots -> Ids] /\ disk'[p] \in Disks
               /\ \A s \in {"stage", "remove"} :
                     dir'[p][s] = 0 /\ disk'[p].slots[s] = 0
               /\ dir'[p]["target"] = dir[p]["target"]
               /\ disk'[p].slots["target"] = disk[p].slots["target"]
    <2>1. dir[p] \in [Slots -> Ids] /\ disk[p].slots \in [Slots -> Ids]
          /\ disk[p].stamp \in [Slots -> Nat]
      BY DEF FsOK, Disks
    <2>2. /\ dir'[p] = [dir[p] EXCEPT !.stage = 0, !.remove = 0]
          /\ disk'[p] = [slots |-> [disk[p].slots EXCEPT !.stage = 0, !.remove = 0],
                         stamp |-> [disk[p].stamp EXCEPT !.stage = 0, !.remove = 0]]
      BY DEF FreshNames
    <2>3. [disk[p].stamp EXCEPT !.stage = 0, !.remove = 0] \in [Slots -> Nat]
      BY <2>1
    <2>4. /\ [dir[p] EXCEPT !.stage = 0, !.remove = 0] \in [Slots -> Ids]
          /\ [disk[p].slots EXCEPT !.stage = 0, !.remove = 0] \in [Slots -> Ids]
      BY <1>0, <2>1
    <2>5. disk'[p] \in Disks
      BY <2>2, <2>3, <2>4 DEF Disks
    <2>6. /\ dir'[p].stage = 0 /\ dir'[p].remove = 0
          /\ dir'[p]["target"] = dir[p]["target"]
      BY <2>1, <2>2 DEF Slots
    <2> DEFINE new == [disk[p].slots EXCEPT !.stage = 0, !.remove = 0]
    <2>7. disk'[p].slots = new
      BY <2>2
    <2>8. new.stage = 0 /\ new.remove = 0 /\ new["target"] = disk[p].slots["target"]
      BY <2>1 DEF Slots
    <2> HIDE DEF new
    <2> QED
      BY <2>2, <2>4, <2>5, <2>6, <2>7, <2>8
  <1>2. /\ dir' \in [Paths -> [Slots -> Ids']]
        /\ disk' \in [Paths -> Disks']
    BY <1>0, <1>1 DEF Disks, FreshNames
  <1>b. \A s \in Slots : s = "target" \/ s \in {"stage", "remove"}
    BY DEF Slots
  <1>3. ASSUME NEW p \in Paths, NEW i, Refers(p, i)'
        PROVE  Refers(p, i)
    <2>1. PICK s \in Slots : dir'[p][s] = i \/ disk'[p].slots[s] = i
      BY <1>3 DEF Refers
    <2>2. i # 0
      BY <1>3 DEF Refers
    <2>3. s = "target"
      BY <1>1, <1>b, <2>1, <2>2
    <2> QED
      BY <1>1, <2>1, <2>2, <2>3 DEF Refers
  <1>4. ASSUME NEW p \in Paths
        PROVE  OneName(dir'[p]) /\ OneName(disk'[p].slots)
    BY <1>1, <1>b DEF OneName
  <1> QED
    BY <1>0, <1>1, <1>2, <1>3, <1>4 DEF FsOK

\* After a power failure every directory is synchronised, with the names it
\* had in memory or those it had on disk; contents stay.
LEMMA PowerFailureFs ==
    ASSUME FsOK, PowerFailure
    PROVE  /\ FsOK' /\ Len(inodes') = Len(inodes)
           /\ \A p \in Paths :
                 /\ dir'[p] \in {dir[p], disk[p].slots}
                 /\ disk'[p].slots = dir'[p]
           /\ \A i \in 1..Len(inodes) : inodes'[i].content = inodes[i].content
  <1>0. Len(inodes) \in Nat /\ DOMAIN inodes = 1..Len(inodes)
    BY DEF FsOK
  <1>1. PICK lost \in SUBSET Paths :
          /\ dir' = [p \in Paths |-> IF p \in lost THEN disk[p].slots ELSE dir[p]]
          /\ inodes' = [i \in DOMAIN inodes |->
                IF \E p \in lost, s \in Slots : disk[p].slots[s] = i
                THEN [inodes[i] EXCEPT !.stamp =
                        LET where == CHOOSE ps \in lost \X Slots :
                                        disk[ps[1]].slots[ps[2]] = i
                        IN disk[where[1]].stamp[where[2]]]
                ELSE inodes[i]]
          /\ disk' = [p \in Paths |-> Synced(p, dir', inodes')[p]]
    BY DEF PowerFailure
  <1>2. ASSUME NEW i \in 1..Len(inodes)
        PROVE  inodes'[i] \in INode /\ inodes'[i].content = inodes[i].content
    <2>1. inodes[i] \in INode
      BY DEF FsOK
    <2>2. CASE \E p \in lost, s \in Slots : disk[p].slots[s] = i
      <3> DEFINE where == CHOOSE ps \in lost \X Slots : disk[ps[1]].slots[ps[2]] = i
      <3>1. \E ps \in lost \X Slots : disk[ps[1]].slots[ps[2]] = i
        <4>1. PICK p \in lost, s \in Slots : disk[p].slots[s] = i
          BY <2>2
        <4>2. <<p, s>> \in lost \X Slots /\ <<p, s>>[1] = p /\ <<p, s>>[2] = s
          OBVIOUS
        <4> QED
          BY <4>1, <4>2
      <3>2. where \in lost \X Slots
        BY <3>1
      <3>3. where[1] \in Paths /\ where[2] \in Slots
        BY <3>2
      <3>4. inodes'[i] = [inodes[i] EXCEPT !.stamp = disk[where[1]].stamp[where[2]]]
        BY <1>0, <1>1, <2>2
      <3> HIDE DEF where
      <3>5. disk[where[1]].stamp[where[2]] \in Nat
        BY <3>3 DEF FsOK, Disks
      <3> QED
        BY <2>1, <3>4, <3>5 DEF INode
    <2>3. CASE ~\E p \in lost, s \in Slots : disk[p].slots[s] = i
      BY <1>0, <1>1, <2>1, <2>3
    <2> QED
      BY <2>2, <2>3
  <1> DEFINE stat(i) ==
           IF \E p \in lost, s \in Slots : disk[p].slots[s] = i
           THEN [inodes[i] EXCEPT !.stamp =
                   LET where == CHOOSE ps \in lost \X Slots :
                                   disk[ps[1]].slots[ps[2]] = i
                   IN disk[where[1]].stamp[where[2]]]
           ELSE inodes[i]
  <1>a. inodes' = [i \in 1..Len(inodes) |-> stat(i)]
    BY <1>0, <1>1, Zenon
  <1> HIDE DEF stat
  <1>3. inodes' \in [1..Len(inodes) -> INode]
    BY <1>2, <1>a
  <1>4. inodes' \in Seq(INode) /\ Len(inodes') = Len(inodes)
    BY <1>0, <1>3
  <1>5. Ids' = Ids /\ Disks' = Disks
    BY <1>4 DEF Ids, Disks
  <1>6. \A p \in Paths : dir'[p] \in {dir[p], disk[p].slots}
    BY <1>1
  <1>7. dir' \in [Paths -> [Slots -> Ids]]
    BY <1>1, <1>6 DEF FsOK, Disks
  <1>8. ASSUME NEW p \in Paths
        PROVE  disk'[p] \in Disks /\ disk'[p].slots = dir'[p]
    <2> DEFINE new == [slots |-> dir'[p],
                       stamp |-> [s \in Slots |-> IF dir'[p][s] = 0 THEN 0
                                                  ELSE inodes'[dir'[p][s]].stamp]]
    <2>1. disk'[p] = new
      BY <1>1 DEF Synced, FsOK
    <2>2. \A i \in Ids : i # 0 => inodes'[i].stamp \in Nat
      BY <1>0, <1>2 DEF Ids, INode
    <2>3. dir'[p] \in [Slots -> Ids]
      BY <1>7
    <2>4. new.stamp \in [Slots -> Nat]
      BY <2>2, <2>3
    <2> QED
      BY <2>1, <2>3, <2>4 DEF Disks
  <1> DEFINE synced(p) == Synced(p, dir', inodes')[p]
  <1>b. disk' = [p \in Paths |-> synced(p)]
    BY <1>1
  <1> HIDE DEF synced
  <1>9. disk' \in [Paths -> Disks]
    BY <1>8, <1>b
  <1>10. ASSUME NEW p \in Paths, NEW i, Refers(p, i)'
         PROVE  Refers(p, i)
    <2>1. i # 0 /\ \E s \in Slots : dir'[p][s] = i
      BY <1>8, <1>10 DEF Refers
    <2> QED
      BY <1>6, <2>1 DEF Refers
  <1>11. \A p \in Paths : OneName(dir'[p]) /\ OneName(disk'[p].slots)
    BY <1>6, <1>8 DEF FsOK
  <1>12. FsOK'
    BY <1>4, <1>5, <1>7, <1>9, <1>10, <1>11 DEF FsOK
  <1> QED
    BY <1>2, <1>4, <1>6, <1>8, <1>12

-----------------------------------------------------------------------------
(* What names show, and the shape of the program's variables.              *)

LEMMA EntryFacts ==
    ASSUME FsOK, NEW p \in Paths, NEW s \in Slots
    PROVE  /\ Entry(p, s) \in Entries
           /\ Exists(Entry(p, s)) <=> dir[p][s] # 0
           /\ Entry(p, s).ino = dir[p][s]
           /\ dir[p][s] # 0 => Entry(p, s).content = inodes[dir[p][s]].content
           /\ dir[p][s] # 0 => Entry(p, s).stamp = inodes[dir[p][s]].stamp
           /\ dir[p][s] = 0 => Entry(p, s) = Missing
  <1>1. dir[p][s] \in Ids /\ Len(inodes) \in Nat
    BY DEF FsOK
  <1>2. Missing \in Entries
    BY DEF Missing, Entries, Contents
  <1>3. CASE dir[p][s] = 0
    BY <1>2, <1>3 DEF Entry, Missing, Exists
  <1>4. CASE dir[p][s] # 0
    <2>1. inodes[dir[p][s]] \in INode
      BY <1>1, <1>4 DEF FsOK, Ids
    <2>2. dir[p][s] \in Nat
      BY <1>1 DEF Ids
    <2> QED
      BY <1>4, <2>1, <2>2 DEF Entry, Stat, Exists, INode, Entries
  <1> QED
    BY <1>3, <1>4

LEMMA EntryTypes ==
    /\ Missing \in Entries /\ \A e \in Entries : Identity(e) \in Entries
    /\ \A e, c : SameContent(e, c) => e.ino # 0 /\ c.ino # 0
    /\ \A e, c : SamePlacement(e, c) => e.ino # 0 /\ c.ino # 0
    /\ NoEntries \in [Paths -> Entries] /\ NoSelection \in [Paths -> Entries]
  <1>1. Missing \in Entries
    BY DEF Missing, Entries, Contents
  <1>2. \A e \in Entries : Identity(e) \in Entries
    BY DEF Identity, Entries, Contents
  <1> QED
    BY <1>1, <1>2 DEF SameContent, SamePlacement, Exists, NoEntries, NoSelection

LEMMA JournalType ==
    /\ NoFile \in FileRecords
    /\ NoJournal \in [phase : Phases, files : [Files -> FileRecords]]
    /\ NoJournal.phase = "none"
  <1>1. NoFile \in FileRecords
    BY EntryTypes DEF NoFile, FileRecords
  <1> QED
    BY <1>1 DEF NoJournal, Phases

LEMMA PendingPhase ==
    ASSUME PlaceOK
    PROVE  Pending <=> journal.phase # "none"
  BY JournalType DEF PlaceOK, Pending

LEMMA CurrentType == ASSUME FsOK  PROVE Current \in [Paths -> Entries]
  BY EntryFacts, SlotNames DEF Current

LEMMA RemovalType ==
    ASSUME FsOK'
    PROVE  /\ NoRemoval \in Removals' /\ NoRemoval.fd = 0
           /\ NoRemoval.caller = "commit" /\ ~NoRemoval.failed
           /\ [NoRemoval EXCEPT !.caller = "abort"] \in Removals'
           /\ [NoRemoval EXCEPT !.caller = "recover"] \in Removals'
  <1>1. 0 \in Ids'
    BY DEF Ids, FsOK
  <1> QED
    BY <1>1 DEF NoRemoval, Removals

LEMMA FirstFile == 1 \in Files /\ NumEdits \in Files /\ Files \subseteq 1..NumEdits
  BY PathsAssumption DEF Files

-----------------------------------------------------------------------------
(* The ends of a call, and its ways on.                                    *)

\* The call ends and the journal stays.
LEMMA ReturnStep ==
    ASSUME Inv, FsOK', Return, UNCHANGED <<db, edits, saved, used>>, Pending,
           \A p \in Paths : p \notin Files =>
              disk'[p].slots["target"] = dir'[p].target
    PROVE  Inv'
  <1> USE DEF db, history
  <1>1. journal.phase # "none" /\ Pending'
    BY PendingPhase DEF Inv, Pending
  <1>2. pc' = "idle" /\ at' = 1 /\ rm' = NoRemoval
    BY DEF Return
  <1>3. rm' \in Removals' /\ rm'.caller = "commit"
    BY <1>2, RemovalType
  <1>4. MemoryOK'
    BY <1>2, <1>3, EntryTypes, FirstFile DEF Inv, MemoryOK, Return, Places
  <1>5. PlaceOK'
    BY <1>1, <1>2, <1>3 DEF PlaceOK
  <1>6. DescriptorOK' /\ PlacementOK'
    BY <1>2 DEF DescriptorOK, PlacementOK, Opened, Placed, Committing, Cleaning
  <1>7. SynchronisedOK'
    BY <1>1, <1>2 DEF SynchronisedOK, Synchronised
  <1>8. StagesOK'
    BY <1>1, <1>2 DEF StagesOK, Tidied, Abortable, Unmoved, Vacated, Last, Before,
       Activating, Exchanged, Placed, Cleaning, Opened, Committing
  <1> QED
    BY <1>4, <1>5, <1>6, <1>7, <1>8 DEF Inv

\* The call ends without a journal: nothing is staged any more.
LEMMA ClearStep ==
    ASSUME Inv, FsOK', Return, journal' = NoJournal, UNCHANGED edits,
           selection' \in [Paths -> Entries],
           saved' \subseteq used', used' \subseteq Works,
           \A p \in Paths : disk'[p].slots["target"] = dir'[p].target,
           \A f \in Files : Tidy(f)'
    PROVE  Inv'
  <1>1. ~Pending'
    BY DEF Pending
  <1>2. pc' = "idle" /\ at' = 1 /\ rm' = NoRemoval
    BY DEF Return
  <1>3. rm' \in Removals' /\ rm'.caller = "commit"
    BY <1>2, RemovalType
  <1>4. MemoryOK'
    BY <1>2, <1>3, EntryTypes, FirstFile, JournalType
       DEF Inv, MemoryOK, Return, Places
  <1>5. PlaceOK'
    BY <1>1, <1>2, <1>3 DEF PlaceOK
  <1>6. DescriptorOK' /\ PlacementOK'
    BY <1>2 DEF DescriptorOK, PlacementOK, Opened, Placed, Committing, Cleaning
  <1>7. SynchronisedOK'
    BY DEF SynchronisedOK
  <1>8. StagesOK'
    BY <1>1, <1>2 DEF StagesOK, Tidied, Abortable, Unmoved, Vacated, Last, Before,
       Activating, Exchanged, Placed, Cleaning, Opened, Committing
  <1> QED
    BY <1>4, <1>5, <1>6, <1>7, <1>8 DEF Inv

\* discardPrepared begins, nothing is replaced.
LEMMA DiscardStep ==
    ASSUME Inv, FsOK', Discard, UNCHANGED <<db, edits, saved, used>>, Pending,
           cand' \in [Paths -> Entries], unsure' \subseteq Files,
           \A p \in Paths : disk'[p].slots["target"] = dir'[p].target,
           \A f \in Files : dir'[f].stage = 0 /\ dir'[f].remove = 0 => Tidy(f)'
    PROVE  Inv'
  <1> USE DEF db
  <1>1. journal.phase # "none" /\ Pending'
    BY PendingPhase DEF Inv, Pending
  <1>2. /\ pc' = "abort" /\ at' = 1 /\ rm' = [NoRemoval EXCEPT !.caller = "abort"]
        /\ UNCHANGED <<orig, seen, choice>>
    BY DEF Discard, Goto
  <1>3. rm' \in Removals' /\ rm'.caller = "abort"
    BY <1>2, RemovalType DEF NoRemoval
  <1>4. MemoryOK'
    BY <1>2, <1>3, FirstFile DEF Inv, MemoryOK, Places
  <1>5. PlaceOK'
    BY <1>1, <1>2, <1>3 DEF PlaceOK
  <1>6. DescriptorOK' /\ PlacementOK'
    BY <1>2 DEF DescriptorOK, PlacementOK, Opened, Placed, Committing, Cleaning
  <1>7. SynchronisedOK'
    BY DEF SynchronisedOK
  <1>8. 1..(1 - 1) = {} /\ 1..NumEdits = Files
    BY PathsAssumption DEF Files
  <1>9. StagesOK'
    BY <1>1, <1>2, <1>3, <1>8 DEF StagesOK, Tidied, Abortable, Unmoved, Vacated,
       Last, Before, Activating, Exchanged, Placed, Cleaning, Opened, Committing
  <1> QED
    BY <1>4, <1>5, <1>6, <1>7, <1>9 DEF Inv

LEMMA AbortStep ==
    ASSUME Inv, FsOK', Abort, Pending,
           cand' \in [Paths -> Entries], unsure' \subseteq Files,
           \A p \in Paths : disk'[p].slots["target"] = dir'[p].target,
           \A f \in Files : dir'[f].stage = 0 /\ dir'[f].remove = 0 => Tidy(f)'
    PROVE  Inv'
  BY DiscardStep DEF Abort, history

LEMMA StillLocal == ASSUME FsOK, NEW p \in Paths, UNCHANGED fs  PROVE Local(p)
  <1>1. dir' = dir /\ disk' = disk /\ inodes' = inodes /\ Ids' = Ids
        /\ Len(inodes') >= Len(inodes)
    BY DEF fs, Ids, FsOK
  <1>2. \A t \in Slots : dir'[p][t] # 0 => Refers(p, dir'[p][t])
    BY <1>1 DEF Refers
  <1> QED
    BY <1>1, <1>2, LocalStep DEF FsOK

\* A descriptor stays one when files are created.
LEMMA RemovalGrows ==
    ASSUME FsOK, NEW p \in Paths, Local(p)
    PROVE  Removals \subseteq Removals'
  <1>1. Ids \subseteq Ids'
    BY DEF FsOK, Local, Ids
  <1> QED
    BY <1>1 DEF Removals

\* Cleanup of a stage ends in an error.
LEMMA CleanupFailsStep ==
    ASSUME Inv, pc \in Cleaning, CleanupFails, Local(at),
           dir'[at].target = dir[at].target,
           disk'[at].slots["target"] = disk[at].slots["target"]
    PROVE  Inv'
  <1>0. at \in Files /\ at \in Paths /\ FsOK /\ rm \in Removals
    BY FileType DEF Inv, MemoryOK
  <1>1. FsOK'
    BY <1>0, LocalFs
  <1>2. Pending
    BY PendingPhase DEF Inv, PlaceOK, Cleaning, Opened
  <1>3. \A q \in Paths : q # at =>
           /\ dir'[q] = dir[q] /\ disk'[q].slots = disk[q].slots
           /\ Tidy(q)' <=> Tidy(q)
    BY <1>0, Elsewhere
  <1>4. CASE rm.caller # "abort"
    <2>1. Return /\ UNCHANGED <<db, edits, saved, used>>
      BY <1>4 DEF CleanupFails, history
    <2>2. \A p \in Paths : p \notin Files =>
              disk'[p].slots["target"] = dir'[p].target
      BY <1>0, <1>3 DEF Inv, SynchronisedOK
    <2> QED
      BY <1>1, <1>2, <2>1, <2>2, ReturnStep
  <1>5. CASE rm.caller = "abort"
    <2> USE DEF db, history
    <2>1. /\ IF at = NumEdits THEN Goto("clear", 1) ELSE Goto("abort", at + 1)
          /\ rm' = [rm EXCEPT !.failed = TRUE, !.fd = 0]
          /\ UNCHANGED <<db, orig, cand, unsure, activated, seen, choice, edits,
                         history>>
      BY <1>5 DEF CleanupFails
    <2>2. pc' \in {"clear", "abort"}
      BY <2>1 DEF Goto
    <2>3. at' \in Files /\ (pc' = "abort" => at' = at + 1)
      BY <1>0, <2>1, FirstFile, PathsAssumption DEF Goto, Files
    <2>4. 0 \in Ids'
      BY <1>1 DEF FsOK, Ids
    <2>5. rm \in Removals'
      BY <1>0, RemovalGrows
    <2>6. rm' \in Removals' /\ rm'.caller = "abort" /\ rm'.failed
      BY <1>5, <2>1, <2>4, <2>5 DEF Removals
    <2>7. MemoryOK'
      BY <2>1, <2>2, <2>3, <2>6 DEF Inv, MemoryOK, Places
    <2>8. PlaceOK'
      BY <1>2, <2>1, <2>2, <2>6, PendingPhase DEF Inv, PlaceOK
    <2>9. DescriptorOK' /\ PlacementOK'
      BY <2>2 DEF DescriptorOK, PlacementOK, Opened, Placed, Committing, Cleaning
    <2>10. Synchronised = Files
      BY <1>5 DEF Synchronised, Cleaning, Opened, Exchanged, Asking
    <2>11. SynchronisedOK'
      BY <1>0, <1>3, <2>10 DEF Inv, SynchronisedOK
    <2>12. Pending'
      BY <1>2, <2>1 DEF Pending
    <2>13. Tidied' = {} /\ Unmoved' = {} /\ ~Vacated'
      BY <2>2, <2>6, <2>12 DEF Tidied, Unmoved, Vacated, Last, Activating,
         Exchanged, Placed, Before, Committing, Cleaning, Opened
    <2>14. \A f \in Files : f \in Abortable' => f # at /\ f \in Abortable
      <3>1. Abortable \in {at..NumEdits, (at + 1)..NumEdits}
        BY <1>5 DEF Abortable, Before, Exchanged, Cleaning, Opened
      <3>2. Abortable' \subseteq (at + 1)..NumEdits
        BY <2>2, <2>3 DEF Abortable, Before, Exchanged, Opened
      <3> QED
        BY <1>0, <3>1, <3>2, PathsAssumption DEF Files
    <2>15. StagesOK'
      BY <1>3, <2>2, <2>13, <2>14, FileType DEF Inv, StagesOK
    <2> QED
      BY <1>1, <2>7, <2>8, <2>9, <2>11, <2>15 DEF Inv
  <1> QED
    BY <1>4, <1>5

\* The stage of the current file is gone, the caller goes on.
LEMMA CleanedStep ==
    ASSUME Inv, pc \in Cleaning, Cleaned, Local(at),
           disk'[at].slots["target"] = dir'[at].target,
           NEW g \in Files, g = at, Tidy(g)'
    PROVE  Inv'
  <1> USE DEF db, history
  <1>0. at \in Files /\ at \in Paths /\ FsOK /\ rm \in Removals
    BY FileType DEF Inv, MemoryOK
  <1>1. FsOK'
    BY <1>0, LocalFs
  <1>2. Pending /\ journal.phase # "none"
    BY PendingPhase DEF Inv, PlaceOK, Cleaning, Opened
  <1>3. \A q \in Paths : q # at =>
           /\ dir'[q] = dir[q] /\ disk'[q].slots = disk[q].slots
           /\ Tidy(q)' <=> Tidy(q)
    BY <1>0, Elsewhere
  <1>4. UNCHANGED <<db, orig, cand, unsure, seen, choice, edits, history>>
    BY DEF Cleaned
  <1>5. Pending'
    BY <1>2, <1>4 DEF Pending
  <1>6. NoRemoval \in Removals' /\ rm \in Removals'
    BY <1>0, <1>1, RemovalType, RemovalGrows
  <1>7. at \in Nat /\ NumEdits \in Nat /\ Files = 1..NumEdits
    BY <1>0, PathsAssumption DEF Files
  <1> DEFINE Goal ==
         /\ pc' \in {"rename", "finalizing", "abort", "clear", "clean",
                     "recheck_discard", "recheck_final"}
         /\ at' \in Files /\ rm' \in Removals'
         /\ PlaceOK' /\ ~Committing'
         /\ Synchronised' \subseteq Synchronised \cup {at}
         /\ \A f \in Files : f \in Tidied' => f = at \/ f \in Tidied
         /\ \A f \in Files : f \in Abortable' => f # at /\ f \in Abortable
         /\ \A f \in Files : f \in Unmoved' => f # at /\ f \in Unmoved
  <1>8. ASSUME rm.caller = "commit"  PROVE Goal
    <2>1. /\ IF at = NumEdits THEN Goto("finalizing", 1) ELSE Goto("rename", at + 1)
          /\ rm' = NoRemoval
      BY <1>8 DEF Cleaned, Advance
    <2>2. /\ pc' \in {"rename", "finalizing"} /\ at' \in Files
          /\ pc' = "rename" => at' = at + 1
          /\ pc' = "finalizing" => at = NumEdits
      BY <1>0, <1>7, <2>1, FirstFile DEF Goto
    <2>3. rm' \in Removals' /\ rm'.caller = "commit"
      BY <1>6, <2>1 DEF NoRemoval
    <2>4. PlaceOK' /\ ~Committing'
      BY <1>2, <1>4, <2>2, <2>3 DEF PlaceOK, Committing, Cleaning, Opened
    <2>5. Synchronised = Files /\ Synchronised' = Files
      BY <1>8, <2>2 DEF Synchronised, Cleaning, Opened, Exchanged, Asking
    <2>6. Tidied \in {1..(at - 1), Files}
      BY <1>8 DEF Tidied, Last, Activating, Exchanged, Placed, Cleaning, Opened
    <2>7. pc' = "rename" => Tidied' = 1..(at' - 1)
      BY <1>5, <2>2 DEF Tidied, Last, Activating, Exchanged, Placed
    <2>8. \A f \in Files : f \in Tidied' => f = at \/ f \in Tidied
      BY <1>7, <2>2, <2>6, <2>7
    <2>a. at' = at + 1 => at' # 1
      BY <1>0, <1>7
    <2>9. Abortable' = {}
      BY <2>2, <2>a DEF Abortable, Before, Exchanged, Opened
    <2>10. Unmoved = (at + 1)..NumEdits
      BY <1>8 DEF Unmoved, Before, Activating, Exchanged, Placed, Cleaning, Opened,
         Committing
    <2>11. Unmoved' \subseteq (at + 1)..NumEdits
      BY <2>2, <2>4 DEF Unmoved, Before, Activating, Exchanged, Placed
    <2>12. \A f \in Files : f \in Unmoved' => f # at /\ f \in Unmoved
      BY <1>7, <2>10, <2>11
    <2> QED
      BY <2>2, <2>3, <2>4, <2>5, <2>8, <2>9, <2>12
  <1>9. ASSUME rm.caller = "abort"  PROVE Goal
    <2>1. /\ IF at = NumEdits THEN Goto("clear", 1) ELSE Goto("abort", at + 1)
          /\ UNCHANGED rm
      BY <1>9 DEF Cleaned
    <2>2. /\ pc' \in {"clear", "abort"} /\ at' \in Files
          /\ pc' = "abort" => at' = at + 1
          /\ pc' = "clear" => at = NumEdits
      BY <1>0, <1>7, <2>1, FirstFile DEF Goto
    <2>3. rm' \in Removals' /\ rm' = rm
      BY <1>6, <2>1
    <2>4. PlaceOK' /\ ~Committing'
      BY <1>2, <1>4, <1>9, <2>2, <2>3 DEF PlaceOK, Committing, Cleaning, Opened
    <2>5. Synchronised = Files /\ Synchronised' = Files
      BY <1>9, <2>2, <2>3 DEF Synchronised, Cleaning, Opened, Exchanged, Asking
    <2>a. Abortable \in {at..NumEdits, (at + 1)..NumEdits}
      BY <1>9 DEF Abortable, Before, Exchanged, Cleaning, Opened
    <2>b. Abortable' \subseteq (at + 1)..NumEdits
      BY <2>2 DEF Abortable, Before, Exchanged, Opened
    <2>c. \A f \in Files : f \in Abortable' => f # at /\ f \in Abortable
      BY <1>7, <2>a, <2>b
    <2>d. Unmoved' = {}
      BY <2>2, <2>4 DEF Unmoved, Before, Activating, Exchanged, Placed
    <2>6. CASE rm.failed
      <3>1. Tidied' = {}
        BY <1>5, <1>9, <2>2, <2>3, <2>6 DEF Tidied, Last, Activating, Exchanged,
           Placed, Cleaning, Opened
      <3> QED
        BY <2>2, <2>3, <2>4, <2>5, <2>c, <2>d, <3>1
    <2>7. CASE ~rm.failed
      <3>1. Tidied \in {1..(at - 1), Files}
        BY <1>9, <2>7 DEF Tidied, Last, Activating, Exchanged, Placed, Cleaning, Opened
      <3>2. pc' = "abort" => Tidied' = 1..(at' - 1)
        BY <1>5, <1>9, <2>2, <2>3, <2>7 DEF Tidied, Last, Activating, Exchanged,
           Placed, Cleaning, Opened
      <3>3. \A f \in Files : f \in Tidied' => f = at \/ f \in Tidied
        BY <1>7, <2>2, <3>1, <3>2
      <3> QED
        BY <2>2, <2>3, <2>4, <2>5, <2>c, <2>d, <3>3
    <2> QED
      BY <2>6, <2>7
  <1>10. ASSUME rm.caller = "recover"  PROVE Goal
    <2>1. /\ IF at = NumEdits
             THEN Goto(IF choice = "discard_unapplied" THEN "recheck_discard"
                       ELSE "recheck_final", 1)
             ELSE Goto("clean", at + 1)
          /\ UNCHANGED rm
      BY <1>10 DEF Cleaned
    <2>2. /\ pc' \in {"recheck_discard", "recheck_final", "clean"} /\ at' \in Files
          /\ pc' = "clean" => at' = at + 1
          /\ pc' # "clean" => at = NumEdits
      BY <1>0, <1>7, <2>1, FirstFile DEF Goto
    <2>3. rm' \in Removals' /\ rm' = rm
      BY <1>6, <2>1
    <2>4. PlaceOK' /\ ~Committing'
      BY <1>2, <1>4, <1>10, <2>2, <2>3 DEF PlaceOK, Committing, Cleaning, Opened
    <2>5. Synchronised = 1..(at - 1)
      BY <1>10 DEF Synchronised, Cleaning, Opened, Asking
    <2>6. pc' = "clean" => Synchronised' = 1..(at' - 1)
      BY <1>10, <2>2, <2>3 DEF Synchronised, Cleaning, Opened, Asking
    <2>7. pc' # "clean" => Synchronised' = Files
      BY <2>2 DEF Synchronised, Cleaning, Opened, Asking, Exchanged
    <2>8. Synchronised' \subseteq Synchronised \cup {at}
      BY <1>7, <2>2, <2>5, <2>6, <2>7
    <2>9. Tidied \in {1..(at - 1), Files}
      BY <1>10 DEF Tidied, Last, Activating, Exchanged, Placed, Cleaning, Opened
    <2>10. pc' = "clean" => Tidied' = 1..(at' - 1)
      BY <1>5, <1>10, <2>2, <2>3 DEF Tidied, Last, Activating, Exchanged,
         Placed, Cleaning, Opened
    <2>11. \A f \in Files : f \in Tidied' => f = at \/ f \in Tidied
      BY <1>7, <2>2, <2>9, <2>10
    <2>12. Abortable' = {} /\ Unmoved' = {}
      BY <1>10, <2>2, <2>3, <2>4 DEF Abortable, Before, Exchanged, Opened, Unmoved,
         Activating, Placed
    <2> QED
      BY <2>2, <2>3, <2>4, <2>8, <2>11, <2>12
  <1>11. Goal
    BY <1>0, <1>8, <1>9, <1>10 DEF Removals
  <1> HIDE DEF Goal
  <1>12. pc' \in {"rename", "finalizing", "abort", "clear", "clean",
                  "recheck_discard", "recheck_final"}
    BY <1>11 DEF Goal
  <1>13. MemoryOK'
    BY <1>4, <1>11, <1>12 DEF Goal, Inv, MemoryOK, Places, Activating, Cleaning, Last
  <1>14. DescriptorOK' /\ PlacementOK'
    BY <1>11, <1>12 DEF Goal, DescriptorOK, PlacementOK, Opened, Placed
  <1>15. SynchronisedOK'
    BY <1>0, <1>3, <1>11 DEF Goal, Inv, SynchronisedOK
  <1>16. ~Vacated'
    BY <1>12 DEF Vacated
  <1>17. StagesOK'
    <2>0. \A f \in Files : f \in Tidied => Tidy(f)
      BY DEF Inv, StagesOK
    <2>a. \A f \in Files : f \in Tidied' => f = at \/ f \in Tidied
      BY <1>11 DEF Goal
    <2>1. \A f \in Files : f \in Tidied' => Tidy(f)'
      <3> SUFFICES ASSUME NEW f \in Files, f \in Tidied'
                   PROVE  Tidy(f)'
        OBVIOUS
      <3>1. CASE f = at
        BY <3>1
      <3>2. CASE f # at
        BY <1>3, <2>0, <2>a, <3>2, FileType
      <3> QED
        BY <3>1, <3>2
    <2>2. \A f \in Files :
            f \in Abortable' /\ dir'[f].stage = 0 /\ dir'[f].remove = 0 => Tidy(f)'
      BY <1>3, <1>11, FileType DEF Goal, Inv, StagesOK
    <2>3. \A f \in Files : f \in Unmoved' => dir'[f].remove = 0
      BY <1>3, <1>11, FileType DEF Goal, Inv, StagesOK
    <2> QED
      BY <1>12, <1>16, <2>1, <2>2, <2>3 DEF StagesOK
  <1> QED
    BY <1>1, <1>11, <1>13, <1>14, <1>15, <1>17 DEF Goal, Inv

LEMMA RefuseStep == ASSUME Inv, Refuse, Pending  PROVE Inv'
  <1>1. UNCHANGED fs /\ Return /\ UNCHANGED <<db, edits, saved, used>>
    BY DEF Refuse, history
  <1>2. FsOK' /\ dir' = dir /\ disk' = disk
    BY <1>1, Nowhere DEF Inv
  <1>3. \A p \in Paths : p \notin Files => disk'[p].slots["target"] = dir'[p].target
    BY <1>2 DEF Inv, SynchronisedOK
  <1> QED
    BY <1>1, <1>2, <1>3, ReturnStep

\* An abort before the first rename.
LEMMA QuietAbort ==
    ASSUME Inv, Abort, UNCHANGED <<fs, cand, unsure>>,
           pc \in Before \/ (pc = "rename" /\ at = 1)
    PROVE  Inv'
  <1>1. FsOK' /\ dir' = dir /\ disk' = disk /\ \A q : Tidy(q)' <=> Tidy(q)
    BY Nowhere DEF Inv
  <1>2. Pending
    BY PendingPhase DEF Inv, PlaceOK, Before
  <1>3. Synchronised = Files /\ Abortable = Files
    BY DEF Synchronised, Abortable, Before, Exchanged, Asking, Cleaning, Opened
  <1>4. \A p \in Paths : disk'[p].slots["target"] = dir'[p].target
    BY <1>1, <1>3 DEF Inv, SynchronisedOK
  <1>5. \A f \in Files : dir'[f].stage = 0 /\ dir'[f].remove = 0 => Tidy(f)'
    BY <1>1, <1>3 DEF Inv, StagesOK
  <1>6. cand' \in [Paths -> Entries] /\ unsure' \subseteq Files
    BY DEF Inv, MemoryOK
  <1> QED
    BY <1>1, <1>2, <1>4, <1>5, <1>6, AbortStep

\* A step that only moves on, for a file, with the file system as it is.
LEMMA QuietStep ==
    ASSUME Inv, UNCHANGED fs, MemoryOK', PlaceOK', DescriptorOK', PlacementOK',
           \A f \in Files : f \in Synchronised' => f \in Synchronised,
           \A f \in Files : f \in Tidied' => f \in Tidied,
           \A f \in Files : f \in Abortable' => f \in Abortable,
           \A f \in Files : f \in Unmoved' => f \in Unmoved,
           Vacated' => dir[at'].stage = 0 \/ (Vacated /\ at' = at),
           pc' \in {"confirm", "apply"} /\ ~Existed(at)' =>
              pc \in {"confirm", "apply"} /\ ~Existed(at) /\ at' = at,
           pc' \in {"rollback", "exchange_back"} => Existed(at)'
    PROVE  Inv'
  <1>1. /\ FsOK' /\ dir' = dir /\ disk' = disk /\ inodes' = inodes
        /\ \A q : Tidy(q)' <=> Tidy(q)
    BY Nowhere DEF Inv
  <1>2. SynchronisedOK'
    BY <1>1 DEF Inv, SynchronisedOK
  <1>3. \A f \in Files : f \in Tidied' => Tidy(f)'
    BY <1>1 DEF Inv, StagesOK
  <1>4. \A f \in Files :
           f \in Abortable' /\ dir'[f].stage = 0 /\ dir'[f].remove = 0 => Tidy(f)'
    BY <1>1 DEF Inv, StagesOK
  <1>5. \A f \in Files : f \in Unmoved' => dir'[f].remove = 0
    BY <1>1 DEF Inv, StagesOK
  <1>6. Vacated' => TidyEntry(dir[at].stage)'
    BY <1>1 DEF Inv, StagesOK, TidyEntry
  <1>7. pc' \in {"confirm", "apply"} /\ ~Existed(at)' => Tidy(at)'
    BY <1>1 DEF Inv, StagesOK, Tidy, TidyEntry
  <1> QED
    BY <1>1, <1>2, <1>3, <1>4, <1>5, <1>6, <1>7 DEF Inv, StagesOK

-----------------------------------------------------------------------------
(* Commit up to the first rename.                                          *)

LEMMA RecheckStagedStep == ASSUME Inv, RecheckStaged  PROVE Inv'
  <1> USE DEF db, mem, history
  <1>1. pc = "recheck" /\ Pending /\ journal.phase # "none"
    BY PendingPhase DEF RecheckStaged, Inv, PlaceOK
  <1>2. CASE Abort /\ UNCHANGED <<fs, cand, unsure>>
    BY <1>1, <1>2, QuietAbort DEF Before
  <1>3. CASE /\ journal' = [journal EXCEPT !.phase = "prepared"]
             /\ Goto("replacing", 1)
             /\ UNCHANGED <<fs, selection, mem, edits, faults, history>>
    <2>1. pc' = "replacing" /\ at' = 1
      BY <1>3 DEF Goto
    <2>2. journal' \in [phase : Phases, files : [Files -> FileRecords]]
          /\ journal'.phase = "prepared" /\ journal'.files = journal.files
      BY <1>3 DEF Inv, MemoryOK, Phases
    <2>3. Ids' = Ids
      BY <1>3, Nowhere DEF Inv
    <2>4. MemoryOK'
      BY <1>3, <2>1, <2>2, <2>3, FirstFile
         DEF Inv, MemoryOK, Places, Before, Removals
    <2>5. PlaceOK'
      BY <1>1, <1>3, <2>1, <2>2 DEF Inv, PlaceOK, Cleaning, Opened
    <2>6. DescriptorOK' /\ PlacementOK'
      BY <2>1 DEF DescriptorOK, PlacementOK, Opened, Placed, Committing, Cleaning
    <2>7. Pending'
      BY <2>2, JournalType DEF Pending
    <2> QED
      BY <1>1, <1>3, <2>1, <2>4, <2>5, <2>6, <2>7, QuietStep DEF Synchronised, Tidied,
         Abortable, Unmoved, Vacated, Before, Activating, Exchanged, Placed, Cleaning,
         Opened, Asking, Last, Committing
  <1> QED
    BY <1>2, <1>3 DEF RecheckStaged

LEMMA EnterReplacingStep == ASSUME Inv, EnterReplacing  PROVE Inv'
  <1> USE DEF db, mem, history
  <1>1. pc = "replacing" /\ Pending /\ journal.phase # "none"
    BY PendingPhase DEF EnterReplacing, Inv, PlaceOK
  <1>2. CASE Abort /\ UNCHANGED <<fs, cand, unsure>>
    BY <1>1, <1>2, QuietAbort DEF Before
  <1>3. CASE /\ journal' = [journal EXCEPT !.phase = "replacing"]
             /\ Goto("authorize", 1)
             /\ UNCHANGED <<fs, selection, mem, edits, faults, history>>
    <2>1. pc' = "authorize" /\ at' = 1
      BY <1>3 DEF Goto
    <2>2. journal' \in [phase : Phases, files : [Files -> FileRecords]]
          /\ journal'.phase = "replacing"
      BY <1>3 DEF Inv, MemoryOK, Phases
    <2>3. Ids' = Ids
      BY <1>3, Nowhere DEF Inv
    <2>4. MemoryOK'
      BY <1>3, <2>1, <2>2, <2>3, FirstFile
         DEF Inv, MemoryOK, Places, Before, Removals
    <2>5. PlaceOK'
      BY <1>1, <1>3, <2>1, <2>2 DEF Inv, PlaceOK, Cleaning, Opened
    <2>6. DescriptorOK' /\ PlacementOK'
      BY <2>1 DEF DescriptorOK, PlacementOK, Opened, Placed, Committing, Cleaning
    <2>7. Pending'
      BY <2>2, JournalType DEF Pending
    <2> QED
      BY <1>1, <1>3, <2>1, <2>4, <2>5, <2>6, <2>7, QuietStep DEF Synchronised, Tidied,
         Abortable, Unmoved, Vacated, Before, Activating, Exchanged, Placed, Cleaning,
         Opened, Asking, Last, Committing
  <1> QED
    BY <1>2, <1>3 DEF EnterReplacing

LEMMA AuthorizeStep == ASSUME Inv, Authorize  PROVE Inv'
  <1> USE DEF db, mem, history
  <1>1. pc = "authorize" /\ Pending /\ journal.phase # "none"
    BY PendingPhase DEF Authorize, Inv, PlaceOK
  <1>2. CASE Abort /\ UNCHANGED <<fs, cand, unsure>>
    BY <1>1, <1>2, QuietAbort DEF Before
  <1>3. CASE /\ Goto("rename", 1)
             /\ UNCHANGED <<fs, db, mem, edits, faults, history>>
    <2>1. pc' = "rename" /\ at' = 1
      BY <1>3 DEF Goto
    <2>3. Ids' = Ids
      BY <1>3, Nowhere DEF Inv
    <2>4. MemoryOK'
      BY <1>3, <2>1, <2>3, FirstFile DEF Inv, MemoryOK, Places, Activating, Removals
    <2>5. PlaceOK'
      BY <1>1, <1>3, <2>1 DEF Inv, PlaceOK, Cleaning, Opened
    <2>6. DescriptorOK' /\ PlacementOK'
      BY <2>1 DEF DescriptorOK, PlacementOK, Opened, Placed, Committing, Cleaning
    <2>7. Pending'
      BY <1>1, <1>3 DEF Pending
    <2>8. 1..(1 - 1) = {} /\ 1..NumEdits = Files
      BY PathsAssumption DEF Files
    <2> QED
      BY <1>1, <1>3, <2>1, <2>4, <2>5, <2>6, <2>7, <2>8, QuietStep DEF Synchronised,
         Tidied, Abortable, Unmoved, Vacated, Before, Activating, Exchanged, Placed,
         Cleaning, Opened, Asking, Last, Committing
  <1> QED
    BY <1>2, <1>3 DEF Authorize

\* A new edit: the stages of older ones, if any, are out of the picture.
LEMMA BeginStep == ASSUME Inv, Begin  PROVE Inv'
  <1> USE DEF db, history
  <1>1. /\ pc' = "prepare" /\ at' = 1 /\ UNCHANGED <<inodes, journal, rm>>
        /\ FreshNames /\ pc = "idle" /\ ~Pending
    BY DEF Begin, Goto, FreshNames
  <1>2. /\ FsOK'
        /\ \A p \in Paths :
              /\ dir'[p].target = dir[p].target
              /\ disk'[p].slots["target"] = disk[p].slots["target"]
              /\ dir'[p].stage = 0 /\ dir'[p].remove = 0
              /\ disk'[p].slots["stage"] = 0 /\ disk'[p].slots["remove"] = 0
    BY <1>1, BeginFs DEF Inv
  <1>3. \A p \in Paths : Entry(p, "target") \in Entries
    BY EntryFacts, SlotNames DEF Inv
  <1>4. orig' \in [Paths -> Entries]
    BY <1>3, EntryTypes DEF Begin
  <1>5. edits' \in 0..MaxEdits
    <2>1. edits' = edits + 1 /\ edits < MaxEdits
      BY DEF Begin
    <2> QED
      BY <2>1, PathsAssumption DEF Inv, MemoryOK
  <1>6. Ids' = Ids
    BY <1>1 DEF Ids
  <1>7. /\ saved' \subseteq saved /\ used' = used
        /\ UNCHANGED <<db, cand, unsure, activated, rm, seen, choice>>
    BY DEF Begin
  <1>8. rm' \in Removals'
    BY <1>6, <1>7 DEF Inv, MemoryOK, Removals
  <1>9. MemoryOK'
    BY <1>1, <1>4, <1>5, <1>7, <1>8, FirstFile DEF Inv, MemoryOK, Places
  <1>10. rm'.caller = "commit"
    BY <1>1, <1>7 DEF Inv, MemoryOK, PlaceOK, Removals, Cleaning, Opened
  <1>11. PlaceOK'
    BY <1>1, <1>10 DEF PlaceOK, Pending
  <1>12. DescriptorOK' /\ PlacementOK'
    BY <1>1 DEF DescriptorOK, PlacementOK, Opened, Placed, Committing, Cleaning
  <1>13. Synchronised = Files
    BY <1>1 DEF Synchronised, Asking, Cleaning, Opened, Exchanged
  <1>14. SynchronisedOK'
    BY <1>2, <1>13 DEF Inv, SynchronisedOK
  <1>15. \A f \in Files : Tidy(f)'
    BY <1>2, FileType DEF Tidy, TidyEntry
  <1>16. StagesOK'
    BY <1>1, <1>15 DEF StagesOK, Unmoved, Vacated, Before, Activating, Exchanged,
       Placed, Committing, Cleaning, Opened
  <1> QED
    BY <1>2, <1>9, <1>11, <1>12, <1>14, <1>16 DEF Inv

LEMMA CreateJournalStep == ASSUME Inv, CreateJournal  PROVE Inv'
  <1> USE DEF db, mem, history
  <1>1. pc = "prepare" /\ journal = NoJournal /\ ~Pending
    BY DEF CreateJournal, Inv, PlaceOK, Pending
  <1>2. Synchronised = Files /\ Tidied = Files
    BY <1>1 DEF Synchronised, Tidied, Asking, Cleaning, Opened, Exchanged
  <1>3. CASE Refuse
    <2>1. UNCHANGED fs /\ Return /\ UNCHANGED <<db, edits, history>>
      BY <1>3 DEF Refuse
    <2>2. FsOK' /\ dir' = dir /\ disk' = disk /\ \A q : Tidy(q)' <=> Tidy(q)
      BY <2>1, Nowhere DEF Inv
    <2>3. /\ \A p \in Paths : disk'[p].slots["target"] = dir'[p].target
          /\ \A f \in Files : Tidy(f)'
      BY <1>2, <2>2 DEF Inv, SynchronisedOK, StagesOK
    <2>4. /\ journal' = NoJournal /\ selection' \in [Paths -> Entries]
          /\ saved' \subseteq used' /\ used' \subseteq Works
      BY <1>1, <2>1 DEF Inv, MemoryOK
    <2> QED
      BY <2>1, <2>2, <2>3, <2>4, ClearStep
  <1>4. CASE /\ \A f \in Files :
                   dir[f].remove = 0 /\ (Existed(f) \/ dir[f].target = 0)
             /\ journal' = [phase |-> "staging", files |-> [f \in Files |->
                   [NoFile EXCEPT !.original = Identity(orig[f])]]]
             /\ Goto("stage", 1)
             /\ UNCHANGED <<fs, selection, mem, edits, faults, history>>
    <2>1. pc' = "stage" /\ at' = 1
      BY <1>4 DEF Goto
    <2>2. \A f \in Files : [NoFile EXCEPT !.original = Identity(orig[f])] \in FileRecords
      BY JournalType, EntryTypes, FileType DEF FileRecords, Inv, MemoryOK
    <2>3. journal' \in [phase : Phases, files : [Files -> FileRecords]]
          /\ journal'.phase = "staging"
      BY <1>4, <2>2 DEF Phases
    <2>4. /\ FsOK' /\ dir' = dir /\ disk' = disk /\ \A q : Tidy(q)' <=> Tidy(q)
          /\ Ids' = Ids
      BY <1>4, Nowhere DEF Inv
    <2>5. MemoryOK'
      BY <1>4, <2>1, <2>3, <2>4, FirstFile DEF Inv, MemoryOK, Places, Before, Removals
    <2>6. rm'.caller = "commit"
      BY <1>1, <1>4 DEF Inv, MemoryOK, PlaceOK, Removals, Cleaning, Opened
    <2>7. PlaceOK'
      BY <2>1, <2>3, <2>6 DEF PlaceOK
    <2>8. DescriptorOK' /\ PlacementOK'
      BY <2>1 DEF DescriptorOK, PlacementOK, Opened, Placed, Committing, Cleaning
    <2>9. SynchronisedOK'
      BY <1>2, <2>4 DEF Inv, SynchronisedOK
    <2>10. \A f \in Files : Tidy(f)'
      BY <1>2, <2>4 DEF Inv, StagesOK
    <2>11. \A f \in Files : dir'[f].remove = 0
      BY <1>4, <2>4
    <2>12. StagesOK'
      BY <2>1, <2>10, <2>11 DEF StagesOK, Vacated
    <2> QED
      BY <2>4, <2>5, <2>7, <2>8, <2>9, <2>12 DEF Inv
  <1> QED
    BY <1>3, <1>4 DEF CreateJournal

LEMMA StageCreateStep == ASSUME Inv, StageCreate  PROVE Inv'
  <1> USE DEF db, mem, history
  <1>1. pc = "stage" /\ Pending /\ journal.phase # "none" /\ at \in Files /\ at \in Paths
    BY PendingPhase, FileType DEF StageCreate, Inv, PlaceOK, MemoryOK
  <1>2. CASE Abort /\ UNCHANGED <<fs, cand, unsure>>
    BY <1>1, <1>2, QuietAbort DEF Before
  <1>3. CASE /\ dir[at].stage = 0
             /\ inodes' = Append(inodes, [content |-> Empty, stamp |-> 0])
             /\ dir' = [dir EXCEPT ![at].stage = Len(inodes) + 1]
             /\ rm' = [rm EXCEPT !.fd = Len(inodes) + 1]
             /\ Goto("write", at)
             /\ UNCHANGED <<disk, db, orig, cand, unsure, activated, seen, choice,
                            edits, faults, history>>
    <2>0. FsOK /\ Empty \in Contents /\ Len(inodes) \in Nat
      BY DEF Inv, Contents, FsOK
    <2>1. pc' = "write" /\ at' = at
      BY <1>3 DEF Goto
    <2>2. /\ Local(at) /\ FsOK'
          /\ dir'[at] = [dir[at] EXCEPT !["stage"] = Len(inodes) + 1]
          /\ Len(inodes') = Len(inodes) + 1
      BY <1>1, <1>3, <2>0, SlotNames, CreateLocal
    <2>3. dir[at] \in [Slots -> Ids] /\ disk[at].slots \in [Slots -> Ids]
      BY <1>1, <2>0 DEF FsOK, Disks
    <2>4. /\ dir'[at].stage = Len(inodes) + 1 /\ dir'[at].target = dir[at].target
          /\ dir'[at].remove = dir[at].remove
      BY <2>2, <2>3, SlotNames
    <2>5. \A q \in Paths : q # at =>
             /\ dir'[q] = dir[q] /\ disk'[q].slots = disk[q].slots
             /\ Tidy(q)' <=> Tidy(q)
      BY <1>1, <2>0, <2>2, Elsewhere
    <2>6. rm' \in Removals' /\ rm'.caller = rm.caller /\ rm'.fd = Len(inodes) + 1
      <3>1. Len(inodes) + 1 \in Ids'
        BY <2>0, <2>2 DEF Ids
      <3>2. rm \in Removals'
        BY <1>1, <2>0, <2>2, RemovalGrows DEF Inv, MemoryOK
      <3> QED
        BY <1>3, <3>1, <3>2 DEF Removals
    <2>7. MemoryOK'
      BY <1>3, <2>1, <2>6 DEF Inv, MemoryOK, Places, Before
    <2>8. PlaceOK'
      BY <1>1, <1>3, <2>1, <2>6 DEF Inv, PlaceOK, Cleaning, Opened
    <2>9. \A s \in Slots : dir[at][s] # Len(inodes) + 1
                           /\ disk[at].slots[s] # Len(inodes) + 1
      BY <2>0, <2>3 DEF Ids
    <2>11. DescriptorOK'
      <3>0. \A p \in Paths, s \in Slots : p # at =>
               dir'[p][s] # Len(inodes) + 1 /\ disk'[p].slots[s] # Len(inodes) + 1
        BY <2>0, <2>5 DEF FsOK, Disks, Ids
      <3>1. \A p \in Paths : Refers(p, rm.fd)' => p = at
        BY <2>6, <3>0 DEF Refers
      <3>2. dir'[at].target # rm'.fd /\ dir'[at].remove # rm'.fd
        BY <2>4, <2>6, <2>9, SlotNames
      <3>3. disk'[at].slots["target"] # rm'.fd /\ disk'[at].slots["remove"] # rm'.fd
        BY <1>3, <2>6, <2>9, SlotNames
      <3>4. rm'.fd # 0 /\ dir'[at].stage # 0
        BY <2>0, <2>4, <2>6
      <3> QED
        BY <2>1, <3>1, <3>2, <3>3, <3>4 DEF DescriptorOK
    <2>12. PlacementOK'
      BY <2>1 DEF PlacementOK, Opened, Placed, Committing, Cleaning
    <2>13. Synchronised = Files
      BY <1>1 DEF Synchronised, Asking, Cleaning, Opened, Exchanged
    <2>14. SynchronisedOK'
      BY <1>1, <1>3, <2>4, <2>5, <2>13 DEF Inv, SynchronisedOK
    <2>15. Pending'
      BY <1>1, <1>3 DEF Pending
    <2>16. Tidied' = {} /\ ~Vacated'
      BY <2>1, <2>15 DEF Tidied, Vacated, Last, Activating, Exchanged, Placed,
         Cleaning, Opened
    <2>17. Abortable = Files /\ Unmoved = Files
      BY <1>1 DEF Abortable, Unmoved, Before
    <2>a. dir'[at].stage # 0
      BY <2>0, <2>4
    <2>b. \A f \in Files : dir[f].stage = 0 /\ dir[f].remove = 0 => Tidy(f)
      BY <2>17 DEF Inv, StagesOK
    <2>18. \A f \in Files : dir'[f].stage = 0 /\ dir'[f].remove = 0 => Tidy(f)'
      BY <2>5, <2>a, <2>b, FileType
    <2>19. \A f \in Files : dir'[f].remove = 0
      BY <2>4, <2>5, <2>17, FileType DEF Inv, StagesOK
    <2>20. StagesOK'
      BY <2>1, <2>16, <2>18, <2>19 DEF StagesOK
    <2> QED
      BY <2>2, <2>7, <2>8, <2>11, <2>12, <2>14, <2>20 DEF Inv
  <1> QED
    BY <1>2, <1>3 DEF StageCreate

\* What the open stage of a commit allows to do with its inode.
LEMMA OpenStage ==
    ASSUME Inv, pc \in {"write", "mark"}
    PROVE  /\ FsOK /\ at \in Files /\ at \in Paths /\ Pending
           /\ journal.phase # "none" /\ rm \in Removals
           /\ rm.fd \in Ids /\ rm.fd # 0
           /\ \A q \in Paths : Refers(q, rm.fd) => q = at
           /\ dir[at].stage # 0
           /\ Synchronised = Files /\ Abortable = Files /\ Unmoved = Files
  <1>1. FsOK /\ at \in Files /\ at \in Paths /\ Pending /\ journal.phase # "none"
        /\ rm \in Removals
    BY PendingPhase, FileType DEF Inv, PlaceOK, MemoryOK
  <1>2. Synchronised = Files /\ Abortable = Files /\ Unmoved = Files
    BY DEF Synchronised, Abortable, Unmoved, Before, Asking, Cleaning, Opened,
       Exchanged
  <1> QED
    BY <1>1, <1>2 DEF Inv, DescriptorOK, Removals

LEMMA StageWriteStep == ASSUME Inv, StageWrite  PROVE Inv'
  <1> USE DEF db, mem, history
  <1>1. pc = "write" /\ pc' = "mark" /\ at' = at
    BY DEF StageWrite, Goto
  <1>2. /\ FsOK /\ at \in Files /\ at \in Paths /\ Pending
        /\ journal.phase # "none" /\ rm \in Removals
        /\ rm.fd \in Ids /\ rm.fd # 0
        /\ \A q \in Paths : Refers(q, rm.fd) => q = at
        /\ dir[at].stage # 0
        /\ Synchronised = Files /\ Abortable = Files /\ Unmoved = Files
    BY <1>1, OpenStage
  <1>3. edits \in Contents
    BY DEF Inv, MemoryOK, Contents
  <1>4. /\ inodes' = Write(rm.fd, edits) /\ UNCHANGED <<dir, disk>>
        /\ cand' = [cand EXCEPT ![at] = [ino |-> rm.fd, content |-> edits,
                                         stamp |-> inodes'[rm.fd].stamp]]
        /\ UNCHANGED <<db, orig, unsure, activated, rm, seen, choice, edits, history>>
    BY DEF StageWrite
  <1>5. Local(at) /\ FsOK' /\ Len(inodes') = Len(inodes)
    BY <1>2, <1>3, <1>4, WriteLocal
  <1>6. \A q \in Paths : q # at => (Tidy(q)' <=> Tidy(q))
    BY <1>2, <1>5, Elsewhere
  <1>7. Ids' = Ids
    BY <1>5 DEF Ids
  <1>8. cand' \in [Paths -> Entries]
    <2>1. inodes'[rm.fd] \in INode /\ rm.fd \in Nat
      <3>1. rm.fd \in 1..Len(inodes') /\ Len(inodes') \in Nat
        BY <1>2, <1>5 DEF Ids, FsOK
      <3> QED
        BY <1>5, <3>1 DEF FsOK
    <2>2. [ino |-> rm.fd, content |-> edits, stamp |-> inodes'[rm.fd].stamp] \in Entries
      BY <1>3, <2>1 DEF Entries, INode
    <2> QED
      BY <1>4, <2>2 DEF Inv, MemoryOK
  <1>9. MemoryOK'
    BY <1>1, <1>4, <1>7, <1>8 DEF Inv, MemoryOK, Places, Before, Removals
  <1>10. PlaceOK'
    BY <1>1, <1>2, <1>4 DEF Inv, PlaceOK, Cleaning, Opened
  <1>11. DescriptorOK' /\ PlacementOK'
    BY <1>1, <1>4 DEF Inv, DescriptorOK, PlacementOK, Refers, Opened, Placed,
       Committing, Cleaning
  <1>12. SynchronisedOK'
    BY <1>2, <1>4 DEF Inv, SynchronisedOK
  <1>13. Pending'
    BY <1>2, <1>4 DEF Pending
  <1>14. Tidied' = {} /\ ~Vacated'
    BY <1>1, <1>13 DEF Tidied, Vacated, Last, Activating, Exchanged, Placed,
       Cleaning, Opened
  <1>15. \A f \in Files : dir'[f].stage = 0 /\ dir'[f].remove = 0 => Tidy(f)'
    BY <1>2, <1>4, <1>6, FileType DEF Inv, StagesOK
  <1>16. StagesOK'
    BY <1>1, <1>2, <1>4, <1>14, <1>15 DEF Inv, StagesOK
  <1> QED
    BY <1>5, <1>9, <1>10, <1>11, <1>12, <1>16 DEF Inv

Journals == [phase : Phases, files : [Files -> FileRecords]]

\* The journal with other records of one file.
LEMMA JournalMarked ==
    ASSUME MemoryOK, NEW f \in Files, NEW e \in Entries, NEW J,
           J = [journal EXCEPT !.files[f].candidate = e, !.files[f].ready = TRUE]
    PROVE  J \in Journals /\ J.phase = journal.phase
  <1>1. journal \in Journals
    BY DEF MemoryOK, Journals
  <1>2. journal.files \in [Files -> FileRecords] /\ journal.phase \in Phases
    BY <1>1 DEF Journals
  <1>3. journal.files[f] \in FileRecords
    BY <1>2
  <1> QED
    BY <1>1, <1>2, <1>3 DEF FileRecords, Journals

LEMMA JournalPlaced ==
    ASSUME MemoryOK, NEW f \in Files, NEW e \in Entries, NEW o \in Entries, NEW J,
           J = [journal EXCEPT !.files[f].candidate = e, !.files[f].original = o]
    PROVE  J \in Journals /\ J.phase = journal.phase
  <1>1. journal \in Journals
    BY DEF MemoryOK, Journals
  <1>2. journal.files \in [Files -> FileRecords] /\ journal.phase \in Phases
    BY <1>1 DEF Journals
  <1>3. journal.files[f] \in FileRecords
    BY <1>2
  <1> QED
    BY <1>1, <1>2, <1>3 DEF FileRecords, Journals

LEMMA JournalApplied ==
    ASSUME MemoryOK, NEW f \in Files, NEW e \in Entries, NEW o \in Entries, NEW J,
           J = [journal EXCEPT !.files[f].candidate = e, !.files[f].original = o,
                               !.files[f].applied = TRUE]
    PROVE  J \in Journals /\ J.phase = journal.phase /\ J.files[f].applied
  <1>1. journal \in Journals
    BY DEF MemoryOK, Journals
  <1>2. journal.files \in [Files -> FileRecords] /\ journal.phase \in Phases
    BY <1>1 DEF Journals
  <1>3. journal.files[f] \in FileRecords
    BY <1>2
  <1>4. J.phase = journal.phase
    BY <1>1 DEF Journals
  <1>5. J.files[f].applied
    BY <1>1, <1>2, <1>3 DEF Journals, FileRecords
  <1>6. J.files \in [Files -> FileRecords]
    BY <1>1, <1>2, <1>3 DEF Journals, FileRecords
  <1> QED
    BY <1>1, <1>2, <1>4, <1>5, <1>6 DEF Journals

LEMMA MarkCandidateStep == ASSUME Inv, MarkCandidate  PROVE Inv'
  <1> USE DEF db, mem, history
  <1>1. /\ pc = "mark" /\ UNCHANGED <<inodes, dir>> /\ SyncDirectory(at)
        /\ journal' = [journal EXCEPT !.files[at].candidate = Identity(cand[at]),
                                      !.files[at].ready = TRUE]
        /\ IF at = NumEdits THEN Goto("recheck", 1) ELSE Goto("stage", at + 1)
        /\ UNCHANGED <<selection, mem, edits, history>>
    BY DEF MarkCandidate
  <1>2. /\ FsOK /\ at \in Files /\ at \in Paths /\ Pending
        /\ journal.phase # "none" /\ rm \in Removals
        /\ dir[at].stage # 0
        /\ Synchronised = Files /\ Abortable = Files /\ Unmoved = Files
    BY <1>1, OpenStage
  <1>3. pc' \in {"recheck", "stage"} /\ at' \in Files
    BY <1>1, <1>2, FirstFile, PathsAssumption DEF Goto, Files
  <1>4. Local(at) /\ FsOK' /\ disk'[at].slots = dir[at]
    BY <1>1, <1>2, SyncLocal
  <1>5. \A q \in Paths : q # at =>
           disk'[q].slots = disk[q].slots /\ (Tidy(q)' <=> Tidy(q))
    BY <1>2, <1>4, Elsewhere
  <1>6. Identity(cand[at]) \in Entries
    BY <1>2, EntryTypes DEF Inv, MemoryOK
  <1>7. /\ journal' \in [phase : Phases, files : [Files -> FileRecords]]
        /\ journal'.phase = journal.phase
    BY <1>1, <1>2, <1>6, JournalMarked DEF Inv, Journals
  <1>8. Ids' = Ids
    BY <1>1 DEF Ids
  <1>9. MemoryOK'
    BY <1>1, <1>3, <1>7, <1>8 DEF Inv, MemoryOK, Places, Before, Removals
  <1>10. PlaceOK'
    BY <1>1, <1>2, <1>3, <1>7 DEF Inv, PlaceOK, Cleaning, Opened
  <1>11. DescriptorOK' /\ PlacementOK'
    BY <1>3 DEF DescriptorOK, PlacementOK, Opened, Placed, Committing, Cleaning
  <1>12. SynchronisedOK'
    BY <1>1, <1>2, <1>4, <1>5 DEF Inv, SynchronisedOK
  <1>13. Pending'
    BY <1>2, <1>7, JournalType DEF Pending
  <1>14. Tidied' = {} /\ ~Vacated'
    BY <1>3, <1>13 DEF Tidied, Vacated, Last, Activating, Exchanged, Placed,
       Cleaning, Opened
  <1>15. \A f \in Files : dir'[f].stage = 0 /\ dir'[f].remove = 0 => Tidy(f)'
    BY <1>1, <1>2, <1>5, FileType DEF Inv, StagesOK
  <1>16. StagesOK'
    BY <1>1, <1>2, <1>3, <1>14, <1>15 DEF Inv, StagesOK
  <1> QED
    BY <1>4, <1>9, <1>10, <1>11, <1>12, <1>16 DEF Inv

LEMMA StageFailsStep == ASSUME Inv, StageFails  PROVE Inv'
  <1> USE DEF db, mem, history
  <1>1. pc \in {"write", "mark"} /\ Abort /\ UNCHANGED dir
    BY DEF StageFails
  <1>2. /\ FsOK /\ at \in Files /\ at \in Paths /\ Pending
        /\ rm.fd \in Ids /\ rm.fd # 0
        /\ \A q \in Paths : Refers(q, rm.fd) => q = at
        /\ dir[at].stage # 0
        /\ Synchronised = Files /\ Abortable = Files /\ Unmoved = Files
    BY <1>1, OpenStage
  <1>3. Empty \in Contents
    BY DEF Contents
  <1>4. \/ /\ inodes' = Write(rm.fd, Empty)
           /\ cand' = [cand EXCEPT ![at] = [ino |-> rm.fd, content |-> Empty,
                                            stamp |-> inodes'[rm.fd].stamp]]
           /\ UNCHANGED unsure /\ SyncDirectory(at)
        \/ /\ inodes' \in {inodes, Write(rm.fd, Empty)}
           /\ unsure' = unsure \cup {at}
           /\ UNCHANGED <<disk, cand>>
    BY DEF StageFails
  <1>5. Local(at) /\ FsOK'
    <2>1. CASE inodes' = Write(rm.fd, Empty)
      BY <1>1, <1>2, <1>3, <1>4, <2>1, WriteLocal
    <2>2. CASE inodes' = inodes /\ UNCHANGED disk
      BY <1>1, <1>2, <2>2, StillLocal, LocalFs DEF fs
    <2> QED
      BY <1>4, <2>1, <2>2
  <1>6. \A q \in Paths : q # at =>
           disk'[q].slots = disk[q].slots /\ (Tidy(q)' <=> Tidy(q))
    BY <1>2, <1>5, Elsewhere
  <1>7. disk'[at].slots \in {disk[at].slots, dir'[at]}
    BY <1>2, <1>4, SyncSlots
  <1>8. \A p \in Paths : disk[p].slots["target"] = dir[p].target
    BY <1>2 DEF Inv, SynchronisedOK
  <1>9. \A p \in Paths : disk'[p].slots["target"] = dir'[p].target
    BY <1>1, <1>6, <1>7, <1>8
  <1>10. \A f \in Files : dir[f].stage = 0 /\ dir[f].remove = 0 => Tidy(f)
    BY <1>2 DEF Inv, StagesOK
  <1>11. \A f \in Files : dir'[f].stage = 0 /\ dir'[f].remove = 0 => Tidy(f)'
    BY <1>1, <1>2, <1>6, <1>10, FileType
  <1>12. unsure' \subseteq Files
    BY <1>2, <1>4 DEF Inv, MemoryOK
  <1>13. cand' \in [Paths -> Entries]
    <2>1. inodes'[rm.fd] \in INode /\ rm.fd \in Nat
      <3>1. rm.fd \in 1..Len(inodes') /\ Len(inodes') \in Nat
        BY <1>2, <1>5 DEF Ids, FsOK, Local
      <3> QED
        BY <1>5, <3>1 DEF FsOK
    <2>2. [ino |-> rm.fd, content |-> Empty, stamp |-> inodes'[rm.fd].stamp] \in Entries
      BY <1>3, <2>1 DEF Entries, INode
    <2> QED
      BY <1>4, <2>2 DEF Inv, MemoryOK
  <1> QED
    BY <1>1, <1>2, <1>5, <1>9, <1>11, <1>12, <1>13, AbortStep

-----------------------------------------------------------------------------
(* Activation of one file after another.                                   *)

LEMMA RenameStep == ASSUME Inv, Rename  PROVE Inv'
  <1> USE DEF db, mem, history
  <1>1. pc = "rename" /\ Pending /\ journal.phase # "none" /\ at \in Files /\ at \in Paths
        /\ FsOK
    BY PendingPhase, FileType DEF Rename, Inv, PlaceOK, MemoryOK
  <1>2. CASE ActivationFails
    <2>1. CASE Abort /\ UNCHANGED <<fs, cand, unsure>> /\ at = 1
      BY <1>1, <2>1, QuietAbort
    <2>2. CASE Refuse
      BY <1>1, <2>2, RefuseStep
    <2> QED
      BY <1>2, <2>1, <2>2 DEF ActivationFails
  <1>3. CASE /\ CanRename
             /\ Swap(at, "stage", "target")
             /\ activated' = TRUE
             /\ Goto("verify", at)
             /\ UNCHANGED <<disk, db, orig, cand, unsure, rm, seen, choice, edits,
                            faults, history>>
    <2>1. pc' = "verify" /\ at' = at
      BY <1>3 DEF Goto
    <2>2. /\ Local(at) /\ FsOK' /\ Len(inodes') = Len(inodes)
          /\ dir'[at].stage = dir[at].target /\ dir'[at].target = dir[at].stage
          /\ dir'[at].remove = dir[at].remove
      BY <1>1, <1>3, SlotNames, SwapLocal
    <2>3. \A q \in Paths : q # at => dir'[q] = dir[q] /\ (Tidy(q)' <=> Tidy(q))
      BY <1>1, <2>2, Elsewhere
    <2>4. Ids' = Ids
      BY <2>2 DEF Ids
    <2>5. MemoryOK'
      BY <1>3, <2>1, <2>4 DEF Inv, MemoryOK, Places, Activating, Exchanged, Removals
    <2>6. PlaceOK'
      BY <1>1, <1>3, <2>1 DEF Inv, PlaceOK, Cleaning, Opened
    <2>7. DescriptorOK' /\ PlacementOK'
      BY <2>1 DEF DescriptorOK, PlacementOK, Opened, Placed, Committing, Cleaning
    <2>8. Synchronised = Files
      BY <1>1 DEF Synchronised, Asking, Cleaning, Opened, Exchanged
    <2>9. at \notin Synchronised'
      BY <2>1 DEF Synchronised, Asking, Cleaning, Opened, Exchanged
    <2>10. SynchronisedOK'
      BY <1>1, <1>3, <2>3, <2>8, <2>9 DEF Inv, SynchronisedOK
    <2>11. Pending'
      BY <1>1, <1>3 DEF Pending
    <2>12. Tidied' = 1..(at - 1) /\ Tidied = 1..(at - 1)
      BY <1>1, <2>1, <2>11 DEF Tidied, Last, Activating, Exchanged
    <2>13. at = 1 => Abortable = Files
      BY <1>1 DEF Abortable
    <2>14. /\ at = 1 => Abortable' = 2..NumEdits
           /\ at # 1 => Abortable' = {}
      BY <2>1 DEF Abortable, Before, Exchanged, Opened
    <2>15. Unmoved' = at..NumEdits /\ Unmoved = at..NumEdits
      BY <1>1, <2>1 DEF Unmoved, Before, Activating, Exchanged
    <2>16. \A f \in Files : f \in 1..(at - 1) => f # at
      BY <1>1, FileType
    <2>17. \A f \in Files : f \in Tidied' => Tidy(f)'
      BY <2>3, <2>12, <2>16, FileType DEF Inv, StagesOK
    <2>18. \A f \in Files : f \in Abortable' => f # at /\ f \in Abortable
      <3>1. CASE at = 1
        BY <2>13, <2>14, <3>1, PathsAssumption
      <3>2. CASE at # 1
        BY <2>14, <3>2
      <3> QED
        BY <3>1, <3>2
    <2>19. \A f \in Files :
             f \in Abortable' /\ dir'[f].stage = 0 /\ dir'[f].remove = 0 => Tidy(f)'
      BY <2>3, <2>18, FileType DEF Inv, StagesOK
    <2>20. \A f \in Files : f \in Unmoved' => dir'[f].remove = 0
      BY <2>2, <2>3, <2>15, FileType DEF Inv, StagesOK
    <2>21. Vacated' => TidyEntry(dir[at].stage)'
      BY <1>3, <2>1, <2>2 DEF Vacated, TidyEntry, CanRename, Existed
    <2>22. StagesOK'
      BY <2>1, <2>17, <2>19, <2>20, <2>21 DEF StagesOK
    <2> QED
      BY <2>2, <2>5, <2>6, <2>7, <2>10, <2>22 DEF Inv
  <1> QED
    BY <1>2, <1>3 DEF Rename

\* The entries a file's activation has just read back.
LEMMA ReadBack ==
    ASSUME Inv,
           LET active == Entry(at, "target")
               displaced == Entry(at, "stage")
           IN /\ SameContent(cand[at], active)
              /\ Existed(at) => SameContent(orig[at], displaced)
              /\ cand' = [cand EXCEPT ![at] = active]
              /\ orig' = [orig EXCEPT ![at] = IF Existed(at) THEN displaced
                                              ELSE Missing]
    PROVE  /\ cand' \in [Paths -> Entries] /\ orig' \in [Paths -> Entries]
           /\ dir[at].target # 0
           /\ Exists(orig'[at]) <=> Existed(at)
  <1>0. at \in Paths /\ FsOK /\ orig \in [Paths -> Entries] /\ cand \in [Paths -> Entries]
    BY FileType DEF Inv, MemoryOK
  <1>1. /\ Entry(at, "target") \in Entries /\ Entry(at, "stage") \in Entries
        /\ Entry(at, "target").ino = dir[at].target
    BY <1>0, EntryFacts, SlotNames
  <1>2. orig'[at] = IF Existed(at) THEN Entry(at, "stage") ELSE Missing
    BY <1>0
  <1>3. Exists(orig'[at]) <=> Existed(at)
    BY <1>2, EntryTypes DEF Existed, Exists, Missing
  <1> QED
    BY <1>0, <1>1, <1>3, EntryTypes

LEMMA VerifyActiveStep == ASSUME Inv, VerifyActive  PROVE Inv'
  <1> USE DEF db, mem, history
  <1>1. pc = "verify" /\ Pending /\ journal.phase # "none" /\ at \in Files /\ at \in Paths
        /\ FsOK
    BY PendingPhase, FileType DEF VerifyActive, Inv, PlaceOK, MemoryOK
  <1>2. CASE Refuse
    BY <1>1, <1>2, RefuseStep
  <1>3. CASE /\ Existed(at) /\ Goto("rollback", at)
             /\ UNCHANGED <<fs, db, mem, edits, history>>
    <2>1. pc' = "rollback" /\ at' = at
      BY <1>3 DEF Goto
    <2>2. Ids' = Ids
      BY <1>1, <1>3, Nowhere
    <2>3. MemoryOK'
      BY <1>3, <2>1, <2>2 DEF Inv, MemoryOK, Places, Activating, Exchanged, Removals
    <2>4. PlaceOK'
      BY <1>1, <1>3, <2>1 DEF Inv, PlaceOK, Cleaning, Opened
    <2>5. DescriptorOK' /\ PlacementOK'
      BY <2>1 DEF DescriptorOK, PlacementOK, Opened, Placed, Committing, Cleaning
    <2>6. Pending' /\ Existed(at)'
      BY <1>1, <1>3, <2>1 DEF Pending, Existed
    <2> QED
      BY <1>1, <1>3, <2>1, <2>3, <2>4, <2>5, <2>6, QuietStep DEF Synchronised, Tidied,
         Abortable, Unmoved, Vacated, Before, Activating, Exchanged, Placed, Cleaning,
         Opened, Asking, Last, Committing
  <1>4. CASE LET active == Entry(at, "target")
                 displaced == Entry(at, "stage")
             IN /\ SameContent(cand[at], active)
                /\ Existed(at) => SameContent(orig[at], displaced)
                /\ cand' = [cand EXCEPT ![at] = active]
                /\ orig' = [orig EXCEPT ![at] = IF Existed(at) THEN displaced
                                                ELSE Missing]
                /\ Goto("placement", at)
                /\ UNCHANGED <<fs, db, unsure, activated, rm, seen, choice, edits,
                               history>>
    <2>1. /\ pc' = "placement" /\ at' = at
          /\ UNCHANGED <<fs, db, unsure, activated, rm, seen, choice, edits, history>>
      BY <1>4 DEF Goto
    <2>2. /\ Ids' = Ids /\ dir' = dir
      BY <1>1, <2>1, Nowhere
    <2>3. /\ cand' \in [Paths -> Entries] /\ orig' \in [Paths -> Entries]
          /\ dir[at].target # 0
          /\ Exists(orig'[at]) <=> Existed(at)
      BY <1>4, ReadBack
    <2>4. MemoryOK'
      BY <2>1, <2>2, <2>3 DEF Inv, MemoryOK, Places, Activating, Placed, Removals
    <2>5. PlaceOK'
      BY <1>1, <2>1 DEF Inv, PlaceOK, Cleaning, Opened
    <2>6. DescriptorOK' /\ PlacementOK'
      BY <2>1, <2>2, <2>3 DEF DescriptorOK, PlacementOK, Opened, Placed, Committing,
         Cleaning
    <2>7. Pending' /\ (Existed(at)' <=> Existed(at))
      BY <1>1, <2>1, <2>3 DEF Pending, Existed
    <2> QED
      BY <1>1, <2>1, <2>4, <2>5, <2>6, <2>7, QuietStep DEF Synchronised, Tidied,
         Abortable, Unmoved, Vacated, Before, Activating, Exchanged, Placed, Cleaning,
         Opened, Asking, Last, Committing
  <1> QED
    BY <1>2, <1>3, <1>4 DEF VerifyActive

LEMMA CheckRollbackStep == ASSUME Inv, CheckRollback  PROVE Inv'
  <1> USE DEF db, mem, history
  <1>1. pc = "rollback" /\ Pending /\ journal.phase # "none" /\ at \in Files /\ at \in Paths
        /\ FsOK /\ Existed(at)
    BY PendingPhase, FileType DEF CheckRollback, Inv, PlaceOK, MemoryOK, StagesOK
  <1>2. CASE Refuse
    BY <1>1, <1>2, RefuseStep
  <1>3. CASE /\ Goto("exchange_back", at)
             /\ UNCHANGED <<fs, db, mem, edits, history>>
    <2>1. pc' = "exchange_back" /\ at' = at
      BY <1>3 DEF Goto
    <2>2. Ids' = Ids
      BY <1>1, <1>3, Nowhere
    <2>3. MemoryOK'
      BY <1>3, <2>1, <2>2 DEF Inv, MemoryOK, Places, Activating, Exchanged, Removals
    <2>4. PlaceOK'
      BY <1>1, <1>3, <2>1 DEF Inv, PlaceOK, Cleaning, Opened
    <2>5. DescriptorOK' /\ PlacementOK'
      BY <2>1 DEF DescriptorOK, PlacementOK, Opened, Placed, Committing, Cleaning
    <2>6. Pending' /\ Existed(at)'
      BY <1>1, <1>3, <2>1 DEF Pending, Existed
    <2> QED
      BY <1>1, <1>3, <2>1, <2>3, <2>4, <2>5, <2>6, QuietStep DEF Synchronised, Tidied,
         Abortable, Unmoved, Vacated, Before, Activating, Exchanged, Placed, Cleaning,
         Opened, Asking, Last, Committing
  <1> QED
    BY <1>2, <1>3 DEF CheckRollback

LEMMA ExchangeBackStep == ASSUME Inv, ExchangeBack  PROVE Inv'
  <1> USE DEF db, mem, history
  <1>1. pc = "exchange_back" /\ Pending /\ at \in Files /\ at \in Paths /\ FsOK
    BY PendingPhase, FileType DEF ExchangeBack, Inv, PlaceOK, MemoryOK
  <1>2. CASE Refuse
    BY <1>1, <1>2, RefuseStep
  <1>3. CASE /\ dir[at].stage # 0 /\ dir[at].target # 0
             /\ Swap(at, "stage", "target")
             /\ disk' = disk \/ SyncDirectory(at)
             /\ UNCHANGED <<db, edits, saved, used>>
             /\ \/ Return
                \/ at = 1 /\ SyncDirectory(at) /\ Discard /\ UNCHANGED <<cand, unsure>>
    <2>1. /\ Local(at) /\ FsOK'
          /\ dir'[at].stage = dir[at].target /\ dir'[at].target = dir[at].stage
      BY <1>1, <1>3, SlotNames, SwapLocal
    <2>2. \A q \in Paths : q # at =>
             /\ dir'[q] = dir[q] /\ disk'[q].slots = disk[q].slots
             /\ Tidy(q)' <=> Tidy(q)
      BY <1>1, <2>1, Elsewhere
    <2>3. CASE Return
      <3>1. \A p \in Paths : p \notin Files =>
               disk'[p].slots["target"] = dir'[p].target
        BY <1>1, <2>2 DEF Inv, SynchronisedOK
      <3> QED
        BY <1>1, <1>3, <2>1, <2>3, <3>1, ReturnStep
    <2>4. CASE at = 1 /\ SyncDirectory(at) /\ Discard /\ UNCHANGED <<cand, unsure>>
      <3>1. disk'[at].slots = dir'[at]
        BY <1>1, <2>4, SyncSlots
      <3>2. Synchronised = Files \ {at} /\ Abortable = 2..NumEdits
        BY <1>1, <2>4 DEF Synchronised, Abortable, Asking, Cleaning, Opened, Exchanged,
           Before
      <3>3. \A p \in Paths : disk'[p].slots["target"] = dir'[p].target
        BY <2>2, <3>1, <3>2 DEF Inv, SynchronisedOK
      <3>4. \A f \in Files : f # at => f \in 2..NumEdits
        BY <2>4, FirstFile, FileType DEF Files
      <3>5. \A f \in Files : f # at /\ dir[f].stage = 0 /\ dir[f].remove = 0 => Tidy(f)
        BY <3>2, <3>4 DEF Inv, StagesOK
      <3>6. \A f \in Files : dir'[f].stage = 0 /\ dir'[f].remove = 0 => Tidy(f)'
        BY <1>3, <2>1, <2>2, <3>5, FileType
      <3>7. cand' \in [Paths -> Entries] /\ unsure' \subseteq Files
        BY <2>4 DEF Inv, MemoryOK
      <3> QED
        BY <1>1, <1>3, <2>1, <2>4, <3>3, <3>6, <3>7, DiscardStep
    <2> QED
      BY <1>3, <2>3, <2>4
  <1> QED
    BY <1>2, <1>3 DEF ExchangeBack

LEMMA MarkPlacementStep == ASSUME Inv, MarkPlacement  PROVE Inv'
  <1> USE DEF db, mem, history
  <1>1. pc = "placement" /\ Pending /\ journal.phase # "none" /\ at \in Files /\ at \in Paths
        /\ FsOK /\ dir[at].target # 0
    BY PendingPhase, FileType DEF MarkPlacement, Inv, PlaceOK, MemoryOK, PlacementOK,
       Placed
  <1>2. CASE Refuse
    BY <1>1, <1>2, RefuseStep
  <1>3. CASE /\ journal' = [journal EXCEPT
                   !.files[at].candidate = Identity(cand[at]),
                   !.files[at].original = Identity(orig[at])]
             /\ Goto("sync", at)
             /\ UNCHANGED <<fs, selection, mem, edits, faults, history>>
    <2>1. pc' = "sync" /\ at' = at
      BY <1>3 DEF Goto
    <2>2. Ids' = Ids /\ dir' = dir
      BY <1>1, <1>3, Nowhere
    <2>3. Identity(cand[at]) \in Entries /\ Identity(orig[at]) \in Entries
      BY <1>1, EntryTypes DEF Inv, MemoryOK
    <2>a. /\ at \in Files /\ MemoryOK
          /\ journal' = [journal EXCEPT
                !.files[at].candidate = Identity(cand[at]),
                !.files[at].original = Identity(orig[at])]
      BY <1>1, <1>3 DEF Inv
    <2>4. journal' \in Journals /\ journal'.phase = journal.phase
      BY <2>3, <2>a, JournalPlaced
    <2>5. MemoryOK'
      BY <1>3, <2>1, <2>2, <2>4 DEF Inv, MemoryOK, Places, Activating, Placed, Removals,
         Journals
    <2>6. PlaceOK'
      BY <1>1, <1>3, <2>1, <2>4 DEF Inv, PlaceOK, Cleaning, Opened
    <2>7. DescriptorOK' /\ PlacementOK'
      BY <1>1, <2>1, <2>2 DEF DescriptorOK, PlacementOK, Opened, Placed, Committing,
         Cleaning
    <2>8. Pending' /\ (Existed(at)' <=> Existed(at))
      BY <1>1, <1>3, <2>1, <2>4, JournalType DEF Pending, Existed
    <2> QED
      BY <1>1, <1>3, <2>1, <2>5, <2>6, <2>7, <2>8, QuietStep DEF Synchronised, Tidied,
         Abortable, Unmoved, Vacated, Before, Activating, Exchanged, Placed, Cleaning,
         Opened, Asking, Last, Committing
  <1> QED
    BY <1>2, <1>3 DEF MarkPlacement

LEMMA SyncActiveStep == ASSUME Inv, SyncActive  PROVE Inv'
  <1> USE DEF db, mem, history
  <1>1. pc = "sync" /\ Pending /\ journal.phase # "none" /\ at \in Files /\ at \in Paths
        /\ FsOK /\ dir[at].target # 0
    BY PendingPhase, FileType DEF SyncActive, Inv, PlaceOK, MemoryOK, PlacementOK,
       Placed
  <1>2. CASE Refuse
    BY <1>1, <1>2, RefuseStep
  <1>3. CASE /\ UNCHANGED <<inodes, dir>> /\ SyncDirectory(at)
             /\ Goto("confirm", at)
             /\ UNCHANGED <<db, mem, edits, faults, history>>
    <2>1. pc' = "confirm" /\ at' = at
      BY <1>3 DEF Goto
    <2>2. Local(at) /\ FsOK' /\ disk'[at].slots = dir[at]
      BY <1>1, <1>3, SyncLocal
    <2>3. \A q \in Paths : q # at =>
             disk'[q].slots = disk[q].slots /\ (Tidy(q)' <=> Tidy(q))
      BY <1>1, <2>2, Elsewhere
    <2>4. Ids' = Ids
      BY <1>3 DEF Ids
    <2>5. MemoryOK'
      BY <1>3, <2>1, <2>4 DEF Inv, MemoryOK, Places, Activating, Placed, Removals
    <2>6. PlaceOK'
      BY <1>1, <1>3, <2>1 DEF Inv, PlaceOK, Cleaning, Opened
    <2>7. DescriptorOK' /\ PlacementOK'
      BY <1>1, <1>3, <2>1 DEF DescriptorOK, PlacementOK, Opened, Placed, Committing,
         Cleaning
    <2>8. Synchronised = Files \ {at}
      BY <1>1 DEF Synchronised, Asking, Cleaning, Opened, Exchanged
    <2>9. SynchronisedOK'
      BY <1>3, <2>2, <2>3, <2>8 DEF Inv, SynchronisedOK
    <2>10. Pending'
      BY <1>1, <1>3 DEF Pending
    <2>11. Tidied' = 1..(at - 1) /\ Tidied = 1..(at - 1)
      BY <1>1, <2>1, <2>10 DEF Tidied, Last, Activating, Exchanged, Placed
    <2>12. Abortable' = {} /\ ~Vacated'
      BY <2>1 DEF Abortable, Vacated, Before, Exchanged, Opened
    <2>13. Unmoved' = at..NumEdits /\ Unmoved = at..NumEdits /\ at \in at..NumEdits
      BY <1>1, <2>1 DEF Unmoved, Before, Activating, Exchanged, Placed, Files
    <2>14. \A f \in Files : f \in 1..(at - 1) => f # at
      BY <1>1, FileType
    <2>15. \A f \in Files : f \in Tidied' => Tidy(f)'
      BY <2>3, <2>11, <2>14, FileType DEF Inv, StagesOK
    <2>16. \A f \in Files : f \in Unmoved' => dir'[f].remove = 0
      BY <1>3, <2>13 DEF Inv, StagesOK
    <2>17. ~Existed(at)' => TidyEntry(dir[at].stage) /\ dir[at].remove = 0
      BY <1>1, <1>3, <2>1, <2>13 DEF Inv, StagesOK, Vacated, Existed
    <2>18. ~Existed(at)' => Tidy(at)'
      BY <1>3, <2>1, <2>2, <2>17 DEF Tidy, TidyEntry
    <2>19. StagesOK'
      BY <2>1, <2>12, <2>15, <2>16, <2>18 DEF StagesOK
    <2> QED
      BY <2>2, <2>5, <2>6, <2>7, <2>9, <2>19 DEF Inv
  <1> QED
    BY <1>2, <1>3 DEF SyncActive

LEMMA ConfirmActiveStep == ASSUME Inv, ConfirmActive  PROVE Inv'
  <1> USE DEF db, mem, history
  <1>1. pc = "confirm" /\ Pending /\ journal.phase # "none" /\ at \in Files /\ at \in Paths
        /\ FsOK
    BY PendingPhase, FileType DEF ConfirmActive, Inv, PlaceOK, MemoryOK
  <1>2. CASE Refuse
    BY <1>1, <1>2, RefuseStep
  <1>3. CASE LET active == Entry(at, "target")
                 displaced == Entry(at, "stage")
             IN /\ SameContent(cand[at], active)
                /\ Existed(at) => SameContent(orig[at], displaced)
                /\ cand' = [cand EXCEPT ![at] = active]
                /\ orig' = [orig EXCEPT ![at] = IF Existed(at) THEN displaced
                                                ELSE Missing]
                /\ Goto("apply", at)
                /\ UNCHANGED <<fs, db, unsure, activated, rm, seen, choice, edits,
                               history>>
    <2>1. /\ pc' = "apply" /\ at' = at
          /\ UNCHANGED <<fs, db, unsure, activated, rm, seen, choice, edits, history>>
      BY <1>3 DEF Goto
    <2>2. /\ Ids' = Ids /\ dir' = dir
      BY <1>1, <2>1, Nowhere
    <2>3. /\ cand' \in [Paths -> Entries] /\ orig' \in [Paths -> Entries]
          /\ dir[at].target # 0
          /\ Exists(orig'[at]) <=> Existed(at)
      BY <1>3, ReadBack
    <2>4. MemoryOK'
      BY <2>1, <2>2, <2>3 DEF Inv, MemoryOK, Places, Activating, Placed, Removals
    <2>5. PlaceOK'
      BY <1>1, <2>1 DEF Inv, PlaceOK, Cleaning, Opened
    <2>6. DescriptorOK' /\ PlacementOK'
      BY <2>1, <2>2, <2>3 DEF DescriptorOK, PlacementOK, Opened, Placed, Committing,
         Cleaning
    <2>7. Pending' /\ (Existed(at)' <=> Existed(at))
      BY <1>1, <2>1, <2>3 DEF Pending, Existed
    <2> QED
      BY <1>1, <2>1, <2>4, <2>5, <2>6, <2>7, QuietStep DEF Synchronised, Tidied,
         Abortable, Unmoved, Vacated, Before, Activating, Exchanged, Placed, Cleaning,
         Opened, Asking, Last, Committing
  <1> QED
    BY <1>2, <1>3 DEF ConfirmActive

LEMMA MarkAppliedStep == ASSUME Inv, MarkApplied  PROVE Inv'
  <1> USE DEF db, mem, history
  <1>1. pc = "apply" /\ Pending /\ journal.phase # "none" /\ at \in Files /\ at \in Paths
        /\ FsOK /\ dir[at].target # 0 /\ rm \in Removals
    BY PendingPhase, FileType DEF MarkApplied, Inv, PlaceOK, MemoryOK, PlacementOK,
       Placed
  <1>2. CASE Refuse
    BY <1>1, <1>2, RefuseStep
  <1>3. CASE /\ journal' = [journal EXCEPT
                   !.files[at].candidate = Identity(cand[at]),
                   !.files[at].original = Identity(orig[at]),
                   !.files[at].applied = TRUE]
             /\ IF Existed(at)
                THEN /\ Goto("clean", at)
                     /\ rm' = [NoRemoval EXCEPT !.caller = "commit"]
                     /\ UNCHANGED activated
                ELSE Advance
             /\ UNCHANGED <<fs, selection, orig, cand, unsure, seen, choice, edits,
                            faults, history>>
    <2>1. Identity(cand[at]) \in Entries /\ Identity(orig[at]) \in Entries
      BY <1>1, EntryTypes DEF Inv, MemoryOK
    <2>2. journal' \in Journals /\ journal'.phase = journal.phase
          /\ journal'.files[at].applied
      BY <1>1, <1>3, <2>1, JournalApplied DEF Inv
    <2>3. /\ Ids' = Ids /\ dir' = dir /\ disk' = disk /\ FsOK'
          /\ \A q : Tidy(q)' <=> Tidy(q)
      BY <1>1, <1>3, Nowhere
    <2>4. rm' = NoRemoval
      BY <1>3 DEF Advance, NoRemoval
    <2>5. rm' \in Removals' /\ rm'.caller = "commit"
      BY <2>3, <2>4, RemovalType
    <2>6. /\ pc' \in {"clean", "rename", "finalizing"} /\ at' \in Files
          /\ pc' = "clean" => at' = at
          /\ pc' # "clean" => ~Existed(at)
          /\ pc' = "rename" => at' = at + 1
          /\ pc' = "finalizing" => at = NumEdits
      BY <1>1, <1>3, FirstFile, PathsAssumption DEF Advance, Goto, Files
    <2>7. MemoryOK'
      BY <1>3, <2>2, <2>5, <2>6 DEF Inv, MemoryOK, Places, Activating, Cleaning, Last,
         Journals
    <2>8. PlaceOK'
      BY <1>1, <2>2, <2>5, <2>6 DEF PlaceOK
    <2>9. DescriptorOK' /\ PlacementOK'
      BY <1>1, <2>2, <2>3, <2>6 DEF DescriptorOK, PlacementOK, Opened, Placed,
         Committing, Cleaning
    <2>10. Synchronised = Files
      BY <1>1 DEF Synchronised, Asking, Cleaning, Opened, Exchanged
    <2>11. SynchronisedOK'
      BY <2>3, <2>10 DEF Inv, SynchronisedOK
    <2>12. Pending'
      BY <1>1, <2>2, JournalType DEF Pending
    <2>13. at \in Nat /\ NumEdits \in Nat /\ Files = 1..NumEdits /\ at > 0
      BY <1>1, PathsAssumption DEF Files
    <2>14. Tidied = 1..(at - 1)
      BY <1>1 DEF Tidied, Last, Activating, Placed
    <2>15. pc' \in {"clean", "rename"} => Tidied' = 1..(at' - 1)
      BY <2>5, <2>6, <2>12 DEF Tidied, Last, Activating, Exchanged, Placed, Cleaning,
         Opened
    <2>16. ~Existed(at) => Tidy(at)
      BY <1>1 DEF Inv, StagesOK
    <2>17. \A f \in Files : f \in Tidied' => f \in Tidied \/ (f = at /\ ~Existed(at))
      BY <2>6, <2>13, <2>14, <2>15
    <2>18. \A f \in Files : f \in Tidied' => Tidy(f)
      BY <2>16, <2>17 DEF Inv, StagesOK
    <2>19. at' = at + 1 => at' # 1
      BY <2>13
    <2>20. Abortable' = {} /\ ~Vacated'
      BY <2>5, <2>6, <2>19 DEF Abortable, Vacated, Before, Exchanged, Opened
    <2>21. Unmoved = at..NumEdits
      BY <1>1 DEF Unmoved, Before, Activating, Placed
    <2>22. Unmoved' \subseteq at..NumEdits
      <3>1. Unmoved' \in {{}, (at + 1)..NumEdits}
        BY <2>5, <2>6 DEF Unmoved, Before, Activating, Placed, Exchanged, Committing,
           Cleaning, Opened
      <3> QED
        BY <2>13, <3>1
    <2>23. \A f \in Files : f \in Unmoved' => dir[f].remove = 0
      BY <2>21, <2>22 DEF Inv, StagesOK
    <2>24. StagesOK'
      BY <2>3, <2>6, <2>18, <2>20, <2>23 DEF StagesOK
    <2> QED
      BY <2>3, <2>7, <2>8, <2>9, <2>11, <2>24 DEF Inv
  <1> QED
    BY <1>2, <1>3 DEF MarkApplied

LEMMA EnterFinalizingStep == ASSUME Inv, EnterFinalizing  PROVE Inv'
  <1> USE DEF db, mem, history
  <1>1. pc = "finalizing" /\ Pending /\ journal.phase # "none" /\ FsOK
    BY PendingPhase DEF EnterFinalizing, Inv, PlaceOK
  <1>2. CASE Refuse
    BY <1>1, <1>2, RefuseStep
  <1>3. CASE /\ journal' = [journal EXCEPT !.phase = "finalizing"]
             /\ Goto("inspect", 1)
             /\ UNCHANGED <<fs, selection, mem, edits, faults, history>>
    <2>1. pc' = "inspect" /\ at' = 1
      BY <1>3 DEF Goto
    <2>2. journal' \in [phase : Phases, files : [Files -> FileRecords]]
          /\ journal'.phase = "finalizing"
      BY <1>3 DEF Inv, MemoryOK, Phases
    <2>3. Ids' = Ids
      BY <1>1, <1>3, Nowhere
    <2>4. MemoryOK'
      BY <1>3, <2>1, <2>2, <2>3, FirstFile DEF Inv, MemoryOK, Places, Last, Removals
    <2>5. PlaceOK'
      BY <1>1, <1>3, <2>1, <2>2 DEF Inv, PlaceOK, Cleaning, Opened
    <2>6. DescriptorOK' /\ PlacementOK'
      BY <2>1 DEF DescriptorOK, PlacementOK, Opened, Placed, Committing, Cleaning
    <2>7. Pending'
      BY <2>2, JournalType DEF Pending
    <2> QED
      BY <1>1, <1>3, <2>1, <2>4, <2>5, <2>6, <2>7, QuietStep DEF Synchronised, Tidied,
         Abortable, Unmoved, Vacated, Before, Activating, Exchanged, Placed, Cleaning,
         Opened, Asking, Last, Committing
  <1> QED
    BY <1>2, <1>3 DEF EnterFinalizing

LEMMA InspectCommittedStep == ASSUME Inv, InspectCommitted  PROVE Inv'
  <1> USE DEF db, mem, history
  <1>1. pc = "inspect" /\ Pending /\ journal.phase # "none" /\ FsOK
    BY PendingPhase DEF InspectCommitted, Inv, PlaceOK
  <1>2. CASE Refuse
    BY <1>1, <1>2, RefuseStep
  <1>3. CASE /\ seen' = Current
             /\ Goto("finalize", 1)
             /\ UNCHANGED <<fs, db, orig, cand, unsure, activated, rm, choice,
                            edits, history>>
    <2>1. pc' = "finalize" /\ at' = 1
      BY <1>3 DEF Goto
    <2>2. seen' \in [Paths -> Entries]
      BY <1>1, <1>3, CurrentType
    <2>3. Ids' = Ids
      BY <1>1, <1>3, Nowhere
    <2>4. MemoryOK'
      BY <1>3, <2>1, <2>2, <2>3, FirstFile DEF Inv, MemoryOK, Places, Last, Removals
    <2>5. PlaceOK'
      BY <1>1, <1>3, <2>1 DEF Inv, PlaceOK, Cleaning, Opened
    <2>6. DescriptorOK' /\ PlacementOK'
      BY <2>1 DEF DescriptorOK, PlacementOK, Opened, Placed, Committing, Cleaning
    <2>7. Pending'
      BY <1>1, <1>3 DEF Pending
    <2> QED
      BY <1>1, <1>3, <2>1, <2>4, <2>5, <2>6, <2>7, QuietStep DEF Synchronised, Tidied,
         Abortable, Unmoved, Vacated, Before, Activating, Exchanged, Placed, Cleaning,
         Opened, Asking, Last, Committing
  <1> QED
    BY <1>2, <1>3 DEF InspectCommitted

LEMMA FinalizeEditStep == ASSUME Inv, FinalizeEdit  PROVE Inv'
  <1> USE DEF db, mem, history
  <1>1. pc = "finalize" /\ Pending /\ FsOK
    BY PendingPhase DEF FinalizeEdit, Inv, PlaceOK
  <1>2. CASE Refuse
    BY <1>1, <1>2, RefuseStep
  <1>3. CASE /\ selection' = [p \in Paths |-> Identity(seen[p])]
             /\ journal' = NoJournal
             /\ Return
             /\ UNCHANGED <<fs, edits, saved, used>>
    <2>1. /\ FsOK' /\ dir' = dir /\ disk' = disk /\ \A q : Tidy(q)' <=> Tidy(q)
      BY <1>1, <1>3, Nowhere
    <2>2. Synchronised = Files /\ Tidied = Files
      BY <1>1 DEF Synchronised, Tidied, Last, Asking, Cleaning, Opened, Exchanged
    <2>3. /\ \A p \in Paths : disk'[p].slots["target"] = dir'[p].target
          /\ \A f \in Files : Tidy(f)'
      BY <2>1, <2>2 DEF Inv, SynchronisedOK, StagesOK
    <2>4. selection' \in [Paths -> Entries]
      BY <1>3, EntryTypes DEF Inv, MemoryOK
    <2>5. saved' \subseteq used' /\ used' \subseteq Works
      BY <1>3 DEF Inv, MemoryOK
    <2> QED
      BY <1>3, <2>1, <2>3, <2>4, <2>5, ClearStep
  <1> QED
    BY <1>2, <1>3 DEF FinalizeEdit

-----------------------------------------------------------------------------
(* Cleanup.                                                                *)

LEMMA DiscardPreparedStep == ASSUME Inv, DiscardPrepared  PROVE Inv'
  <1> USE DEF db, mem, history
  <1>1. pc = "abort" /\ Pending /\ journal.phase # "none" /\ rm.caller = "abort"
        /\ at \in Files /\ FsOK /\ rm \in Removals
    BY PendingPhase DEF DiscardPrepared, Inv, PlaceOK, MemoryOK
  <1>2. UNCHANGED <<fs, db, orig, cand, unsure, activated, seen, choice, edits, history>>
    BY DEF DiscardPrepared
  <1>3. Ids' = Ids /\ Pending'
    BY <1>1, <1>2, Nowhere DEF Pending
  <1>4. at \in Nat /\ NumEdits \in Nat /\ Files = 1..NumEdits
    BY <1>1, PathsAssumption DEF Files
  <1>5. CASE at \notin unsure /\ Goto("clean", at) /\ UNCHANGED rm
    <2>1. pc' = "clean" /\ at' = at
      BY <1>5 DEF Goto
    <2>2. MemoryOK'
      BY <1>2, <1>3, <1>5, <2>1 DEF Inv, MemoryOK, Places, Cleaning, Removals
    <2>3. PlaceOK'
      BY <1>1, <1>2, <1>5, <2>1 DEF Inv, PlaceOK, Cleaning, Opened
    <2>4. DescriptorOK' /\ PlacementOK'
      BY <1>1, <1>5, <2>1 DEF DescriptorOK, PlacementOK, Opened, Placed, Committing
    <2> QED
      BY <1>1, <1>2, <1>3, <1>5, <2>1, <2>2, <2>3, <2>4, QuietStep DEF Synchronised,
         Tidied, Abortable, Unmoved, Vacated, Before, Activating, Exchanged, Placed,
         Cleaning, Opened, Asking, Last, Committing
  <1>6. CASE /\ rm' = [rm EXCEPT !.failed = TRUE]
             /\ IF at = NumEdits THEN Goto("clear", 1) ELSE Goto("abort", at + 1)
    <2>1. /\ pc' \in {"clear", "abort"} /\ at' \in Files
          /\ pc' = "abort" => at' = at + 1
      BY <1>1, <1>4, <1>6, FirstFile DEF Goto
    <2>2. rm' \in Removals' /\ rm'.caller = "abort" /\ rm'.failed
      BY <1>1, <1>3, <1>6 DEF Removals
    <2>3. MemoryOK'
      BY <1>2, <2>1, <2>2 DEF Inv, MemoryOK, Places
    <2>4. PlaceOK'
      BY <1>1, <1>2, <2>1, <2>2 DEF Inv, PlaceOK
    <2>5. DescriptorOK' /\ PlacementOK'
      BY <2>1 DEF DescriptorOK, PlacementOK, Opened, Placed, Committing, Cleaning
    <2>6. Abortable = at..NumEdits
      BY <1>1 DEF Abortable, Before, Exchanged
    <2>7. Abortable' \subseteq (at + 1)..NumEdits
      BY <2>1 DEF Abortable, Before, Exchanged, Opened
    <2>8. \A f \in Files : f \in Abortable' => f \in Abortable
      BY <1>4, <2>6, <2>7
    <2>9. Tidied' = {} /\ Unmoved' = {} /\ ~Vacated'
      BY <1>3, <2>1, <2>2 DEF Tidied, Unmoved, Vacated, Before, Activating, Exchanged,
         Placed, Cleaning, Opened, Last, Committing
    <2>10. Synchronised = Files
      BY <1>1 DEF Synchronised, Asking, Cleaning, Opened, Exchanged
    <2> QED
      BY <1>2, <2>1, <2>3, <2>4, <2>5, <2>8, <2>9, <2>10, QuietStep
  <1> QED
    BY <1>5, <1>6 DEF DiscardPrepared

\* Cleanup fails with the file system as it is.
LEMMA QuietFailure ==
    ASSUME Inv, pc \in Cleaning, CleanupFails, UNCHANGED fs
    PROVE  Inv'
  <1>1. at \in Paths /\ FsOK
    BY FileType DEF Inv, MemoryOK
  <1>2. Local(at) /\ dir' = dir /\ disk' = disk
    BY <1>1, StillLocal DEF fs
  <1> QED
    BY <1>2, CleanupFailsStep

\* What cleanup is about to destroy has a name, and is the only such entry.
LEMMA OwnedEntry ==
    ASSUME Inv, pc = "clean", NEW slot \in {"stage", "remove"},
           LET owned == IF rm.caller = "commit" THEN {"stage"} ELSE OwnedSlots(at)
           IN slot \in owned /\ Cardinality(owned) = 1,
           Recognized(at, Entry(at, slot))
    PROVE  /\ dir[at][slot] # 0 /\ dir[at][slot] \in Ids
           /\ slot = "remove" => dir[at].stage = 0
  <1>1. at \in Paths /\ FsOK /\ rm \in Removals /\ slot \in Slots
    BY FileType, SlotNames DEF Inv, MemoryOK
  <1>2. Entry(at, slot).ino = dir[at][slot] /\ dir[at][slot] \in Ids
    BY <1>1, EntryFacts DEF FsOK
  <1>3. dir[at][slot] # 0
    BY <1>1, <1>2, EntryTypes DEF Recognized, Removals
  <1>4. ASSUME slot = "remove", dir[at].stage # 0  PROVE FALSE
    <2>1. OwnedSlots(at) = {"stage", "remove"} /\ Cardinality(OwnedSlots(at)) = 1
      BY <1>3, <1>4 DEF OwnedSlots
    <2>2. IsFiniteSet({"stage", "remove"})
      <3>1. {"stage", "remove"} = {"stage"} \cup {"remove"}
        OBVIOUS
      <3>2. IsFiniteSet({"stage"})
        BY FS_Singleton
      <3>3. IsFiniteSet({"stage"} \cup {"remove"})
        BY <3>2, FS_AddElement
      <3> QED
        BY <3>1, <3>3
    <2>3. PICK x : {"stage", "remove"} = {x}
      BY <2>1, <2>2, FS_Singleton
    <2> QED
      BY <2>3
  <1> QED
    BY <1>2, <1>3, <1>4

LEMMA CleanOpenStep == ASSUME Inv, CleanOpen  PROVE Inv'
  <1> USE DEF db, mem, history
  <1>1. /\ pc = "clean" /\ Pending /\ journal.phase # "none"
        /\ at \in Files /\ at \in Paths /\ FsOK /\ rm \in Removals /\ pc \in Cleaning
    BY PendingPhase, FileType DEF CleanOpen, Inv, PlaceOK, MemoryOK, Cleaning
  <1> DEFINE owned == IF rm.caller = "commit" THEN {"stage"} ELSE OwnedSlots(at)
  <1>2. CASE /\ owned = {}
             /\ UNCHANGED <<inodes, dir>>
             /\ IF rm.caller = "recover" THEN SyncDirectory(at) ELSE UNCHANGED disk
             /\ Cleaned
    <2>1. dir[at].stage = 0 /\ dir[at].remove = 0 /\ rm.caller \in {"abort", "recover"}
      BY <1>1, <1>2 DEF OwnedSlots, Removals
    <2>2. CASE rm.caller = "recover"
      <3>1. Local(at) /\ disk'[at].slots = dir[at]
        BY <1>1, <1>2, <2>2, SyncLocal
      <3>2. ASSUME NEW g \in Files, g = at  PROVE Tidy(g)'
        BY <1>2, <2>1, <3>1, <3>2 DEF Tidy, TidyEntry
      <3>3. disk'[at].slots["target"] = dir'[at].target
        BY <1>2, <3>1
      <3> QED
        BY <1>1, <1>2, <3>1, <3>2, <3>3, CleanedStep
    <2>3. CASE rm.caller = "abort"
      <3>1. UNCHANGED fs
        BY <1>2, <2>3 DEF fs
      <3>2. Local(at) /\ dir' = dir /\ disk' = disk /\ \A q : Tidy(q)' <=> Tidy(q)
        BY <1>1, <3>1, StillLocal, Nowhere
      <3>3. Synchronised = Files /\ Abortable = at..NumEdits /\ at \in at..NumEdits
        BY <1>1, <2>3 DEF Synchronised, Abortable, Before, Asking, Cleaning, Opened,
           Exchanged, Files
      <3>4. ASSUME NEW g \in Files, g = at  PROVE Tidy(g)'
        BY <2>1, <3>2, <3>3, <3>4 DEF Inv, StagesOK
      <3>5. disk'[at].slots["target"] = dir'[at].target
        BY <1>1, <3>2, <3>3 DEF Inv, SynchronisedOK
      <3> QED
        BY <1>1, <1>2, <3>2, <3>4, <3>5, CleanedStep
    <2> QED
      BY <2>1, <2>2, <2>3
  <1>3. CASE /\ Cardinality(owned) = 1
             /\ \E slot \in owned :
                   /\ Recognized(at, Entry(at, slot))
                   /\ rm' = [rm EXCEPT !.fd = dir[at][slot], !.slot = slot]
                   /\ Goto(IF slot = "stage" THEN "quarantine" ELSE "quarantined",
                           at)
             /\ UNCHANGED <<fs, db, orig, cand, unsure, activated, seen, choice,
                            edits, history>>
    <2>1. PICK slot \in owned :
                   /\ Recognized(at, Entry(at, slot))
                   /\ rm' = [rm EXCEPT !.fd = dir[at][slot], !.slot = slot]
                   /\ Goto(IF slot = "stage" THEN "quarantine" ELSE "quarantined",
                           at)
      BY <1>3
    <2>2. slot \in {"stage", "remove"} /\ slot \in Slots
      BY SlotNames DEF OwnedSlots
    <2>3. /\ dir[at][slot] # 0 /\ dir[at][slot] \in Ids
          /\ slot = "remove" => dir[at].stage = 0
      BY <1>1, <1>3, <2>1, <2>2, OwnedEntry
    <2> HIDE DEF owned
    <2>4. /\ at' = at /\ pc' \in {"quarantine", "quarantined"}
          /\ pc' = "quarantined" => slot = "remove"
          /\ pc' = "quarantine" => slot = "stage"
      BY <2>1, <2>2 DEF Goto
    <2>5. /\ Ids' = Ids /\ dir' = dir /\ disk' = disk
          /\ \A q, i : Refers(q, i)' <=> Refers(q, i)
      BY <1>1, <1>3, Nowhere
    <2>6. rm' \in Removals' /\ rm'.caller = rm.caller /\ rm'.failed = rm.failed
          /\ rm'.fd = dir[at][slot]
      BY <1>1, <2>1, <2>2, <2>3, <2>5 DEF Removals
    <2>7. MemoryOK'
      BY <1>3, <2>4, <2>6 DEF Inv, MemoryOK, Places, Cleaning, Opened
    <2>8. PlaceOK'
      BY <1>1, <1>3, <2>4, <2>6 DEF Inv, PlaceOK, Cleaning, Opened
    <2>9. DescriptorOK'
      <3>1. dir[at].target # dir[at][slot] /\ (slot # "stage" => dir[at].stage # dir[at][slot])
        BY <1>1, <2>2, <2>3, SlotNames DEF FsOK, OneName
      <3>2. Refers(at, dir[at][slot])
        BY <2>2, <2>3 DEF Refers
      <3>3. \A p \in Paths : Refers(p, dir[at][slot]) => p = at
        BY <1>1, <2>3, <3>2 DEF FsOK
      <3>4. \A p \in Paths : Refers(p, rm.fd)' => p = at
        BY <2>5, <2>6, <3>3 DEF Refers
      <3> QED
        BY <2>3, <2>4, <2>5, <2>6, <3>1, <3>4 DEF DescriptorOK, Opened
    <2>10. PlacementOK'
      BY <1>1, <1>3, <2>4, <2>5, <2>6 DEF Inv, PlacementOK, Placed, Committing,
         Cleaning, Opened
    <2>11. Pending'
      BY <1>1, <1>3 DEF Pending
    <2>12. Vacated' => dir[at'].stage = 0
      BY <2>3, <2>4 DEF Vacated
    <2>13. \A f \in Files : f \in Synchronised' => f \in Synchronised
      BY <1>1, <2>4, <2>6 DEF Synchronised, Exchanged, Cleaning, Opened, Asking
    <2>14. \A f \in Files : f \in Tidied' => f \in Tidied
      BY <1>1, <2>4, <2>6, <2>11 DEF Tidied, Last, Activating, Exchanged, Placed,
         Cleaning, Opened
    <2>15. \A f \in Files : f \in Abortable' => f \in Abortable
      <3>1. Abortable' \subseteq (at + 1)..NumEdits
        BY <2>4 DEF Abortable, Before, Exchanged, Opened
      <3>2. rm.caller = "abort" => Abortable = at..NumEdits
        BY <1>1 DEF Abortable, Before, Exchanged
      <3>3. rm.caller # "abort" => Abortable' = {}
        BY <2>4, <2>6 DEF Abortable, Before, Exchanged
      <3> QED
        BY <1>1, <3>1, <3>2, <3>3, FileType, PathsAssumption
    <2>16. \A f \in Files : f \in Unmoved' => f \in Unmoved
      BY <1>1, <2>4, <2>6 DEF Unmoved, Before, Activating, Exchanged, Placed,
         Committing, Cleaning, Opened
    <2> QED
      BY <1>3, <2>4, <2>7, <2>8, <2>9, <2>10, <2>12, <2>13, <2>14, <2>15, <2>16,
         QuietStep
  <1>4. CASE CleanupFails /\ UNCHANGED fs
    BY <1>1, <1>4, QuietFailure
  <1> QED
    BY <1>2, <1>3, <1>4 DEF CleanOpen

\* A step of the cleanup of one stage.
LEMMA OpenedStep ==
    ASSUME Inv, pc \in Opened, pc' \in Opened, at' = at, Local(at), UNCHANGED rm,
           UNCHANGED <<db, orig, cand, unsure, seen, edits, history>>,
           dir'[at].target = dir[at].target,
           rm.caller # "recover" => disk'[at].slots["target"] = dir'[at].target,
           Vacated' => TidyEntry(dir[at].stage)' /\ dir'[at].stage # rm.fd
    PROVE  Inv'
  <1> USE DEF db, history
  <1>0. /\ Pending /\ journal.phase # "none" /\ FsOK /\ rm \in Removals
        /\ at \in Files /\ at \in Paths /\ pc \in Cleaning /\ pc' \in Cleaning
    BY PendingPhase, FileType DEF Inv, PlaceOK, MemoryOK, Opened, Cleaning
  <1>1. FsOK' /\ rm' \in Removals'
    BY <1>0, LocalFs, RemovalGrows
  <1>2. \A q \in Paths : q # at =>
           /\ dir'[q] = dir[q] /\ disk'[q].slots = disk[q].slots
           /\ Tidy(q)' <=> Tidy(q)
    BY <1>0, Elsewhere
  <1>3. MemoryOK'
    BY <1>0, <1>1 DEF Inv, MemoryOK, Places
  <1>4. PlaceOK'
    BY <1>0 DEF Inv, PlaceOK, Opened
  <1>5. DescriptorOK'
    <2>1. rm.fd # 0 /\ dir[at].target # rm.fd /\ \A p \in Paths : Refers(p, rm.fd) => p = at
      BY DEF Inv, DescriptorOK
    <2>2. \A p \in Paths : Refers(p, rm.fd)' => p = at
      BY <1>2, <2>1 DEF Refers
    <2>3. pc' \notin {"write", "mark"}
      BY DEF Opened
    <2> QED
      BY <2>1, <2>2, <2>3 DEF DescriptorOK, Vacated
  <1>6. PlacementOK'
    BY <1>0 DEF Inv, PlacementOK, Committing, Placed, Opened
  <1>7. Pending'
    BY <1>0 DEF Pending
  <1>8. at \in Nat /\ NumEdits \in Nat
    BY <1>0, FileType, PathsAssumption
  <1>9. /\ rm.caller = "recover" => Synchronised = 1..(at - 1)
        /\ rm.caller # "recover" => Synchronised = Files
        /\ Synchronised' = Synchronised
    BY <1>0 DEF Synchronised, Cleaning, Opened, Asking, Exchanged
  <1>10. SynchronisedOK'
    <2>1. CASE rm.caller # "recover"
      BY <1>2, <1>9, <2>1 DEF Inv, SynchronisedOK
    <2>2. CASE rm.caller = "recover"
      <3>1. at \notin 1..(at - 1)
        BY <1>8
      <3> QED
        BY <1>0, <1>2, <1>9, <2>2, <3>1 DEF Inv, SynchronisedOK
    <2> QED
      BY <2>1, <2>2
  <1>11. Tidied' = Tidied /\ Tidied \in {1..(at - 1), {}}
    BY <1>0, <1>7 DEF Tidied, Last, Activating, Exchanged, Placed, Cleaning, Opened
  <1>12. \A f \in Files : f \in Tidied' => f # at
    BY <1>8, <1>11
  <1>13. Abortable' = Abortable /\ Abortable \in {(at + 1)..NumEdits, {}}
    BY <1>0 DEF Abortable, Before, Exchanged, Cleaning, Opened
  <1>14. \A f \in Files : f \in Abortable' => f # at
    BY <1>8, <1>13
  <1>15. Unmoved' = Unmoved /\ Unmoved \in {(at + 1)..NumEdits, {}}
    BY <1>0 DEF Unmoved, Before, Activating, Exchanged, Placed, Committing, Cleaning,
       Opened
  <1>16. \A f \in Files : f \in Unmoved' => f # at
    BY <1>8, <1>15
  <1>17. \A f \in Files : f \in Tidied' => Tidy(f)'
    BY <1>2, <1>11, <1>12, FileType DEF Inv, StagesOK
  <1>18. \A f \in Files :
           f \in Abortable' /\ dir'[f].stage = 0 /\ dir'[f].remove = 0 => Tidy(f)'
    BY <1>2, <1>13, <1>14, FileType DEF Inv, StagesOK
  <1>19. \A f \in Files : f \in Unmoved' => dir'[f].remove = 0
    BY <1>2, <1>15, <1>16, FileType DEF Inv, StagesOK
  <1>20. pc' \notin {"confirm", "apply", "rollback", "exchange_back"}
    BY DEF Opened
  <1>21. StagesOK'
    BY <1>17, <1>18, <1>19, <1>20 DEF StagesOK
  <1> QED
    BY <1>1, <1>3, <1>4, <1>5, <1>6, <1>10, <1>21 DEF Inv

\* What is known while a stage is open for its removal.
LEMMA OpenedFacts ==
    ASSUME Inv, pc \in Opened
    PROVE  /\ FsOK /\ at \in Files /\ at \in Paths /\ Pending /\ rm \in Removals
           /\ pc \in Cleaning /\ rm.fd \in Ids /\ rm.fd # 0
           /\ \A q \in Paths : Refers(q, rm.fd) => q = at
           /\ dir[at].target # rm.fd
           /\ rm.caller # "recover" => disk[at].slots["target"] = dir[at].target
  <1>1. FsOK /\ at \in Files /\ at \in Paths /\ Pending /\ rm \in Removals
        /\ pc \in Cleaning
    BY PendingPhase, FileType DEF Inv, PlaceOK, MemoryOK, Opened, Cleaning
  <1>2. rm.caller # "recover" => Synchronised = Files
    BY <1>1 DEF Synchronised, Cleaning, Opened, Asking, Exchanged
  <1>3. rm.caller # "recover" => disk[at].slots["target"] = dir[at].target
    BY <1>1, <1>2 DEF Inv, SynchronisedOK
  <1> QED
    BY <1>1, <1>3 DEF Inv, DescriptorOK, Removals

LEMMA QuarantineStep == ASSUME Inv, Quarantine  PROVE Inv'
  <1> USE DEF db, mem, history
  <1>0. pc = "quarantine" /\ pc \in Opened
    BY DEF Quarantine, Opened
  <1>1. /\ FsOK /\ at \in Files /\ at \in Paths /\ pc \in Cleaning
        /\ rm.fd # 0
        /\ rm.caller # "recover" => disk[at].slots["target"] = dir[at].target
    BY <1>0, OpenedFacts
  <1>2. CASE CleanupFails /\ UNCHANGED fs
    BY <1>1, <1>2, QuietFailure
  <1>3. CASE /\ dir[at].stage # 0 /\ dir[at].remove = 0
             /\ Swap(at, "stage", "remove")
             /\ Goto("quarantined", at)
             /\ UNCHANGED <<disk, db, mem, edits, faults, history>>
    <2>1. pc' = "quarantined" /\ at' = at /\ pc' \in Opened
      BY <1>3 DEF Goto, Opened
    <2>2. /\ Local(at) /\ dir'[at].stage = 0 /\ dir'[at].target = dir[at].target
      BY <1>1, <1>3, SlotNames, SwapLocal
    <2>3. TidyEntry(dir[at].stage)' /\ dir'[at].stage # rm.fd
      BY <1>1, <2>1, <2>2 DEF TidyEntry
    <2>4. UNCHANGED <<rm, db, orig, cand, unsure, seen, edits, history>>
          /\ disk' = disk
      BY <1>3
    <2> QED
      BY <1>0, <1>1, <2>1, <2>2, <2>3, <2>4, OpenedStep
  <1> QED
    BY <1>2, <1>3 DEF Quarantine

LEMMA VerifyQuarantineStep == ASSUME Inv, VerifyQuarantine  PROVE Inv'
  <1> USE DEF db, mem, history
  <1>0. pc = "quarantined" /\ pc \in Opened
    BY DEF VerifyQuarantine, Opened
  <1>1. /\ FsOK /\ at \in Files /\ at \in Paths /\ pc \in Cleaning
        /\ rm.caller # "recover" => disk[at].slots["target"] = dir[at].target
    BY <1>0, OpenedFacts
  <1>2. CASE CleanupFails /\ UNCHANGED fs
    BY <1>1, <1>2, QuietFailure
  <1>3. CASE CleanupFails /\ Swap(at, "stage", "remove") /\ UNCHANGED disk
    <2>1. Local(at) /\ dir'[at].target = dir[at].target
      BY <1>1, <1>3, SlotNames, SwapLocal
    <2> QED
      BY <1>1, <1>3, <2>1, CleanupFailsStep
  <1>4. CASE Goto("scrub", at) /\ UNCHANGED <<fs, db, mem, edits, history>>
    <2>1. pc' = "scrub" /\ at' = at /\ pc' \in Opened
      BY <1>4 DEF Goto, Opened
    <2>2. Local(at) /\ dir' = dir /\ disk' = disk /\ inodes' = inodes
      BY <1>1, <1>4, StillLocal, Nowhere
    <2>3. TidyEntry(dir[at].stage) /\ dir[at].stage # rm.fd
      BY <1>0 DEF Inv, StagesOK, Vacated, DescriptorOK
    <2>4. TidyEntry(dir[at].stage)' /\ dir'[at].stage # rm.fd
      BY <2>1, <2>2, <2>3 DEF TidyEntry
    <2>5. UNCHANGED <<rm, db, orig, cand, unsure, seen, edits, history>>
      BY <1>4
    <2> QED
      BY <1>0, <1>1, <2>1, <2>2, <2>4, <2>5, OpenedStep
  <1> QED
    BY <1>2, <1>3, <1>4 DEF VerifyQuarantine

\* Scrubbing synchronises the inode, and the directory where fsync does so.
LEMMA ScrubLocal ==
    ASSUME FsOK, NEW p \in Paths, NEW i \in Ids, i # 0,
           \A q \in Paths : Refers(q, i) => q = p,
           ScrubOpenFile(p, i), UNCHANGED dir
    PROVE  /\ Local(p) /\ FsOK' /\ Len(inodes') = Len(inodes)
           /\ \A j \in 1..Len(inodes) : j # i => inodes'[j] = inodes[j]
           /\ inodes'[i].content = Empty
           /\ inodes'[i].stamp = inodes[i].stamp + 1
           /\ FsyncOrders => disk'[p].slots = dir[p]
           /\ disk'[p].slots \in {disk[p].slots, dir[p]}
  <1>1. inodes' = Write(i, Empty) /\ Empty \in Contents
    BY DEF ScrubOpenFile, Contents
  <1>2. CASE FsyncOrders
    <2>1. SyncDirectory(p)
      BY <1>2 DEF ScrubOpenFile, SyncDirectory
    <2> QED
      BY <1>1, <2>1, WriteLocal, SyncSlots
  <1>3. CASE ~FsyncOrders
    <2> DEFINE stamp == [s \in Slots |-> IF disk[p].slots[s] = i
                                         THEN inodes'[i].stamp
                                         ELSE disk[p].stamp[s]]
    <2>1. disk' = [disk EXCEPT ![p].stamp = stamp]
      BY <1>3 DEF ScrubOpenFile
    <2>2. inodes'[i].stamp \in Nat
      <3>1. Len(inodes) \in Nat /\ i \in 1..Len(inodes) /\ DOMAIN inodes = 1..Len(inodes)
        BY DEF FsOK, Ids
      <3>2. inodes[i] \in INode
        BY <3>1 DEF FsOK
      <3>3. inodes'[i] = [content |-> Empty, stamp |-> inodes[i].stamp + 1]
        BY <1>1, <3>1 DEF Write
      <3> QED
        BY <3>2, <3>3 DEF INode
    <2>3. disk[p] \in Disks /\ disk[p].stamp \in [Slots -> Nat]
      BY DEF FsOK, Disks
    <2>4. stamp \in [Slots -> Nat]
      BY <2>2, <2>3
    <2> HIDE DEF stamp
    <2>5. disk' = [disk EXCEPT ![p] = [disk[p] EXCEPT !.stamp = stamp]]
      BY <2>1
    <2>6. [disk[p] EXCEPT !.stamp = stamp] \in Disks
          /\ [disk[p] EXCEPT !.stamp = stamp].slots = disk[p].slots
      BY <2>3, <2>4 DEF Disks
    <2>7. disk' \in [Paths -> Disks]
      BY <2>5, <2>6 DEF FsOK
    <2>8. \A q \in Paths : disk'[q].slots = disk[q].slots
      BY <2>5, <2>6 DEF FsOK
    <2> QED
      BY <1>1, <1>3, <2>7, <2>8, WriteLocal
  <1> QED
    BY <1>2, <1>3

LEMMA ScrubStep == ASSUME Inv, Scrub  PROVE Inv'
  <1> USE DEF db, mem, history
  <1>0. pc = "scrub" /\ pc \in Opened
    BY DEF Scrub, Opened
  <1>1. /\ FsOK /\ at \in Files /\ at \in Paths /\ pc \in Cleaning
        /\ rm.fd \in Ids /\ rm.fd # 0
        /\ \A q \in Paths : Refers(q, rm.fd) => q = at
        /\ rm.caller # "recover" => disk[at].slots["target"] = dir[at].target
    BY <1>0, OpenedFacts
  <1>2. CASE CleanupFails /\ UNCHANGED fs
    BY <1>1, <1>2, QuietFailure
  <1>3. CASE /\ ScrubOpenFile(at, rm.fd) /\ UNCHANGED dir
             /\ Goto("unlink", at)
             /\ UNCHANGED <<db, mem, edits, faults, history>>
    <2>1. pc' = "unlink" /\ at' = at /\ pc' \in Opened
      BY <1>3 DEF Goto, Opened
    <2>2. /\ Local(at) /\ Len(inodes') = Len(inodes)
          /\ \A j \in 1..Len(inodes) : j # rm.fd => inodes'[j] = inodes[j]
          /\ disk'[at].slots \in {disk[at].slots, dir[at]}
      BY <1>1, <1>3, ScrubLocal
    <2>3. TidyEntry(dir[at].stage) /\ dir[at].stage # rm.fd
      BY <1>0 DEF Inv, StagesOK, Vacated, DescriptorOK
    <2>4. dir[at].stage \in Ids /\ Len(inodes) \in Nat
      BY <1>1, SlotNames DEF FsOK
    <2>5. TidyEntry(dir[at].stage)' /\ dir'[at].stage # rm.fd
      BY <1>3, <2>1, <2>2, <2>3, <2>4 DEF TidyEntry, Ids
    <2>6. UNCHANGED <<rm, db, orig, cand, unsure, seen, edits, history>>
          /\ dir'[at].target = dir[at].target
      BY <1>3
    <2>7. rm.caller # "recover" => disk'[at].slots["target"] = dir'[at].target
      BY <1>1, <1>3, <2>2
    <2> QED
      BY <1>0, <2>1, <2>2, <2>5, <2>6, <2>7, OpenedStep
  <1> QED
    BY <1>2, <1>3 DEF Scrub

LEMMA UnlinkStep == ASSUME Inv, Unlink  PROVE Inv'
  <1> USE DEF db, mem, history
  <1>0. pc = "unlink" /\ pc \in Opened
    BY DEF Unlink, Opened
  <1>1. /\ FsOK /\ at \in Files /\ at \in Paths /\ pc \in Cleaning
        /\ rm.caller # "recover" => disk[at].slots["target"] = dir[at].target
    BY <1>0, OpenedFacts
  <1>2. CASE CleanupFails /\ UNCHANGED fs
    BY <1>1, <1>2, QuietFailure
  <1>3. CASE /\ dir' = [dir EXCEPT ![at].remove = 0] /\ UNCHANGED inodes
             /\ \/ SyncDirectory(at) /\ Cleaned
                \/ CleanupFails /\ UNCHANGED disk
    <2>1. /\ Local(at) /\ dir'[at].remove = 0
          /\ dir'[at].target = dir[at].target /\ dir'[at].stage = dir[at].stage
      BY <1>1, <1>3, SlotNames, RemoveLocal
    <2>2. CASE CleanupFails /\ UNCHANGED disk
      BY <1>1, <2>1, <2>2, CleanupFailsStep
    <2>3. CASE SyncDirectory(at) /\ Cleaned
      <3>1. disk'[at].slots = dir'[at]
        BY <1>1, <2>3, SyncSlots
      <3>2. TidyEntry(dir[at].stage)
        BY <1>0 DEF Inv, StagesOK, Vacated
      <3>3. ASSUME NEW g \in Files, g = at  PROVE Tidy(g)'
        BY <1>3, <2>1, <3>1, <3>2, <3>3 DEF Tidy, TidyEntry
      <3>4. disk'[at].slots["target"] = dir'[at].target
        BY <3>1
      <3> QED
        BY <1>1, <2>1, <2>3, <3>3, <3>4, CleanedStep
    <2> QED
      BY <1>3, <2>2, <2>3
  <1> QED
    BY <1>2, <1>3 DEF Unlink

LEMMA ClearAbortedStep == ASSUME Inv, ClearAborted  PROVE Inv'
  <1> USE DEF db, mem, history
  <1>1. pc = "clear" /\ Pending /\ FsOK
    BY PendingPhase DEF ClearAborted, Inv, PlaceOK
  <1>2. CASE Refuse
    BY <1>1, <1>2, RefuseStep
  <1>3. CASE /\ ~rm.failed
             /\ journal' = NoJournal
             /\ Return
             /\ UNCHANGED <<fs, selection, edits, faults, history>>
    <2>1. FsOK' /\ dir' = dir /\ disk' = disk /\ \A q : Tidy(q)' <=> Tidy(q)
      BY <1>1, <1>3, Nowhere
    <2>2. Synchronised = Files /\ Tidied = Files
      BY <1>1, <1>3 DEF Synchronised, Tidied, Last, Asking, Cleaning, Opened, Exchanged
    <2>3. /\ \A p \in Paths : disk'[p].slots["target"] = dir'[p].target
          /\ \A f \in Files : Tidy(f)'
      BY <2>1, <2>2 DEF Inv, SynchronisedOK, StagesOK
    <2>4. /\ selection' \in [Paths -> Entries]
          /\ saved' \subseteq used' /\ used' \subseteq Works
      BY <1>3 DEF Inv, MemoryOK
    <2> QED
      BY <1>3, <2>1, <2>3, <2>4, ClearStep
  <1> QED
    BY <1>2, <1>3 DEF ClearAborted

-----------------------------------------------------------------------------
(* Recovery.                                                               *)

\* A resolution moves on; nothing is known of the stages yet.
LEMMA AskingStep ==
    ASSUME Inv, Pending, pc' \in Asking, at' = 1, UNCHANGED <<fs, db, rm>>,
           rm.caller = "commit", seen' \in [Paths -> Entries],
           UNCHANGED <<orig, cand, unsure, edits, history>>
    PROVE  Inv'
  <1> USE DEF db, history
  <1>1. journal.phase # "none" /\ Pending' /\ FsOK
    BY PendingPhase DEF Inv, Pending
  <1>2. Ids' = Ids
    BY <1>1, Nowhere
  <1>3. MemoryOK'
    BY <1>2, FirstFile DEF Inv, MemoryOK, Places, Removals
  <1>4. PlaceOK'
    BY <1>1 DEF Inv, PlaceOK, Asking
  <1>5. DescriptorOK' /\ PlacementOK'
    BY DEF DescriptorOK, PlacementOK, Opened, Placed, Committing, Cleaning, Asking
  <1>6. Synchronised' = {} /\ Tidied' = {} /\ Abortable' = {} /\ Unmoved' = {} /\ ~Vacated'
    BY <1>1 DEF Synchronised, Tidied, Abortable, Unmoved, Vacated, Asking, Before,
       Activating, Exchanged, Placed, Cleaning, Opened, Last, Committing
  <1>7. pc' \notin {"confirm", "apply", "rollback", "exchange_back"}
    BY DEF Asking
  <1> QED
    BY <1>3, <1>4, <1>5, <1>6, <1>7, QuietStep

LEMMA IdleCaller ==
    ASSUME Inv, pc \in {"idle"} \cup Asking
    PROVE  rm.caller = "commit"
  BY DEF Inv, MemoryOK, PlaceOK, Removals, Cleaning, Opened, Asking

LEMMA ResolveStep == ASSUME Inv, Resolve  PROVE Inv'
  <1> USE DEF db, mem, history
  <1>1. /\ pc = "idle" /\ Pending /\ pc' \in Asking /\ at' = 1
        /\ UNCHANGED <<fs, db, rm, orig, cand, unsure, edits, history>>
        /\ seen' \in {seen, Current}
    BY DEF Resolve, ResolveDiscard, ResolveCurrent, Goto, Asking
  <1>2. seen' \in [Paths -> Entries]
    BY <1>1, CurrentType DEF Inv, MemoryOK
  <1>3. rm.caller = "commit"
    BY <1>1, IdleCaller
  <1> QED
    BY <1>1, <1>2, <1>3, AskingStep

LEMMA ValidateCurrentStep == ASSUME Inv, ValidateCurrent  PROVE Inv'
  <1> USE DEF db, mem, history
  <1>1. pc = "validate" /\ Pending /\ rm.caller = "commit"
    BY PendingPhase, IdleCaller DEF ValidateCurrent, Inv, PlaceOK, Asking
  <1>2. CASE Refuse
    BY <1>1, <1>2, RefuseStep
  <1>3. CASE Goto("authorize_current", 1) /\ UNCHANGED <<fs, db, mem, edits, history>>
    <2>1. /\ pc' \in Asking /\ at' = 1 /\ seen' \in [Paths -> Entries]
          /\ UNCHANGED <<fs, db, rm, orig, cand, unsure, edits, history>>
      BY <1>3 DEF Goto, Asking, Inv, MemoryOK
    <2> QED
      BY <1>1, <2>1, AskingStep
  <1> QED
    BY <1>2, <1>3 DEF ValidateCurrent

\* The session guard agreed: cleanup begins with the first file.
LEMMA AuthorizedStep ==
    ASSUME Inv, pc \in Asking, rm' = [NoRemoval EXCEPT !.caller = "recover"],
           Goto("clean", 1),
           UNCHANGED <<fs, db, orig, cand, unsure, activated, seen, choice, edits,
                       history>>
    PROVE  Inv'
  <1> USE DEF db, history
  <1>1. journal.phase # "none" /\ Pending' /\ FsOK
    BY PendingPhase DEF Inv, Pending, PlaceOK, Asking
  <1>2. Ids' = Ids /\ FsOK'
    BY <1>1, Nowhere
  <1>3. pc' = "clean" /\ at' = 1
    BY DEF Goto
  <1>4. rm' \in Removals' /\ rm'.caller = "recover"
    BY <1>2, RemovalType DEF NoRemoval
  <1>5. MemoryOK'
    BY <1>3, <1>4, FirstFile DEF Inv, MemoryOK, Places, Cleaning
  <1>6. PlaceOK'
    BY <1>1, <1>3, <1>4 DEF Inv, PlaceOK, Cleaning
  <1>7. DescriptorOK' /\ PlacementOK'
    BY <1>3, <1>4 DEF DescriptorOK, PlacementOK, Opened, Placed, Committing
  <1>8. 1..(1 - 1) = {}
    OBVIOUS
  <1>9. Synchronised' = {} /\ Tidied' = {} /\ Abortable' = {} /\ Unmoved' = {} /\ ~Vacated'
    BY <1>1, <1>3, <1>4, <1>8 DEF Synchronised, Tidied, Abortable, Unmoved, Vacated,
       Asking, Before, Activating, Exchanged, Placed, Cleaning, Opened, Last, Committing
  <1> QED
    BY <1>3, <1>5, <1>6, <1>7, <1>9, QuietStep

LEMMA AuthorizeResolutionStep ==
    ASSUME Inv, AuthorizeDiscard \/ AuthorizeCurrent
    PROVE  Inv'
  <1>1. pc \in Asking /\ Pending
    BY PendingPhase DEF AuthorizeDiscard, AuthorizeCurrent, Inv, PlaceOK, Asking
  <1>2. CASE Refuse
    BY <1>1, <1>2, RefuseStep
  <1>3. CASE ~Refuse
    BY <1>1, <1>3, AuthorizedStep DEF AuthorizeDiscard, AuthorizeCurrent
  <1> QED
    BY <1>2, <1>3

LEMMA ClearDiscardedStep == ASSUME Inv, ClearDiscarded  PROVE Inv'
  <1> USE DEF db, mem, history
  <1>1. pc = "recheck_discard" /\ Pending /\ FsOK
    BY PendingPhase DEF ClearDiscarded, Inv, PlaceOK
  <1>2. CASE Refuse
    BY <1>1, <1>2, RefuseStep
  <1>3. CASE /\ journal' = NoJournal
             /\ Return
             /\ UNCHANGED <<fs, selection, edits, faults, history>>
    <2>1. FsOK' /\ dir' = dir /\ disk' = disk /\ \A q : Tidy(q)' <=> Tidy(q)
      BY <1>1, <1>3, Nowhere
    <2>2. Synchronised = Files /\ Tidied = Files
      BY <1>1, <1>3 DEF Synchronised, Tidied, Last, Asking, Cleaning, Opened, Exchanged
    <2>3. /\ \A p \in Paths : disk'[p].slots["target"] = dir'[p].target
          /\ \A f \in Files : Tidy(f)'
      BY <2>1, <2>2 DEF Inv, SynchronisedOK, StagesOK
    <2>4. /\ selection' \in [Paths -> Entries]
          /\ saved' \subseteq used' /\ used' \subseteq Works
      BY <1>3 DEF Inv, MemoryOK
    <2> QED
      BY <1>3, <2>1, <2>3, <2>4, ClearStep
  <1> QED
    BY <1>2, <1>3 DEF ClearDiscarded

LEMMA RecheckCurrentStep == ASSUME Inv, RecheckCurrent  PROVE Inv'
  <1> USE DEF db, mem, history
  <1>1. pc = "recheck_final" /\ Pending /\ journal.phase # "none" /\ FsOK
        /\ rm.caller = "recover"
    BY PendingPhase DEF RecheckCurrent, Inv, PlaceOK
  <1>2. CASE Refuse
    BY <1>1, <1>2, RefuseStep
  <1>3. CASE Goto("finalize", 1) /\ UNCHANGED <<fs, db, mem, edits, history>>
    <2>1. pc' = "finalize" /\ at' = 1
      BY <1>3 DEF Goto
    <2>2. Ids' = Ids
      BY <1>1, <1>3, Nowhere
    <2>3. MemoryOK'
      BY <1>3, <2>1, <2>2, FirstFile DEF Inv, MemoryOK, Places, Last, Removals
    <2>4. PlaceOK'
      BY <1>1, <1>3, <2>1 DEF Inv, PlaceOK
    <2>5. DescriptorOK' /\ PlacementOK'
      BY <2>1 DEF DescriptorOK, PlacementOK, Opened, Placed, Committing, Cleaning
    <2>6. Pending'
      BY <1>1, <1>3 DEF Pending
    <2> QED
      BY <1>1, <1>3, <2>1, <2>3, <2>4, <2>5, <2>6, QuietStep DEF Synchronised, Tidied,
         Abortable, Unmoved, Vacated, Before, Activating, Exchanged, Placed, Cleaning,
         Opened, Asking, Last, Committing
  <1> QED
    BY <1>2, <1>3 DEF RecheckCurrent

-----------------------------------------------------------------------------
(* Other host programs, the operator and the end of the process.           *)

ExternalSave(p, w) ==
    ExternalReplace(p, w) \/ ExternalWrite(p, w) \/ ExternalSubstitute(p, w)

\* A save moves no name of an inode that exists, and leaves work under the
\* name it was made for.
LEMMA SaveEffect ==
    ASSUME FsOK, NEW p \in Paths, NEW w \in Works, ExternalSave(p, w),
           SyncDirectory(p)
    PROVE  /\ Local(p) /\ FsOK' /\ disk'[p].slots = dir'[p]
           /\ dir[p].target # 0 => dir'[p].target # 0
           /\ dir[p].stage # 0 => dir'[p].stage # 0
           /\ dir'[p].remove = dir[p].remove
           /\ \A s \in Slots : dir'[p][s] = dir[p][s] \/ dir'[p][s] = Len(inodes) + 1
           /\ \A s \in Slots : dir'[p][s] # 0 /\ dir[p][s] = dir'[p][s] =>
                 inodes'[dir'[p][s]].content \in {w, inodes[dir[p][s]].content}
           /\ \A s \in Slots : dir'[p][s] # dir[p][s] =>
                 inodes'[dir'[p][s]].content = w
  <1>0. /\ dir[p] \in [Slots -> Ids] /\ w \in Contents /\ Len(inodes) \in Nat
        /\ disk' = disk \/ SyncDirectory(p)
    BY DEF FsOK, Contents
  <1>1. disk'[p].slots = dir'[p]
    BY SyncSlots
  <1>2. ASSUME NEW t \in {"target", "stage"},
               inodes' = Append(inodes, [content |-> w, stamp |-> 0]),
               dir' = [dir EXCEPT ![p][t] = Len(inodes) + 1]
        PROVE  /\ Local(p) /\ FsOK'
               /\ dir[p].target # 0 => dir'[p].target # 0
               /\ dir[p].stage # 0 => dir'[p].stage # 0
               /\ dir'[p].remove = dir[p].remove
               /\ \A s \in Slots : dir'[p][s] = dir[p][s] \/ dir'[p][s] = Len(inodes) + 1
               /\ \A s \in Slots : dir'[p][s] # 0 /\ dir[p][s] = dir'[p][s] =>
                     inodes'[dir'[p][s]].content \in {w, inodes[dir[p][s]].content}
               /\ \A s \in Slots : dir'[p][s] # dir[p][s] =>
                     inodes'[dir'[p][s]].content = w
    <2>1. t \in Slots /\ t # "remove"
      BY SlotNames
    <2>2. /\ Local(p) /\ FsOK'
          /\ dir'[p] = [dir[p] EXCEPT ![t] = Len(inodes) + 1]
          /\ \A i \in 1..Len(inodes) : inodes'[i] = inodes[i]
          /\ inodes'[Len(inodes) + 1].content = w
      BY <1>0, <1>2, <2>1, CreateLocal
    <2>3. /\ \A s \in Slots : s # t => dir'[p][s] = dir[p][s]
          /\ dir'[p][t] = Len(inodes) + 1
      BY <1>0, <2>1, <2>2
    <2>4. \A s \in Slots : dir[p][s] # 0 => dir[p][s] \in 1..Len(inodes)
      BY <1>0 DEF Ids
    <2>5. dir'[p].remove = dir[p].remove
      BY <2>1, <2>3, SlotNames
    <2>6. /\ dir[p].target # 0 => dir'[p].target # 0
          /\ dir[p].stage # 0 => dir'[p].stage # 0
      BY <1>0, <2>3, SlotNames
    <2>7. \A s \in Slots : dir'[p][s] # 0 /\ dir[p][s] = dir'[p][s] =>
             inodes'[dir'[p][s]].content \in {w, inodes[dir[p][s]].content}
      BY <2>2, <2>4
    <2> QED
      BY <2>2, <2>3, <2>5, <2>6, <2>7
  <1>3. CASE ExternalReplace(p, w) \/ ExternalSubstitute(p, w)
    BY <1>1, <1>2, <1>3 DEF ExternalReplace, ExternalSubstitute
  <1>4. CASE ExternalWrite(p, w)
    <2>1. dir[p].target # 0 /\ inodes' = Write(dir[p].target, w) /\ UNCHANGED dir
      BY <1>4 DEF ExternalWrite
    <2>2. dir[p].target \in Ids /\ Refers(p, dir[p].target)
      BY <1>0, <2>1, SlotNames DEF Refers
    <2>3. \A q \in Paths : Refers(q, dir[p].target) => q = p
      BY <2>2 DEF FsOK
    <2>4. /\ Local(p) /\ FsOK'
          /\ \A j \in 1..Len(inodes) : j # dir[p].target => inodes'[j] = inodes[j]
          /\ inodes'[dir[p].target].content = w
      BY <1>0, <2>1, <2>2, <2>3, WriteLocal
    <2>5. \A s \in Slots : dir[p][s] # 0 => dir[p][s] \in 1..Len(inodes)
      BY <1>0 DEF Ids
    <2>6. \A s \in Slots : dir'[p][s] # 0 =>
             inodes'[dir'[p][s]].content \in {w, inodes[dir[p][s]].content}
      BY <2>1, <2>4, <2>5
    <2> QED
      BY <1>1, <2>1, <2>4, <2>6
  <1> QED
    BY <1>3, <1>4 DEF ExternalSave

LEMMA ExternalStep == ASSUME Inv, External  PROVE Inv'
  <1> USE DEF db, mem, history
  <1>1. PICK p \in Paths, w \in Works \ used :
          /\ ExternalSave(p, w) /\ SyncDirectory(p) /\ used' = used \cup {w}
          /\ UNCHANGED <<db, pc, at, mem, edits, faults, adopted, restored>>
    BY DEF External, ExternalSave
  <1>2. FsOK /\ at \in Files /\ at \in Paths /\ rm \in Removals
        /\ Len(inodes) \in Nat /\ w \in Works
    <2>1. FsOK /\ at \in Files /\ rm \in Removals
      BY DEF Inv, MemoryOK
    <2>2. Len(inodes) \in Nat
      BY <2>1 DEF FsOK
    <2> QED
      BY <2>1, <2>2, FileType
  <1>3. /\ Local(p) /\ FsOK' /\ disk'[p].slots = dir'[p]
        /\ dir[p].target # 0 => dir'[p].target # 0
        /\ dir[p].stage # 0 => dir'[p].stage # 0
        /\ dir'[p].remove = dir[p].remove
        /\ \A s \in Slots : dir'[p][s] = dir[p][s] \/ dir'[p][s] = Len(inodes) + 1
        /\ \A s \in Slots : dir'[p][s] # 0 /\ dir[p][s] = dir'[p][s] =>
              inodes'[dir'[p][s]].content \in {w, inodes[dir[p][s]].content}
        /\ \A s \in Slots : dir'[p][s] # dir[p][s] => inodes'[dir'[p][s]].content = w
    BY <1>1, <1>2, SaveEffect
  <1>4. \A q \in Paths : q # p =>
           /\ dir'[q] = dir[q] /\ disk'[q].slots = disk[q].slots
           /\ Tidy(q)' <=> Tidy(q)
    BY <1>2, <1>3, Elsewhere
  <1>5. saved' \subseteq used'
    BY <1>1 DEF ExternalSave, ExternalReplace, ExternalWrite, ExternalSubstitute, Inv,
       MemoryOK
  <1>6. rm' \in Removals'
    BY <1>1, <1>2, <1>3, RemovalGrows
  <1>7. MemoryOK'
    BY <1>1, <1>5, <1>6 DEF Inv, MemoryOK
  <1>8. PlaceOK'
    BY <1>1 DEF Inv, PlaceOK
  <1>9. rm.fd \in Ids /\ rm.fd # Len(inodes) + 1
    BY <1>2 DEF Removals, Ids
  <1>10. \A s \in Slots : dir'[p][s] = rm.fd => dir[p][s] = rm.fd
    BY <1>3, <1>9
  <1>11. \A q \in Paths : Refers(q, rm.fd)' => Refers(q, rm.fd)
    BY <1>1, <1>3, <1>4, <1>10 DEF Refers
  <1>12. DescriptorOK'
    <2>1. at' = at /\ pc' = pc /\ rm' = rm
      BY <1>1
    <2>2. \A s \in Slots : dir'[at][s] = rm.fd => dir[at][s] = rm.fd
      BY <1>4, <1>10, <1>2
    <2>3. dir[at].stage # 0 => dir'[at].stage # 0
      BY <1>3, <1>4, <1>2
    <2>4. \A s \in Slots : disk'[at].slots[s] = rm.fd =>
             dir[at][s] = rm.fd \/ disk[at].slots[s] = rm.fd
      BY <1>3, <1>4, <1>10, <1>2
    <2> QED
      BY <1>11, <2>1, <2>2, <2>3, <2>4, SlotNames DEF Inv, DescriptorOK
  <1>13. dir[at].target # 0 => dir'[at].target # 0
    BY <1>2, <1>3, <1>4
  <1>14. PlacementOK'
    BY <1>1, <1>13 DEF Inv, PlacementOK, Committing
  <1>15. Pending' = Pending /\ at' = at /\ pc' = pc /\ rm' = rm /\ orig' = orig
    BY <1>1 DEF Pending
  <1>16. Synchronised' = Synchronised /\ Tidied' = Tidied /\ Abortable' = Abortable
         /\ Unmoved' = Unmoved /\ (Vacated' <=> Vacated) /\ (Existed(at)' <=> Existed(at))
    BY <1>15 DEF Synchronised, Tidied, Abortable, Unmoved, Vacated, Existed, Committing
  <1>17. SynchronisedOK'
    BY <1>3, <1>4, <1>16 DEF Inv, SynchronisedOK
  <1>18. \A s \in Slots : dir'[p][s] # 0 /\ (dir[p][s] # 0 => inodes[dir[p][s]].content \in Works)
            => inodes'[dir'[p][s]].content \in Works
    BY <1>2, <1>3
  <1>19. ASSUME NEW f \in Paths, f = p,
                TidyEntry(dir[f].stage) /\ TidyEntry(dir[f].remove)
         PROVE  Tidy(f)'
    BY <1>3, <1>18, <1>19, SlotNames DEF Tidy, TidyEntry
  <1>20. \A f \in Paths : Tidy(f) => Tidy(f)'
    BY <1>4, <1>19 DEF Tidy
  <1>21. \A f \in Files : f \in Tidied' => Tidy(f)'
    BY <1>16, <1>20, FileType DEF Inv, StagesOK
  <1>22. \A f \in Files :
            f \in Abortable' /\ dir'[f].stage = 0 /\ dir'[f].remove = 0 => Tidy(f)'
    <2> SUFFICES ASSUME NEW f \in Files, f \in Abortable', dir'[f].stage = 0,
                        dir'[f].remove = 0
                 PROVE  Tidy(f)'
      OBVIOUS
    <2>1. dir[f].stage = 0 /\ dir[f].remove = 0
      BY <1>3, <1>4, FileType
    <2> QED
      BY <1>16, <1>20, <2>1, FileType DEF Inv, StagesOK
  <1>23. \A f \in Files : f \in Unmoved' => dir'[f].remove = 0
    BY <1>3, <1>4, <1>16, FileType DEF Inv, StagesOK
  <1>24. Vacated' => TidyEntry(dir[at].stage)'
    <2>1. Vacated => TidyEntry(dir[at].stage)
      BY DEF Inv, StagesOK
    <2>2. at = p => (TidyEntry(dir[at].stage) => TidyEntry(dir[at].stage)')
      BY <1>15, <1>18, SlotNames DEF TidyEntry
    <2>3. at # p => Entry(at, "stage")' = Entry(at, "stage") /\ dir'[at].stage = dir[at].stage
      <3> SUFFICES ASSUME at # p
                   PROVE  Entry(at, "stage")' = Entry(at, "stage")
                          /\ dir'[at].stage = dir[at].stage
        OBVIOUS
      <3>1. \A q \in Paths : q # p => Entry(q, "stage")' = Entry(q, "stage")
        BY <1>2, <1>3, Elsewhere, SlotNames
      <3> QED
        BY <1>2, <1>4, <1>15, <3>1 DEF Entry, Stat
    <2>4. at # p => (TidyEntry(dir[at].stage) => TidyEntry(dir[at].stage)')
      BY <1>15, <2>3 DEF TidyEntry, Entry, Stat
    <2> QED
      BY <1>16, <2>1, <2>2, <2>4
  <1>25. pc' \in {"confirm", "apply"} /\ ~Existed(at)' => Tidy(at)'
    <2>1. pc \in {"confirm", "apply"} /\ ~Existed(at) => Tidy(at)
      BY DEF Inv, StagesOK
    <2>2. Tidy(at) => Tidy(at)'
      BY <1>2, <1>15, <1>20 DEF Tidy, TidyEntry
    <2> QED
      BY <1>15, <1>16, <2>1, <2>2
  <1>26. StagesOK'
    BY <1>15, <1>16, <1>21, <1>22, <1>23, <1>24, <1>25 DEF Inv, StagesOK
  <1> QED
    BY <1>3, <1>7, <1>8, <1>12, <1>14, <1>17, <1>26 DEF Inv

LEMMA HostCleanupStep == ASSUME Inv, HostCleanup  PROVE Inv'
  <1> USE DEF db, mem, history
  <1>1. PICK f \in Files, s \in {"stage", "remove"} :
          /\ dir[f][s] # 0
          /\ dir' = [dir EXCEPT ![f][s] = 0]
          /\ UNCHANGED inodes /\ SyncDirectory(f)
          /\ saved' = saved \ {Entry(f, s).content}
    BY DEF HostCleanup
  <1>2. /\ pc = "idle" /\ Pending /\ FsOK /\ f \in Paths /\ s \in Slots
        /\ UNCHANGED <<db, pc, at, mem, edits, faults, used, adopted>>
    BY <1>1, FileType, SlotNames DEF HostCleanup, Inv
  <1>3. Local(f) /\ FsOK'
    BY <1>1, <1>2, RemoveLocal
  <1>4. \A q \in Paths : q # f => dir'[q] = dir[q] /\ disk'[q].slots = disk[q].slots
    BY <1>2, <1>3, Elsewhere
  <1>5. Ids' = Ids /\ Pending'
    BY <1>1, <1>2 DEF Ids, Pending
  <1>6. MemoryOK'
    BY <1>1, <1>2, <1>5 DEF Inv, MemoryOK, Removals
  <1>7. PlaceOK'
    BY <1>2 DEF Inv, PlaceOK
  <1>8. DescriptorOK' /\ PlacementOK'
    BY <1>2 DEF DescriptorOK, PlacementOK, Opened, Placed, Committing, Cleaning
  <1>9. SynchronisedOK'
    <2>1. Synchronised' = {}
      BY <1>2, <1>5 DEF Synchronised
    <2> QED
      BY <1>4, <2>1 DEF Inv, SynchronisedOK
  <1>10. StagesOK'
    BY <1>2, <1>5 DEF StagesOK, Tidied, Abortable, Unmoved, Vacated, Last, Before,
       Activating, Exchanged, Placed, Cleaning, Opened, Committing
  <1> QED
    BY <1>3, <1>6, <1>7, <1>8, <1>9, <1>10 DEF Inv

\* Without a journal nothing is staged and every directory is synchronised.
LEMMA Unjournaled ==
    ASSUME Inv, ~Pending
    PROVE  /\ pc \in {"idle", "prepare"}
           /\ \A p \in Paths : disk[p].slots["target"] = dir[p].target
           /\ \A f \in Files : Tidy(f)
  <1>1. pc \in {"idle", "prepare"}
    BY DEF Inv, PlaceOK, Pending, NoJournal
  <1>2. Synchronised = Files /\ Tidied = Files
    BY <1>1 DEF Synchronised, Tidied, Asking, Cleaning, Opened, Exchanged
  <1> QED
    BY <1>1, <1>2 DEF Inv, SynchronisedOK, StagesOK

LEMMA CrashStep == ASSUME Inv, Crash  PROVE Inv'
  <1> USE DEF db, history
  <1>1. Return /\ UNCHANGED <<fs, db, edits, history>> /\ FsOK
    BY DEF Crash, Inv
  <1>2. CASE Pending
    BY <1>1, <1>2, RefuseStep DEF Refuse
  <1>3. CASE ~Pending
    <2>1. FsOK' /\ dir' = dir /\ disk' = disk /\ \A q : Tidy(q)' <=> Tidy(q)
      BY <1>1, Nowhere
    <2>2. /\ \A p \in Paths : disk'[p].slots["target"] = dir'[p].target
          /\ \A f \in Files : Tidy(f)'
      BY <1>3, <2>1, Unjournaled
    <2>3. /\ selection' \in [Paths -> Entries] /\ journal' = NoJournal
          /\ saved' \subseteq used' /\ used' \subseteq Works
      BY <1>1, <1>3 DEF Inv, MemoryOK, Pending
    <2> QED
      BY <1>1, <2>1, <2>2, <2>3, ClearStep
  <1> QED
    BY <1>2, <1>3

LEMMA PowerFailureStep == ASSUME Inv, PowerFailure  PROVE Inv'
  <1> USE DEF db, history
  <1>1. Return /\ UNCHANGED <<db, edits, history>> /\ FsOK
    BY DEF PowerFailure, Inv
  <1>2. /\ FsOK' /\ Len(inodes') = Len(inodes)
        /\ \A p \in Paths :
              /\ dir'[p] \in {dir[p], disk[p].slots}
              /\ disk'[p].slots = dir'[p]
        /\ \A i \in 1..Len(inodes) : inodes'[i].content = inodes[i].content
    BY <1>1, PowerFailureFs
  <1>3. \A p \in Paths : disk'[p].slots["target"] = dir'[p].target
    BY <1>2
  <1>4. CASE Pending
    <2>1. \A p \in Paths : p \notin Files => disk'[p].slots["target"] = dir'[p].target
      BY <1>3
    <2>2. FsOK'
      BY <1>2
    <2> QED
      BY <1>1, <1>4, <2>1, <2>2, ReturnStep
  <1>5. CASE ~Pending
    <2>1. ASSUME NEW f \in Files  PROVE Tidy(f)'
      <3>1. Tidy(f) /\ f \in Paths
        BY <1>5, Unjournaled, FileType
      <3>2. dir[f] \in [Slots -> Ids] /\ disk[f].slots \in [Slots -> Ids]
        BY <1>1, <3>1 DEF FsOK, Disks
      <3>3. \A s \in Slots : \A i \in {dir[f][s], disk[f].slots[s]} :
               i # 0 => inodes'[i].content = inodes[i].content
        BY <1>1, <1>2, <3>2 DEF Ids, FsOK
      <3>4. \A s \in {"stage", "remove"} : \A i \in {dir[f][s], disk[f].slots[s]} :
               i # 0 => inodes'[i].content \in Works
        BY <3>1, <3>3, SlotNames DEF Tidy, TidyEntry
      <3>5. dir'[f] \in {dir[f], disk[f].slots} /\ disk'[f].slots = dir'[f]
        BY <1>2, <3>1
      <3>6. \A s \in {"stage", "remove"} : \A i \in {dir'[f][s], disk'[f].slots[s]} :
               i # 0 => inodes'[i].content \in Works
        BY <3>4, <3>5
      <3> QED
        BY <3>6 DEF Tidy, TidyEntry
    <2>2. /\ selection' \in [Paths -> Entries] /\ journal' = NoJournal
          /\ saved' \subseteq used' /\ used' \subseteq Works
      BY <1>1, <1>5 DEF Inv, MemoryOK, Pending
    <2> QED
      BY <1>1, <1>2, <1>3, <2>1, <2>2, ClearStep
  <1> QED
    BY <1>4, <1>5

-----------------------------------------------------------------------------
(* The invariant, and what it says of every behaviour.                     *)

LEMMA InitInv == Init => Inv
  <1> SUFFICES ASSUME Init  PROVE Inv
    OBVIOUS
  <1> USE DEF Init
  <1>1. NumPaths \in Nat /\ Paths = 1..NumPaths /\ Files \subseteq Paths
    BY PathsAssumption, FileType DEF Paths
  <1>2. 0 \in Contents /\ Empty \in Contents
    BY PathsAssumption DEF Contents
  <1>3. [content |-> 0, stamp |-> 0] \in INode
    BY <1>2 DEF INode
  <1>4. inodes \in Seq(INode) /\ Len(inodes) = NumPaths
    <2>1. inodes \in [1..NumPaths -> INode]
      BY <1>3
    <2> QED
      BY <1>1, <2>1
  <1>5. Ids = 0..NumPaths
    BY <1>4 DEF Ids
  <1>6. /\ dir \in [Paths -> [Slots -> Ids]] /\ disk \in [Paths -> Disks]
    BY <1>1, <1>5 DEF Disks
  <1>7. \A p \in Paths :
           /\ disk[p].slots = dir[p] /\ dir[p].stage = 0 /\ dir[p].remove = 0
           /\ dir[p].target \in {0, p}
    BY SlotNames
  <1>8. \A p \in Paths : \A i : Refers(p, i) => i = p
    BY <1>7 DEF Refers, Slots
  <1>9. \A p \in Paths : OneName(dir[p]) /\ OneName(disk[p].slots)
    BY <1>7 DEF OneName, Slots
  <1>10. FsOK
    BY <1>4, <1>6, <1>8, <1>9 DEF FsOK
  <1>11. selection \in [Paths -> Entries]
    <2>1. \A p \in Paths : Entry(p, "target") \in Entries
      BY <1>10, EntryFacts, SlotNames
    <2>2. \A p \in Paths : Identity(Entry(p, "target")) \in Entries
      BY <1>2, <2>1 DEF Identity, Entries
    <2> QED
      BY <2>2, EntryTypes
  <1>12. rm \in Removals /\ rm.caller = "commit"
    BY <1>5, <1>1 DEF Removals, NoRemoval
  <1>13. MemoryOK
    <2>1. edits \in 0..MaxEdits /\ at \in Files /\ unsure \subseteq Files
      BY FirstFile, PathsAssumption
    <2>2. journal \in [phase : Phases, files : [Files -> FileRecords]]
      BY JournalType
    <2>3. /\ seen \in [Paths -> Entries] /\ orig \in [Paths -> Entries]
          /\ cand \in [Paths -> Entries]
      BY EntryTypes
    <2> QED
      BY <1>11, <1>12, <2>1, <2>2, <2>3 DEF MemoryOK, Places
  <1>14. PlaceOK /\ DescriptorOK /\ PlacementOK
    BY <1>12 DEF PlaceOK, DescriptorOK, PlacementOK, Opened, Placed, Committing, Cleaning
  <1>15. SynchronisedOK
    BY <1>7 DEF SynchronisedOK
  <1>16. \A f \in Files : Tidy(f)
    BY <1>1, <1>7, SlotNames DEF Tidy, TidyEntry
  <1>17. StagesOK
    <2>1. Unmoved = {} /\ ~Vacated
      BY DEF Unmoved, Vacated, Before, Activating, Exchanged, Placed, Cleaning, Opened,
         Committing
    <2> QED
      BY <1>16, <2>1 DEF StagesOK
  <1> QED
    BY <1>10, <1>13, <1>14, <1>15, <1>17 DEF Inv

LEMMA StutterStep == ASSUME Inv, UNCHANGED vars  PROVE Inv'
  <1> USE DEF vars
  <1>1. UNCHANGED fs /\ Ids' = Ids
    BY DEF fs, Ids
  <1>2. MemoryOK'
    BY <1>1 DEF Inv, MemoryOK, Removals
  <1>3. PlaceOK'
    BY DEF Inv, PlaceOK
  <1>4. DescriptorOK' /\ PlacementOK'
    BY DEF Inv, DescriptorOK, PlacementOK, Refers, Committing
  <1>5. Synchronised' = Synchronised /\ Tidied' = Tidied /\ Abortable' = Abortable
        /\ Unmoved' = Unmoved /\ (Vacated' <=> Vacated) /\ (Existed(at)' <=> Existed(at))
    BY DEF Synchronised, Tidied, Abortable, Unmoved, Vacated, Existed, Committing, Pending
  <1> QED
    BY <1>1, <1>2, <1>3, <1>4, <1>5, QuietStep DEF Inv, StagesOK

LEMMA NextStep == ASSUME Inv, [Next]_vars  PROVE Inv'
  <1>1. CASE Staging
    BY <1>1, CreateJournalStep, StageCreateStep, StageWriteStep, MarkCandidateStep
       DEF Staging
  <1>2. CASE Activation
    BY <1>2, RecheckStagedStep, EnterReplacingStep, AuthorizeStep, RenameStep,
       VerifyActiveStep, CheckRollbackStep, ExchangeBackStep, MarkPlacementStep,
       SyncActiveStep, ConfirmActiveStep, MarkAppliedStep, EnterFinalizingStep,
       InspectCommittedStep, FinalizeEditStep DEF Activation
  <1>3. CASE Cleanup
    BY <1>3, DiscardPreparedStep, CleanOpenStep, QuarantineStep, VerifyQuarantineStep,
       ScrubStep, UnlinkStep, ClearAbortedStep DEF Cleanup
  <1>4. CASE Recovery
    BY <1>4, AuthorizeResolutionStep, ClearDiscardedStep, ValidateCurrentStep,
       RecheckCurrentStep DEF Recovery
  <1>5. CASE UNCHANGED vars
    BY <1>5, StutterStep
  <1> QED
    BY <1>1, <1>2, <1>3, <1>4, <1>5, BeginStep, StageFailsStep, ResolveStep,
       ExternalStep, HostCleanupStep, CrashStep, PowerFailureStep DEF Next, Service

\* Everything the later theorems rest on holds in every reachable state.
THEOREM Invariance == Spec => []Inv
  <1>1. Inv /\ [Next]_vars => Inv'
    BY NextStep
  <1> QED
    BY InitInv, <1>1, PTL DEF Spec

\* The shape of the state is kept by every step of every actor.
THEOREM TypeTheorem == Spec => []TypeOK
  <1>1. Inv => TypeOK
    <2> SUFFICES ASSUME Inv  PROVE TypeOK
      OBVIOUS
    <2>a. inodes \in Seq(INode)
      BY DEF Inv, FsOK
    <2>1. \A i \in DOMAIN inodes : inodes[i] \in [content : Contents, stamp : Nat]
      BY <2>a, ElementOfSeq, LenProperties DEF INode
    <2>2. /\ dir \in [Paths -> [Slots -> 0..Len(inodes)]]
          /\ \A p \in Paths : disk[p].slots \in [Slots -> 0..Len(inodes)]
      BY DEF Inv, FsOK, Disks, Ids
    <2>3. /\ journal.phase \in Phases
          /\ journal.files \in [Files -> FileRecords]
      BY DEF Inv, MemoryOK
    <2> QED
      BY <2>1, <2>2, <2>3 DEF Inv, MemoryOK, TypeOK, FileRecords
  <1> QED
    BY Invariance, <1>1, PTL

\* Nothing confidential is left behind unrecorded: whenever Commit, its abort
\* or a recovery has cleared the journal, no stage or quarantine name holds a
\* candidate or an original, in memory or on disk, whatever failed before.
THEOREM StagesTheorem == Spec => []StagesJournaled
  <1>1. Inv => StagesJournaled
    <2> SUFFICES ASSUME Inv, ~Pending, NEW f \in Files, NEW s \in {"stage", "remove"},
                        NEW i \in {dir[f][s], disk[f].slots[s]}, i # 0
                 PROVE  inodes[i].content \in Works
      BY DEF StagesJournaled
    <2> QED
      BY Unjournaled DEF Tidy, TidyEntry
  <1> QED
    BY Invariance, <1>1, PTL

\* scrubOpenFile of Commit runs only on a file whose replacement the journal
\* records as applied and the disk already shows under the active name.
THEOREM DestroyedTheorem == Spec => DestroyedAfterApplied
  <1>1. Inv => (rm.caller = "commit" /\ pc = "scrub" /\ pc' = "unlink" =>
                  /\ journal.files[at].applied
                  /\ disk[at].slots["target"] \notin {0, rm.fd})
    <2> SUFFICES ASSUME Inv, rm.caller = "commit", pc = "scrub"
                 PROVE  /\ journal.files[at].applied
                        /\ disk[at].slots["target"] \notin {0, rm.fd}
      OBVIOUS
    <2>1. Committing /\ at \in Files /\ at \in Paths
      BY FileType DEF Committing, Cleaning, Opened, Inv, MemoryOK
    <2>2. Synchronised = Files
      BY DEF Synchronised, Asking, Exchanged
    <2>3. disk[at].slots["target"] = dir[at].target
      BY <2>1, <2>2 DEF Inv, SynchronisedOK
    <2>4. dir[at].target # 0 /\ dir[at].target # rm.fd /\ journal.files[at].applied
      BY <2>1 DEF Inv, PlacementOK, DescriptorOK, Opened
    <2> QED
      BY <2>3, <2>4
  <1> QED
    BY Invariance, <1>1, PTL DEF DestroyedAfterApplied

\* Every active file keeps its name and its inode as it is.
ActiveKept ==
    \A p \in Paths :
        /\ dir'[p].target = dir[p].target
        /\ dir[p].target # 0 => inodes'[dir[p].target] = inodes[dir[p].target]

LEMMA LocalKept ==
    ASSUME FsOK, NEW p \in Paths, Local(p), dir'[p].target = dir[p].target,
           dir[p].target # 0 => inodes'[dir[p].target] = inodes[dir[p].target]
    PROVE  ActiveKept
  <1> SUFFICES ASSUME NEW q \in Paths
               PROVE  /\ dir'[q].target = dir[q].target
                      /\ dir[q].target # 0 =>
                            inodes'[dir[q].target] = inodes[dir[q].target]
    BY DEF ActiveKept
  <1>1. CASE q = p
    BY <1>1
  <1>2. CASE q # p
    <2>1. dir[q].target \in Ids /\ (dir[q].target # 0 => Refers(q, dir[q].target))
      BY SlotNames DEF FsOK, Refers
    <2> QED
      BY <1>2, <2>1 DEF Local
  <1> QED
    BY <1>1, <1>2

LEMMA QuietKept == ASSUME UNCHANGED <<inodes, dir>>  PROVE ActiveKept
  BY DEF ActiveKept

\* The names of staged files are exchanged.
LEMMA SwapKept ==
    ASSUME FsOK, NEW p \in Paths, Swap(p, "stage", "remove"), UNCHANGED disk
    PROVE  ActiveKept
  <1>1. /\ Local(p) /\ dir'[p].target = dir[p].target
        /\ \A i \in 1..Len(inodes) : i \notin {dir[p].stage, dir[p].remove} =>
              inodes'[i] = inodes[i]
    BY SwapLocal, SlotNames
  <1>2. dir[p].target \in Ids /\ Len(inodes) \in Nat
    BY SlotNames DEF FsOK
  <1>3. dir[p].target # 0 => dir[p].target \notin {dir[p].stage, dir[p].remove}
    BY SlotNames DEF FsOK, OneName
  <1> QED
    BY <1>1, <1>2, <1>3, LocalKept DEF Ids

LEMMA CleanupKept ==
    ASSUME Inv, CleanOpen \/ Quarantine \/ VerifyQuarantine \/ Scrub \/ Unlink
    PROVE  ActiveKept
  <1>1. FsOK /\ at \in Paths /\ rm.fd \in Ids
    BY FileType DEF Inv, MemoryOK, Removals
  <1>2. CASE CleanOpen
    BY <1>2, QuietKept DEF CleanOpen, fs
  <1>3. CASE Quarantine
    <2>1. (Swap(at, "stage", "remove") /\ UNCHANGED disk) \/ UNCHANGED fs
      BY <1>3 DEF Quarantine
    <2> QED
      BY <1>1, <2>1, SwapKept, QuietKept DEF fs
  <1>4. CASE VerifyQuarantine
    <2>1. (Swap(at, "stage", "remove") /\ UNCHANGED disk) \/ UNCHANGED fs
      BY <1>4 DEF VerifyQuarantine
    <2> QED
      BY <1>1, <2>1, SwapKept, QuietKept DEF fs
  <1>5. CASE Scrub
    <2>1. CASE ScrubOpenFile(at, rm.fd) /\ UNCHANGED dir
      <3>1. /\ rm.fd # 0 /\ dir[at].target # rm.fd
            /\ \A q \in Paths : Refers(q, rm.fd) => q = at
        BY <1>5 DEF Scrub, Inv, DescriptorOK, Opened
      <3>2. /\ Local(at)
            /\ \A j \in 1..Len(inodes) : j # rm.fd => inodes'[j] = inodes[j]
        BY <1>1, <2>1, <3>1, ScrubLocal
      <3>3. dir[at].target # 0 => dir[at].target \in 1..Len(inodes)
        BY <1>1, SlotNames DEF FsOK, Ids
      <3> QED
        BY <1>1, <2>1, <3>1, <3>2, <3>3, LocalKept
    <2>2. CASE UNCHANGED fs
      BY <2>2, QuietKept DEF fs
    <2> QED
      BY <1>5, <2>1, <2>2 DEF Scrub
  <1>6. CASE Unlink
    <2>1. CASE dir' = [dir EXCEPT ![at].remove = 0] /\ UNCHANGED inodes
      <3>1. \A p \in Paths : dir'[p].target = dir[p].target
        BY <1>1, <2>1, SlotNames DEF FsOK
      <3> QED
        BY <2>1, <3>1 DEF ActiveKept
    <2>2. CASE UNCHANGED fs
      BY <2>2, QuietKept DEF fs
    <2> QED
      BY <1>6, <2>1, <2>2 DEF Unlink
  <1> QED
    BY <1>2, <1>3, <1>4, <1>5, <1>6

\* Only a fault is counted as one.
LEMMA FaultStep == ASSUME [Next]_vars  PROVE faults' \in {faults, faults + 1}
  <1> USE DEF Fault
  <1>1. CASE Staging
    BY <1>1 DEF Staging, CreateJournal, StageCreate, StageWrite, MarkCandidate
  <1>2. CASE Activation
    BY <1>2 DEF Activation, RecheckStaged, EnterReplacing, Authorize, Rename,
       VerifyActive, CheckRollback, ExchangeBack, MarkPlacement, SyncActive,
       ConfirmActive, MarkApplied, EnterFinalizing, InspectCommitted, FinalizeEdit
  <1>3. CASE Cleanup
    BY <1>3 DEF Cleanup, DiscardPrepared, CleanOpen, Quarantine, VerifyQuarantine,
       Scrub, Unlink, ClearAborted
  <1>4. CASE Recovery
    BY <1>4 DEF Recovery, AuthorizeDiscard, ClearDiscarded, ValidateCurrent,
       AuthorizeCurrent, RecheckCurrent
  <1>5. CASE Begin \/ StageFails \/ Resolve \/ External \/ HostCleanup \/ Crash
    BY <1>5 DEF Begin, StageFails, Resolve, ResolveDiscard, ResolveCurrent, External,
       HostCleanup, Crash
  <1>6. CASE PowerFailure
    BY <1>6 DEF PowerFailure
  <1>7. CASE UNCHANGED vars
    BY <1>7 DEF vars
  <1> QED
    BY <1>1, <1>2, <1>3, <1>4, <1>5, <1>6, <1>7 DEF Next, Service

LEMMA FaultsCounted == Spec => [](faults \in Nat)
  <1>1. Init => faults \in Nat
    BY DEF Init
  <1>2. faults \in Nat /\ [Next]_vars => (faults \in Nat)'
    BY FaultStep
  <1> QED
    BY <1>1, <1>2, PTL DEF Spec

\* Discarding, finalising and adopting an interrupted edit leave every active
\* file in place, with its bytes and times: recovery never replays an edit.
THEOREM RecoveryTheorem == Spec => RecoveryKeepsActive
  <1>1. Inv /\ faults \in Nat /\ [Next]_vars =>
          [rm.caller = "recover" /\ pc # "idle" /\ used' = used /\ faults' = faults =>
             \A p \in Paths :
                /\ dir'[p].target = dir[p].target
                /\ dir[p].target # 0 =>
                      inodes'[dir[p].target] = inodes[dir[p].target]]_vars
    <2> SUFFICES ASSUME Inv, faults \in Nat, [Next]_vars, rm.caller = "recover",
                        pc # "idle", used' = used, faults' = faults
                 PROVE  ActiveKept
      BY DEF ActiveKept
    <2>1. pc \in {"recheck_discard", "recheck_final", "finalize"} \cup Cleaning
      BY DEF Inv, PlaceOK
    <2>2. faults' # faults + 1
      OBVIOUS
    <2>3. ~Crash /\ ~PowerFailure /\ ~StageFails
      BY <2>2, Zenon DEF Crash, PowerFailure, StageFails, Fault
    <2>4. ~Begin /\ ~Resolve /\ ~HostCleanup /\ ~Staging
      BY <2>1 DEF Begin, Resolve, ResolveDiscard, ResolveCurrent, HostCleanup, Staging,
         CreateJournal, StageCreate, StageWrite, MarkCandidate, Cleaning, Opened
    <2>5. ~External
      BY DEF External
    <2>6. CASE Activation
      <3>1. FinalizeEdit
        BY <2>1, <2>6 DEF Activation, RecheckStaged, EnterReplacing, Authorize, Rename,
           VerifyActive, CheckRollback, ExchangeBack, MarkPlacement, SyncActive,
           ConfirmActive, MarkApplied, EnterFinalizing, InspectCommitted, Cleaning, Opened
      <3> QED
        BY <3>1, QuietKept DEF FinalizeEdit, Refuse, fs
    <2>7. CASE Cleanup
      <3>1. ~DiscardPrepared /\ ~ClearAborted
        BY <2>1 DEF DiscardPrepared, ClearAborted, Cleaning, Opened
      <3> QED
        BY <2>7, <3>1, CleanupKept DEF Cleanup
    <2>8. CASE Recovery
      BY <2>8, QuietKept DEF Recovery, AuthorizeDiscard, ClearDiscarded, ValidateCurrent,
         AuthorizeCurrent, RecheckCurrent, Refuse, fs
    <2>9. CASE UNCHANGED vars
      BY <2>9, QuietKept DEF vars
    <2> QED
      BY <2>3, <2>4, <2>5, <2>6, <2>7, <2>8, <2>9 DEF Next, Service
  <1> QED
    BY Invariance, FaultsCounted, <1>1, PTL DEF Spec, RecoveryKeepsActive
=============================================================================
