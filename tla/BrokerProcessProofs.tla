------------------------- MODULE BrokerProcessProofs -------------------------
(***************************************************************************)
(* The safety properties of one native run, for every number of pids, of   *)
(* processes ever started and of processes the controller may track.       *)
(***************************************************************************)
EXTENDS BrokerProcess, TLAPS

-----------------------------------------------------------------------------
(* The inductive invariant.                                                *)

Processes == [start : 0..starts, state : {"gone", "live", "doomed", "zombie"},
              kind : {"own", "sibling"}, parent : Pids \cup {Self},
              bond : {"none", "marker", "group"}]

Controllers == [root : BOOLEAN, tracked : [Pids -> 0..starts],
                guarded : [Pids -> 0..starts], uncertain : BOOLEAN,
                requested : BOOLEAN, tracking : BOOLEAN,
                termination : {"none", "graceful", "forced"}]

Stages == {"cancel", "term", "grace", "kill", "forced", "first", "reap", "last"}
Terminating == {"term", "grace", "kill", "forced"}

\* The types, and the processes ever started bound every start time.
TypesOK ==
    /\ starts \in 0..MaxStarts
    /\ table \in [Pids -> Processes]
    /\ ctl \in Controllers
    /\ watch \in [at : {"", "watching", "cancelling", "delay", "closed", "done"},
                  err : {"", "ctx", "delay"}]
    /\ \/ seq = Idle
       \/ seq \in [at : {"discover", "walk", "scanned"}, next : Stages]
    /\ waitErr \in {"", "start", "exit", "ctx", "delay"}
    /\ main \in {"prepared", "started", "waiting", "reaped", "draining",
                 "drained", "finishing", "returned"}
    /\ unseen \subseteq Pids

\* The kernel's table: a parent within it is a running process of the tree,
\* and who is not of the tree is AcmeMux's own child and carries no marker.
TreeOK ==
    \A p \in Pids :
      /\ table[p].state # "gone" /\ table[p].parent # Self =>
            /\ table[p].kind = "own"
            /\ table[table[p].parent].kind = "own"
            /\ table[table[p].parent].state \in {"live", "doomed"}
      /\ table[p].state # "gone" => table[p].parent # p /\ table[p].start # 0
      /\ table[p].kind = "sibling" => table[p].bond = "none"

\* lego is AcmeMux's child and on the table until Wait has reaped it.
LeaderOK ==
    main \in {"started", "waiting"} =>
        /\ table[Leader].state # "gone" /\ table[Leader].kind = "own"
        /\ table[Leader].parent = Self

\* Who drives the scan: the watcher while it cancels, finish after Wait.
SequenceOK ==
    /\ seq.at # "idle" => watch.at = "cancelling" \/ main = "finishing"
    /\ watch.at = "cancelling" =>
          /\ main \notin {"prepared", "finishing", "returned"}
          /\ seq.at # "idle" /\ seq.next \notin {"first", "reap", "last"}
    /\ main \in {"draining", "drained"} => watch.at = "done"
    /\ main \in {"prepared", "returned"} => seq.at = "idle"
    /\ main \in {"prepared"} => watch.at = ""
    /\ main = "finishing" => watch.at \in {"", "done"} /\ seq.next # "cancel"

\* A controller c refers to no process of another command, unless one has
\* been given the leader's pid; guarded are processes of the tree only.
RefersToOwn(c) ==
    \A p \in Pids :
      /\ c.tracked[p] # 0 /\ c.tracked[p] = table[p].start
            /\ table[p].state # "gone"
         => table[p].kind = "own" \/ (p = Leader /\ c.root)
      /\ c.guarded[p] # 0 /\ c.guarded[p] = table[p].start
            /\ table[p].state # "gone"
         => table[p].kind = "own"

\* A signal is sent, or about to be sent, only to a run that was asked to end
\* or whose end is already uncertain.
SignalsOK ==
    /\ ctl.requested => cause # ""
    /\ seq.next = "cancel" => ctl.requested
    /\ seq.next \in Terminating => ctl.requested \/ ctl.uncertain
    /\ ctl.termination # "none" => ctl.requested \/ ctl.uncertain

\* The marked orphans, and the ones a controller c has taken notice of.
Orphan(p) == /\ Own(p) /\ Running(p) /\ table[p].parent = Self
             /\ table[p].bond # "none"
Noticed(c, p) == c.tracked[p] # 0 /\ c.tracked[p] = table[p].start

\* The last scan has taken notice of every orphan it could see.
LastScanOK ==
    seq.next = "last" /\ seq.at \in {"walk", "scanned"} =>
        \/ ctl.uncertain
        \/ \A p \in Pids : Orphan(p) =>
              p \in unseen \/ p = Leader \/ Noticed(ctl, p)

OutcomeOK ==
    /\ main = "returned" <=> outcome # ""
    /\ SuccessIsClean
    /\ UnseenOrphansOnly

Inv == /\ TypesOK /\ TreeOK /\ LeaderOK /\ SequenceOK /\ RefersToOwn(ctl)
       /\ SignalsOK /\ LastScanOK /\ OutcomeOK

-----------------------------------------------------------------------------
(* The steps of the processes.                                             *)

LEMMA StartsBound == MaxStarts \in Nat /\ 0 \in 0..MaxStarts
  BY PidsAssumption

LEMMA Counts ==
  ASSUME Inv
  PROVE  starts \in Nat /\ starts <= MaxStarts /\ MaxStarts \in Nat
<1>1. starts \in 0..MaxStarts
  BY DEF Inv, TypesOK
<1> QED  BY <1>1, StartsBound

LEMMA InitOK == Init => Inv
<1> SUFFICES ASSUME Init PROVE Inv
  OBVIOUS
<1>0. starts = 0 /\ 0 \in 0..starts
  <2>1. starts = 0
    BY DEF Init
  <2>2. 0 \in 0..0
    OBVIOUS
  <2> QED  BY <2>1, <2>2
<1> USE PidsAssumption DEF Init
<1>1. TypesOK
  <2>1. starts \in 0..MaxStarts
    BY StartsBound
  <2>2. Gone \in Processes
    BY <1>0 DEF Gone, Processes
  <2>3. table \in [Pids -> Processes]
    BY <2>2
  <2>4. [p \in Pids |-> 0] \in [Pids -> 0..starts]
    BY <1>0
  <2>5. ctl \in Controllers
    BY <2>4 DEF Controllers
  <2> QED  BY <2>1, <2>3, <2>5 DEF TypesOK
<1>2. TreeOK /\ LeaderOK /\ RefersToOwn(ctl)
  BY DEF TreeOK, LeaderOK, RefersToOwn, Gone
<1>3. SequenceOK /\ SignalsOK /\ LastScanOK
  BY DEF SequenceOK, SignalsOK, LastScanOK, Idle, Terminating
<1>4. OutcomeOK
  BY DEF OutcomeOK, SuccessIsClean, UnseenOrphansOnly
<1> QED  BY <1>1, <1>2, <1>3, <1>4 DEF Inv

\* A run that has not returned has no outcome, and none of its steps but
\* the two that return gives it one.
LEMMA NoOutcome ==
  ASSUME Inv, main # "returned", main' # "returned", outcome' = outcome
  PROVE  OutcomeOK'
  BY DEF Inv, OutcomeOK, SuccessIsClean, UnseenOrphansOnly

\* What a step of the processes has to keep.
LEMMA KernelStep ==
  ASSUME Inv, Active, UNCHANGED <<main, watch, waitErr, cause, outcome, ctl, seq>>,
         starts' \in starts..MaxStarts, table' \in [Pids -> Processes'],
         unseen' \subseteq Pids,
         TreeOK', LeaderOK', RefersToOwn(ctl)', LastScanOK'
  PROVE  Inv'
<1>1. ctl \in Controllers'
  <2>1. starts \in Nat /\ starts' \in Nat /\ starts <= starts'
    BY Counts
  <2>2. 0..starts \subseteq 0..starts'
    BY <2>1
  <2>3. [Pids -> 0..starts] \subseteq [Pids -> 0..starts']
    BY <2>2
  <2> QED  BY <2>3 DEF Inv, TypesOK, Controllers
<1>2. TypesOK'
  <2>1. starts' \in 0..MaxStarts
    BY Counts
  <2> QED  BY <1>1, <2>1 DEF Inv, TypesOK
<1>3. SequenceOK' /\ SignalsOK'
  BY DEF Inv, SequenceOK, SignalsOK
<1>4. OutcomeOK'
  BY NoOutcome DEF Active
<1> QED  BY <1>2, <1>3, <1>4 DEF Inv

\* A new process has a start time that nothing refers to.
LEMMA SpawnOK ==
  ASSUME Inv, NEW p \in Pids, NEW k \in {"own", "sibling"},
         NEW r \in Pids \cup {Self}, NEW b \in {"none", "marker", "group"},
         Spawn(p, k, r, b),
         k = "sibling" => r = Self /\ b = "none",
         r # Self => table[r].kind = "own" /\ table[r].state = "live"
  PROVE  /\ starts' \in starts..MaxStarts /\ starts' > starts
         /\ table' \in [Pids -> Processes']
         /\ \A q \in Pids \ {p} : table'[q] = table[q]
         /\ table'[p] = [start |-> starts + 1, state |-> "live", kind |-> k,
                         parent |-> r, bond |-> b]
         /\ TreeOK'
<1>1. /\ starts \in Nat /\ starts < MaxStarts /\ starts' = starts + 1
      /\ MaxStarts \in Nat
  BY Counts DEF Spawn
<1>2. Processes \subseteq Processes'
  <2>1. 0..starts \subseteq 0..starts'
    BY <1>1
  <2> QED  BY <2>1 DEF Processes
<1> DEFINE new == [start |-> starts + 1, state |-> "live", kind |-> k,
                   parent |-> r, bond |-> b]
<1>3. new \in Processes'
  BY <1>1 DEF Processes
<1>4. table \in [Pids -> Processes] /\ table' = [table EXCEPT ![p] = new]
  BY DEF Inv, TypesOK, Spawn
<1>5. table' \in [Pids -> Processes']
  BY <1>2, <1>3, <1>4
<1>6. \A q \in Pids \ {p} : table'[q] = table[q]
  BY <1>4
<1>7. table'[p] = new
  BY <1>4
<1>8. TreeOK'
  <2>1. table[p].state = "gone" /\ Self \notin Pids /\ TreeOK
    BY PidsAssumption DEF Inv, Spawn
  <2>2. SUFFICES ASSUME NEW q \in Pids
        PROVE  /\ table'[q].state # "gone" /\ table'[q].parent # Self =>
                     /\ table'[q].kind = "own"
                     /\ table'[table'[q].parent].kind = "own"
                     /\ table'[table'[q].parent].state \in {"live", "doomed"}
               /\ table'[q].state # "gone" => table'[q].parent # q /\ table'[q].start # 0
               /\ table'[q].kind = "sibling" => table'[q].bond = "none"
    BY DEF TreeOK
  <2>3. CASE q = p
    <3>1. r # Self => r # p
      BY <2>1
    <3>2. r # Self => table'[r] = table[r]
      BY <3>1, <1>6
    <3>3. starts + 1 # 0
      BY Counts
    <3> QED  BY <2>3, <1>7, <3>1, <3>2, <3>3, <2>1
  <2>4. CASE q # p
    <3>1. table'[q] = table[q]
      BY <2>4, <1>6
    <3>2. table[q].parent \in Pids \cup {Self}
      BY <1>4 DEF Processes
    <3>3. table[q].state # "gone" /\ table[q].parent # Self => table[q].parent # p
      BY <2>1 DEF TreeOK
    <3> QED  BY <3>1, <3>2, <3>3, <1>6, <2>1 DEF TreeOK
  <2> QED  BY <2>3, <2>4
<1> QED  BY <1>1, <1>5, <1>6, <1>7, <1>8

LEMMA ForkOK ==
  ASSUME Inv, NEW p \in Pids, NEW q \in Pids, Fork(p, q)
  PROVE  Inv'
<1>1. PICK b \in {"none", "marker", "group"} : Spawn(q, "own", p, b)
  BY DEF Fork
<1>2. /\ starts' \in starts..MaxStarts /\ starts' > starts
      /\ table' \in [Pids -> Processes']
      /\ \A s \in Pids \ {q} : table'[s] = table[s]
      /\ table'[q] = [start |-> starts + 1, state |-> "live", kind |-> "own",
                      parent |-> p, bond |-> b]
      /\ TreeOK'
  BY <1>1, SpawnOK DEF Fork, Own
<1>3. Active /\ UNCHANGED <<main, watch, waitErr, cause, outcome, ctl, seq, unseen>>
  BY DEF Fork, run
<1>4. table[q].state = "gone" /\ Self \notin Pids /\ Leader \in Pids
  BY <1>1, PidsAssumption DEF Spawn
<1>5. LeaderOK'
  BY <1>2, <1>3, <1>4 DEF Inv, LeaderOK
<1>6. RefersToOwn(ctl)'
  BY <1>2, <1>3 DEF Inv, RefersToOwn
<1>7. LastScanOK'
  BY <1>2, <1>3, <1>4 DEF Inv, LastScanOK, Orphan, Own, Running, Noticed
<1>8. unseen' \subseteq Pids
  BY <1>3 DEF Inv, TypesOK
<1> QED  BY <1>2, <1>3, <1>5, <1>6, <1>7, <1>8, KernelStep

\* No process appears or changes what it is; those of E end or vanish, and
\* leave no children behind.
Worn(E) ==
    /\ \A p \in Pids : table'[p].state = "gone" =>
          table'[p] = Gone \/ table'[p] = table[p]
    /\ \A p \in Pids : table'[p].state # "gone" =>
          /\ table[p].state # "gone" /\ table'[p].start = table[p].start
          /\ table'[p].kind = table[p].kind /\ table'[p].bond \in {table[p].bond, "none"}
          /\ table'[p].parent \in {table[p].parent, Self}
          /\ table'[p].parent \notin E
    /\ \A p \in Pids \ E : table[p].state \in {"live", "doomed"} =>
          table'[p].state \in {"live", "doomed"}

LEMMA WornTree ==
  ASSUME Inv, NEW E \in SUBSET Pids, Worn(E)
  PROVE  TreeOK'
<1>1. TreeOK /\ Self \notin Pids
  BY PidsAssumption DEF Inv
<1> SUFFICES ASSUME NEW p \in Pids
    PROVE  /\ table'[p].state # "gone" /\ table'[p].parent # Self =>
                 /\ table'[p].kind = "own"
                 /\ table'[table'[p].parent].kind = "own"
                 /\ table'[table'[p].parent].state \in {"live", "doomed"}
           /\ table'[p].state # "gone" => table'[p].parent # p /\ table'[p].start # 0
           /\ table'[p].kind = "sibling" => table'[p].bond = "none"
  BY DEF TreeOK
<1>2. table'[p].kind = "sibling" => table'[p].bond = "none"
  <2>1. CASE table'[p].state = "gone"
    BY <2>1, <1>1 DEF Worn, TreeOK, Gone
  <2>2. CASE table'[p].state # "gone"
    BY <2>2, <1>1 DEF Worn, TreeOK
  <2> QED  BY <2>1, <2>2
<1>3. ASSUME table'[p].state # "gone", table'[p].parent # Self
      PROVE  /\ table'[p].kind = "own"
             /\ table'[table'[p].parent].kind = "own"
             /\ table'[table'[p].parent].state \in {"live", "doomed"}
  <2> DEFINE r == table[p].parent
  <2>1. /\ table[p].state # "gone" /\ table'[p].kind = table[p].kind
        /\ table'[p].parent = r /\ r # Self /\ r \notin E
    BY <1>3 DEF Worn
  <2>2. r \in Pids
    BY <2>1 DEF Inv, TypesOK, Processes
  <2>3. table[p].kind = "own" /\ table[r].kind = "own" /\ table[r].state \in {"live", "doomed"}
    BY <2>1, <1>1 DEF TreeOK
  <2> HIDE DEF r
  <2>4. table'[r].state \in {"live", "doomed"}
    BY <2>1, <2>2, <2>3 DEF Worn
  <2>5. table'[r].kind = "own"
    BY <2>2, <2>3, <2>4 DEF Worn
  <2> QED  BY <2>1, <2>3, <2>4, <2>5
<1>4. table'[p].state # "gone" => table'[p].parent # p /\ table'[p].start # 0
  BY <1>1 DEF Worn, TreeOK
<1> QED  BY <1>2, <1>3, <1>4

\* References are dropped, never redirected.
LEMMA WornRefers ==
  ASSUME Inv, NEW E \in SUBSET Pids, Worn(E), ctl.root => ctl'.root,
         \A p \in Pids : /\ ctl'.tracked[p] \in {0, ctl.tracked[p]}
                         /\ ctl'.guarded[p] \in {0, ctl.guarded[p]}
  PROVE  RefersToOwn(ctl)'
  BY DEF Inv, RefersToOwn, Worn

\* No process runs that did not, and no orphan is new.
LEMMA WornLast ==
  ASSUME Inv, NEW E \in SUBSET Pids, Worn(E), seq' = seq, ctl' = ctl,
         unseen \subseteq unseen',
         \A p \in Pids : table'[p].state \in {"live", "doomed"} =>
             table[p].state \in {"live", "doomed"},
         seq.next = "last" =>
             \A p \in Pids : table'[p].parent = Self /\ table'[p].state # "gone"
                => table[p].parent = Self \/ p \in unseen'
  PROVE  LastScanOK'
<1> SUFFICES ASSUME seq.next = "last", seq.at \in {"walk", "scanned"}, ~ctl.uncertain,
                    NEW p \in Pids, Orphan(p)'
             PROVE  p \in unseen' \/ p = Leader \/ Noticed(ctl, p)'
  BY DEF LastScanOK
<1>1. /\ table'[p].kind = "own" /\ table'[p].state \in {"live", "doomed"}
      /\ table'[p].parent = Self /\ table'[p].bond # "none"
  BY DEF Orphan, Own, Running
<1>2. /\ table[p].start = table'[p].start /\ table[p].kind = table'[p].kind
      /\ table[p].bond # "none"
  BY <1>1 DEF Worn
<1>3. p \notin unseen' => Orphan(p)
  BY <1>1, <1>2 DEF Orphan, Own, Running
<1>4. p \notin unseen' => p \in unseen \/ p = Leader \/ Noticed(ctl, p)
  BY <1>3 DEF Inv, LastScanOK
<1> QED  BY <1>2, <1>4 DEF Noticed

LEMMA ProcessExitsOK ==
  ASSUME Inv, NEW p \in Pids, ProcessExits(p)
  PROVE  Inv'
<1>1. /\ Active /\ UNCHANGED <<main, watch, waitErr, cause, outcome, ctl, seq, starts>>
      /\ table' = Ended(p) /\ table[p].kind = "own" /\ table[p].state \in {"live", "doomed"}
      /\ unseen' = IF seq.next = "last" THEN unseen \cup Children(p) ELSE unseen
  BY DEF ProcessExits, run, Own, Running
<1>2. table \in [Pids -> Processes] /\ Self \notin Pids /\ TreeOK /\ Leader \in Pids
  BY PidsAssumption DEF Inv, TypesOK
<1>3. /\ table'[p] = [table[p] EXCEPT !.state = "zombie", !.bond = "none"]
      /\ \A q \in Pids \ {p} : q \in Children(p) => table'[q] = [table[q] EXCEPT !.parent = Self]
      /\ \A q \in Pids \ {p} : q \notin Children(p) => table'[q] = table[q]
  BY <1>1 DEF Ended
<1>31. \A q \in Pids : \A x \in {"start", "state", "kind", "bond"} :
         [table[q] EXCEPT !.parent = Self][x] = table[q][x]
  BY <1>2 DEF Processes
<1>32. \A q \in Pids : [table[q] EXCEPT !.parent = Self].parent = Self
  BY <1>2 DEF Processes
<1>33. \A q \in Pids \ {p} :
         /\ table'[q].start = table[q].start /\ table'[q].state = table[q].state
         /\ table'[q].kind = table[q].kind /\ table'[q].bond = table[q].bond
         /\ table'[q].parent = IF q \in Children(p) THEN Self ELSE table[q].parent
  BY <1>3, <1>31, <1>32
<1>34. /\ table'[p].state = "zombie" /\ table'[p].start = table[p].start
       /\ table'[p].kind = table[p].kind /\ table'[p].bond = "none"
       /\ table'[p].parent = table[p].parent
  BY <1>3, <1>2 DEF Processes
<1>4. table' \in [Pids -> Processes]
  <2>1. \A q \in Pids : [table[q] EXCEPT !.parent = Self] \in Processes
    BY <1>2 DEF Processes
  <2>2. [table[p] EXCEPT !.state = "zombie", !.bond = "none"] \in Processes
    BY <1>2 DEF Processes
  <2> QED  BY <1>1, <1>2, <2>1, <2>2 DEF Ended
<1>5. Processes' = Processes /\ starts' \in starts..MaxStarts
  BY <1>1, Counts DEF Processes
<1>6. Worn({p})
  <2>1. \A q \in Pids : table[q].state # "gone" /\ table[q].parent = p <=> q \in Children(p)
    BY DEF Children
  <2>2. p \notin Children(p)
    BY <1>2 DEF Children, TreeOK
  <2>3. \A q \in Pids : table'[q].state # "gone" =>
          /\ table[q].state # "gone" /\ table'[q].start = table[q].start
          /\ table'[q].kind = table[q].kind /\ table'[q].bond \in {table[q].bond, "none"}
          /\ table'[q].parent \in {table[q].parent, Self}
    BY <1>1, <1>33, <1>34
  <2>4. \A q \in Pids : table'[q].state # "gone" => table'[q].parent # p
    BY <1>1, <1>33, <1>34, <1>2, <2>1, <2>2
  <2>5. \A q \in Pids : table'[q].state = "gone" => table'[q] = table[q]
    BY <1>3, <1>33, <1>34, <2>1
  <2>6. \A q \in Pids \ {p} : table'[q].state = table[q].state
    BY <1>33
  <2> QED  BY <2>3, <2>4, <2>5, <2>6 DEF Worn
<1>7. TreeOK' /\ RefersToOwn(ctl)'
  <2>1. \A q \in Pids : /\ ctl'.tracked[q] \in {0, ctl.tracked[q]}
                        /\ ctl'.guarded[q] \in {0, ctl.guarded[q]}
    BY <1>1
  <2> QED  BY <1>1, <1>6, <2>1, WornTree, WornRefers
<1>8. LeaderOK'
  <2>1. ASSUME main \in {"started", "waiting"}
        PROVE  table'[Leader].state # "gone" /\ table'[Leader].kind = "own"
                 /\ table'[Leader].parent = Self
    <3>1. table[Leader].state # "gone" /\ table[Leader].kind = "own" /\ table[Leader].parent = Self
      BY <2>1 DEF Inv, LeaderOK
    <3>2. Leader \notin Children(p)
      BY <3>1, <1>2 DEF Children
    <3>3. CASE Leader = p
      BY <3>1, <3>3, <1>3, <1>2 DEF Processes
    <3>4. CASE Leader # p
      BY <3>1, <3>2, <3>4, <1>3, <1>2
    <3> QED  BY <3>3, <3>4
  <2> QED  BY <2>1, <1>1 DEF LeaderOK
<1>9. LastScanOK'
  <2>1. unseen \subseteq unseen'
    BY <1>1
  <2>2. \A q \in Pids : table'[q].state \in {"live", "doomed"} =>
             table[q].state \in {"live", "doomed"}
    BY <1>33, <1>34
  <2>3. ASSUME seq.next = "last", NEW q \in Pids, table'[q].parent = Self,
               table'[q].state # "gone"
        PROVE  table[q].parent = Self \/ q \in unseen'
    BY <1>1, <1>33, <1>34, <2>3
  <2> QED  BY <1>1, <1>6, <2>1, <2>2, <2>3, WornLast
<1>10. unseen' \subseteq Pids
  BY <1>1 DEF Inv, TypesOK, Children
<1> QED  BY <1>1, <1>4, <1>5, <1>7, <1>8, <1>9, <1>10, KernelStep

\* Some processes without children, those of E, end or vanish; others are
\* doomed.
Restated(E) ==
    /\ table' = [p \in Pids |-> table'[p]] /\ starts' = starts
    /\ \A p \in Pids :
         \/ table'[p] = table[p]
         \/ p \in E /\ table'[p] = Gone
         \/ /\ p \in E /\ table[p].state # "gone"
            /\ table'[p] = [table[p] EXCEPT !.state = "zombie"]
         \/ /\ table[p].state \in {"live", "doomed"}
            /\ table'[p] = [table[p] EXCEPT !.state = "doomed"]
    /\ \A p \in E : table[p].state \notin {"live", "doomed"} \/ table[p].kind = "sibling"

LEMMA RestatedOK ==
  ASSUME Inv, NEW E \in SUBSET Pids, Restated(E)
  PROVE  /\ table' \in [Pids -> Processes'] /\ starts' \in starts..MaxStarts
         /\ Processes' = Processes
         /\ Worn(E)
         /\ \A p \in Pids : table'[p].state \in {"live", "doomed"} =>
                table[p].state \in {"live", "doomed"}
         /\ \A p \in Pids : table'[p].state # "gone" => table'[p].parent = table[p].parent
         /\ \A p \in Pids \ E : table[p].state # "gone" =>
                table'[p].state # "gone" /\ table'[p].kind = table[p].kind
<1>1. table \in [Pids -> Processes] /\ TreeOK /\ Self \notin Pids
  BY PidsAssumption DEF Inv, TypesOK
<1>2. Processes' = Processes /\ starts' \in starts..MaxStarts
  BY Counts DEF Restated, Processes
<1>3. Gone \in Processes
  <2>1. 0 \in 0..starts
    BY Counts
  <2> QED  BY <2>1 DEF Gone, Processes
<1>4. \A p \in Pids : \A s \in {"zombie", "doomed"} :
        /\ [table[p] EXCEPT !.state = s] \in Processes
        /\ [table[p] EXCEPT !.state = s].state = s
        /\ [table[p] EXCEPT !.state = s].start = table[p].start
        /\ [table[p] EXCEPT !.state = s].kind = table[p].kind
        /\ [table[p] EXCEPT !.state = s].bond = table[p].bond
        /\ [table[p] EXCEPT !.state = s].parent = table[p].parent
  BY <1>1 DEF Processes
<1>5. \A p \in Pids : table'[p] \in Processes
  BY <1>1, <1>3, <1>4 DEF Restated
<1>6. table' \in [Pids -> Processes]
  BY <1>5 DEF Restated
<1>7. Gone.state = "gone"
  BY DEF Gone
<1>8. \A p \in Pids : table'[p].state = "gone" => table'[p] = Gone \/ table'[p] = table[p]
  BY <1>4 DEF Restated
<1>9. \A p \in Pids : table'[p].state # "gone" =>
          /\ table[p].state # "gone" /\ table'[p].start = table[p].start
          /\ table'[p].kind = table[p].kind /\ table'[p].bond = table[p].bond
          /\ table'[p].parent = table[p].parent
  <2> SUFFICES ASSUME NEW p \in Pids, table'[p].state # "gone"
      PROVE  /\ table[p].state # "gone" /\ table'[p].start = table[p].start
             /\ table'[p].kind = table[p].kind /\ table'[p].bond = table[p].bond
             /\ table'[p].parent = table[p].parent
    OBVIOUS
  <2>1. \/ table'[p] = table[p]
        \/ table[p].state # "gone" /\ table'[p] = [table[p] EXCEPT !.state = "zombie"]
        \/ table[p].state # "gone" /\ table'[p] = [table[p] EXCEPT !.state = "doomed"]
    BY <1>7 DEF Restated
  <2> QED  BY <2>1, <1>4
<1>10. \A p \in Pids : table[p].state # "gone" => table[p].parent \notin E
  <2> SUFFICES ASSUME NEW p \in Pids, table[p].state # "gone", table[p].parent \in E
               PROVE  FALSE
    OBVIOUS
  <2>1. table[p].parent # Self
    BY <1>1
  <2>2. table[table[p].parent].kind = "own" /\ table[table[p].parent].state \in {"live", "doomed"}
    BY <2>1, <1>1 DEF TreeOK
  <2> QED  BY <2>2 DEF Restated
<1>11. \A p \in Pids \ E : table[p].state # "gone" =>
                table'[p].state # "gone" /\ table'[p].kind = table[p].kind
  BY <1>4 DEF Restated
<1>12. \A p \in Pids \ E : table[p].state \in {"live", "doomed"} =>
          table'[p].state \in {"live", "doomed"}
  BY <1>4 DEF Restated
<1>13. Worn(E)
  BY <1>8, <1>9, <1>10, <1>12 DEF Worn
<1>14. \A p \in Pids : table'[p].state \in {"live", "doomed"} =>
                table[p].state \in {"live", "doomed"}
  BY <1>4, <1>7 DEF Restated
<1> QED  BY <1>2, <1>6, <1>9, <1>11, <1>13, <1>14

LEMMA RestatedKernel ==
  ASSUME Inv, NEW E \in SUBSET Pids, Restated(E), Active,
         UNCHANGED <<main, watch, waitErr, cause, outcome, ctl, seq, unseen>>,
         main \in {"started", "waiting"} => Leader \notin E
  PROVE  Inv'
<1>1. Worn(E) /\ Leader \in Pids
  BY RestatedOK, PidsAssumption
<1>2. TreeOK' /\ RefersToOwn(ctl)'
  BY <1>1, WornTree, WornRefers
<1>3. LeaderOK'
  <2>1. \A p \in Pids : table'[p].state # "gone" => table'[p].parent = table[p].parent
    BY RestatedOK
  <2>2. \A p \in Pids \ E : table[p].state # "gone" =>
                table'[p].state # "gone" /\ table'[p].kind = table[p].kind
    BY RestatedOK
  <2> QED  BY <1>1, <2>1, <2>2 DEF LeaderOK, Inv
<1>4. LastScanOK'
  BY <1>1, RestatedOK, WornLast
<1>5. unseen' \subseteq Pids
  BY DEF Inv, TypesOK
<1> QED  BY <1>2, <1>3, <1>4, <1>5, RestatedOK, KernelStep

LEMMA ParentReapsOK ==
  ASSUME Inv, NEW p \in Pids, NEW q \in Pids, ParentReaps(p, q)
  PROVE  Inv'
<1>1. /\ Active /\ UNCHANGED <<main, watch, waitErr, cause, outcome, ctl, seq, unseen>>
      /\ table[q].state = "zombie" /\ table[q].parent = p
      /\ table' = [table EXCEPT ![q] = Gone] /\ starts' = starts
  BY DEF ParentReaps, run, Children
<1>2. table \in [Pids -> Processes] /\ Self \notin Pids
  BY PidsAssumption DEF Inv, TypesOK
<1>3. Restated({q})
  BY <1>1, <1>2 DEF Restated
<1>4. main \in {"started", "waiting"} => Leader # q
  BY <1>1, <1>2 DEF Inv, LeaderOK
<1> QED  BY <1>1, <1>3, <1>4, RestatedKernel

LEMMA ForeignEndsOK ==
  ASSUME Inv, NEW p \in Pids, ForeignEnds(p)
  PROVE  Inv'
<1>1. /\ Active /\ UNCHANGED <<main, watch, waitErr, cause, outcome, ctl, seq, unseen>>
      /\ table[p].kind # "own" /\ starts' = starts
      /\ table' = [table EXCEPT ![p] =
           IF table[p].state \in {"live", "doomed"}
           THEN [table[p] EXCEPT !.state = "zombie"] ELSE Gone]
  BY DEF ForeignEnds, run, Own, Running
<1>2. table \in [Pids -> Processes] /\ table[p].kind = "sibling"
  BY <1>1 DEF Inv, TypesOK, Processes
<1>3. Restated({p})
  BY <1>1, <1>2 DEF Restated
<1>4. main \in {"started", "waiting"} => Leader # p
  BY <1>1 DEF Inv, LeaderOK
<1> QED  BY <1>1, <1>3, <1>4, RestatedKernel

LEMMA ForeignStartsOK ==
  ASSUME Inv, NEW p \in Pids, ForeignStarts(p)
  PROVE  Inv'
<1>1. /\ Active /\ UNCHANGED <<main, watch, waitErr, cause, outcome, ctl, seq, unseen>>
      /\ Spawn(p, "sibling", Self, "none") /\ table[p].state = "gone"
  BY DEF ForeignStarts, run, Spawn
<1>2. /\ starts' \in starts..MaxStarts /\ starts' > starts
      /\ table' \in [Pids -> Processes']
      /\ \A s \in Pids \ {p} : table'[s] = table[s]
      /\ table'[p] = [start |-> starts + 1, state |-> "live", kind |-> "sibling",
                      parent |-> Self, bond |-> "none"]
      /\ TreeOK'
  BY <1>1, SpawnOK
<1>3. LeaderOK'
  BY <1>1, <1>2, PidsAssumption DEF Inv, LeaderOK
<1>4. RefersToOwn(ctl)'
  <2>1. \A q \in Pids : ctl.tracked[q] \in 0..starts /\ ctl.guarded[q] \in 0..starts
    BY DEF Inv, TypesOK, Controllers
  <2>2. ctl.tracked[p] # starts + 1 /\ ctl.guarded[p] # starts + 1
    BY <2>1, Counts
  <2> QED  BY <1>1, <1>2, <2>2 DEF Inv, RefersToOwn
<1>5. LastScanOK'
  BY <1>1, <1>2 DEF Inv, LastScanOK, Orphan, Own, Running, Noticed
<1>6. unseen' \subseteq Pids
  BY <1>1 DEF Inv, TypesOK
<1> QED  BY <1>1, <1>2, <1>3, <1>4, <1>5, <1>6, KernelStep

\* A limit is passed, or the context ends.
LEMMA CausesOK ==
  ASSUME Inv, Waits, cause' = cause \/ cause = "",
         UNCHANGED <<table, starts, main, watch, waitErr, ctl, seq, unseen, outcome>>
  PROVE  Inv'
<1>1. Active
  BY DEF Waits, Active
<1>2. TypesOK' /\ TreeOK' /\ LeaderOK' /\ RefersToOwn(ctl)' /\ SequenceOK'
  <2>0. Processes' = Processes /\ Controllers' = Controllers
    BY DEF Processes, Controllers
  <2>1. TypesOK'
    BY <2>0 DEF Inv, TypesOK
  <2>2. TreeOK' /\ LeaderOK' /\ RefersToOwn(ctl)'
    BY DEF Inv, TreeOK, LeaderOK, RefersToOwn
  <2>3. SequenceOK'
    BY DEF Inv, SequenceOK
  <2> QED  BY <2>1, <2>2, <2>3
<1>3. SignalsOK'
  BY DEF Inv, SignalsOK
<1>4. LastScanOK'
  BY DEF Inv, LastScanOK, Orphan, Noticed, Own, Running
<1>5. OutcomeOK'
  BY <1>1, NoOutcome DEF Active
<1> QED  BY <1>2, <1>3, <1>4, <1>5 DEF Inv

-----------------------------------------------------------------------------
(* What a scan makes of the controller.                                    *)

\* A controller d that has only learned since c.
Learned(c, d) ==
    /\ d \in Controllers /\ d.root = c.root /\ d.requested = c.requested
    /\ d.tracking = c.tracking /\ d.termination = c.termination
    /\ c.uncertain => d.uncertain
    /\ \A p \in Pids : Noticed(c, p) => Noticed(d, p)

LEMMA DiscoverLearns ==
  ASSUME Inv, NEW hidden
  PROVE  /\ Learned(ctl, DiscoverGuardedOrphans(hidden))
         /\ RefersToOwn(DiscoverGuardedOrphans(hidden))
         /\ \/ DiscoverGuardedOrphans(hidden).uncertain
            \/ \A p \in Pids : Orphan(p) =>
                  \/ p = Leader \/ Noticed(DiscoverGuardedOrphans(hidden), p)
                  \/ p \in hidden \ Tracked
<1> DEFINE mine == {q \in Children(Self) : Self \notin hidden
                                             /\ ~(ctl.root /\ q = Leader)}
           readable == mine \ hidden
           known == {q \in readable : q \in Tracked /\ Same(q)}
           reused == {q \in readable : q \in Tracked /\ ~Same(q)}
           fresh == {q \in readable : q \notin Tracked /\ Running(q)
                                         /\ table[q].bond # "none"}
           room == Cardinality(Tracked \cup fresh) <= MaxTracked
           taken == known \cup (IF room THEN fresh ELSE {})
           doubt == \/ Self \in hidden \/ reused # {}
                    \/ mine \cap hidden \cap Tracked # {}
                    \/ (fresh # {} /\ ~room)
           d == DiscoverGuardedOrphans(hidden)
<1>1. ctl \in Controllers /\ table \in [Pids -> Processes]
  BY DEF Inv, TypesOK
<1>2. d = [ctl EXCEPT
          !.uncertain = @ \/ doubt,
          !.tracked = [q \in Pids |->
              IF q \in taken THEN table[q].start ELSE @[q]],
          !.guarded = [q \in Pids |->
              IF q \in taken THEN table[q].start ELSE @[q]]]
  BY DEF DiscoverGuardedOrphans
<1>3. known \subseteq Pids /\ fresh \subseteq Pids /\ taken \subseteq known \cup fresh
  BY DEF Children
<1>4. \A q \in known : ctl.tracked[q] # 0 /\ ctl.tracked[q] = table[q].start
                         /\ table[q].state # "gone"
  BY DEF Tracked, Same
<1>5. \A q \in fresh : table[q].bond # "none"
  OBVIOUS
<1>6. \A p \in Pids : Orphan(p) =>
        \/ p = Leader \/ p \in known \/ p \in reused \/ p \in fresh
        \/ p \in hidden \ Tracked \/ doubt
  BY DEF Orphan, Children, Running
<1>61. doubt \in BOOLEAN /\ (reused # {} => doubt) /\ (fresh # {} /\ ~room => doubt)
  OBVIOUS
<1>7. known \subseteq taken /\ (room => fresh \subseteq taken)
  OBVIOUS
<1>8. \A q \in known : q # Leader \/ ~ctl.root
  OBVIOUS
<1> HIDE DEF mine, readable, known, reused, fresh, room, taken, doubt
<1> DEFINE refs(f) == [q \in Pids |-> IF q \in taken THEN table[q].start ELSE f[q]]
<1>9. /\ d.root = ctl.root /\ d.requested = ctl.requested
      /\ d.tracking = ctl.tracking /\ d.termination = ctl.termination
      /\ d.uncertain = (ctl.uncertain \/ doubt)
      /\ d.tracked = refs(ctl.tracked) /\ d.guarded = refs(ctl.guarded)
  BY <1>1, <1>2 DEF Controllers
<1>10. \A q \in Pids : table[q].start \in 0..starts
  BY <1>1 DEF Processes
<1>11. refs(ctl.tracked) \in [Pids -> 0..starts] /\ refs(ctl.guarded) \in [Pids -> 0..starts]
  BY <1>1, <1>10 DEF Controllers
<1>12. d = [root |-> ctl.root, tracked |-> refs(ctl.tracked),
            guarded |-> refs(ctl.guarded),
            uncertain |-> (ctl.uncertain \/ doubt),
            requested |-> ctl.requested, tracking |-> ctl.tracking,
            termination |-> ctl.termination]
  BY <1>1, <1>2 DEF Controllers
<1>13. d \in Controllers
  BY <1>1, <1>11, <1>12, <1>61 DEF Controllers
<1>14. \A p \in Pids : /\ d.tracked[p] = IF p \in taken THEN table[p].start ELSE ctl.tracked[p]
                       /\ d.guarded[p] = IF p \in taken THEN table[p].start ELSE ctl.guarded[p]
  BY <1>9
<1> HIDE DEF d
<1>15. Learned(ctl, d)
  BY <1>9, <1>13, <1>14 DEF Learned, Noticed
<1>16. RefersToOwn(d)
  <2>1. \A p \in taken : table[p].state # "gone" => table[p].kind = "own"
    <3> SUFFICES ASSUME NEW p \in taken, table[p].state # "gone"
                 PROVE  table[p].kind = "own"
      OBVIOUS
    <3>1. CASE p \in known
      BY <3>1, <1>3, <1>4, <1>8 DEF Inv, RefersToOwn
    <3>2. CASE p \in fresh
      <4>1. p \in Pids /\ table[p].bond # "none"
        BY <3>2, <1>3, <1>5
      <4> QED  BY <4>1, <1>1 DEF Inv, TreeOK, Processes
    <3> QED  BY <3>1, <3>2, <1>3
  <2> QED  BY <2>1, <1>9, <1>14 DEF Inv, RefersToOwn
<1>17. \/ d.uncertain
       \/ \A p \in Pids : Orphan(p) =>
             p = Leader \/ Noticed(d, p) \/ p \in hidden \ Tracked
  <2> SUFFICES ASSUME ~d.uncertain, NEW p \in Pids, Orphan(p), p # Leader,
                      p \notin hidden \ Tracked
               PROVE  Noticed(d, p)
    OBVIOUS
  <2>1. ~doubt /\ reused = {} /\ (fresh = {} \/ room)
    BY <1>9, <1>61
  <2>2. p \in taken
    BY <2>1, <1>6, <1>7
  <2>3. table[p].start # 0
    BY DEF Orphan, Running, Inv, TreeOK
  <2> QED  BY <2>2, <2>3, <1>14 DEF Noticed
<1> QED  BY <1>15, <1>16, <1>17 DEF d

\* The lineage of the run holds no process of another command, unless one
\* has been given the leader's pid.
LEMMA LineageIsOwn ==
  ASSUME Inv, NEW c \in Controllers, RefersToOwn(c), NEW hidden
  PROVE  \A q \in Lineage(c, hidden) :
            /\ q \in Pids /\ table[q].state # "gone"
            /\ table[q].kind = "own" \/ (q = Leader /\ c.root)
<1> DEFINE S == {q \in Pids : /\ table[q].state # "gone"
                              /\ table[q].kind = "own" \/ (q = Leader /\ c.root)}
<1>1. \A q \in Pids : c.root /\ q = Leader /\ table[q].state # "gone" => q \in S
  OBVIOUS
<1>2. \A q \in Pids : c.tracked[q] # 0 /\ c.tracked[q] = table[q].start
                        /\ table[q].state # "gone" => q \in S
  BY DEF RefersToOwn
<1>3. \A q \in Pids : Children(q) \subseteq S
  BY PidsAssumption DEF Children, Inv, TreeOK
<1>4. S \in SUBSET Pids
  OBVIOUS
<1>5. Lineage(c, hidden) \subseteq S
  BY <1>1, <1>2, <1>3, <1>4 DEF Lineage
<1> QED  BY <1>5

LEMMA WalkLearns ==
  ASSUME Inv, NEW c \in Controllers, RefersToOwn(c), NEW hidden
  PROVE  Learned(c, Walked(c, hidden)) /\ RefersToOwn(Walked(c, hidden))
<1> DEFINE reached == Lineage(c, hidden)
           new == {q \in reached \ hidden : c.tracked[q] # table[q].start}
           count == Cardinality({q \in Pids : c.tracked[q] # 0} \cup new)
           doubt == \/ (reached # {} /\ count >= MaxTracked)
                    \/ reached \cap hidden # {}
                    \/ \E q \in new : c.tracked[q] # 0
           refs == [q \in Pids |-> IF q \in new THEN table[q].start ELSE c.tracked[q]]
           w == Walked(c, hidden)
<1>1. table \in [Pids -> Processes]
  BY DEF Inv, TypesOK
<1>2. w = [c EXCEPT !.uncertain = @ \/ doubt,
                    !.tracked = [q \in Pids |->
                        IF q \in new THEN table[q].start ELSE @[q]]]
  BY DEF Walked
<1>3. \A q \in new : /\ q \in Pids /\ table[q].state # "gone"
                     /\ table[q].kind = "own" \/ (q = Leader /\ c.root)
                     /\ c.tracked[q] # table[q].start
  BY LineageIsOwn
<1> HIDE DEF new, reached
<1>4. w = [c EXCEPT !.uncertain = c.uncertain \/ doubt, !.tracked = refs]
  BY <1>2 DEF Controllers
<1> HIDE DEF count
<1>5. doubt \in BOOLEAN
  OBVIOUS
<1> HIDE DEF doubt
<1>6. refs \in [Pids -> 0..starts]
  BY <1>1 DEF Controllers, Processes
<1>7. \A p \in Pids : refs[p] = IF p \in new THEN table[p].start ELSE c.tracked[p]
  OBVIOUS
<1> HIDE DEF refs, w
<1>8. /\ w.root = c.root /\ w.requested = c.requested /\ w.tracking = c.tracking
      /\ w.termination = c.termination /\ w.uncertain = (c.uncertain \/ doubt)
      /\ w.tracked = refs /\ w.guarded = c.guarded
  BY <1>4 DEF Controllers
<1>9. w \in Controllers
  BY <1>4, <1>5, <1>6 DEF Controllers
<1>10. \A p \in Pids : Noticed(c, p) => Noticed(w, p)
  BY <1>7, <1>8 DEF Noticed
<1>11. Learned(c, w)
  BY <1>8, <1>9, <1>10 DEF Learned
<1>12. RefersToOwn(w)
  BY <1>3, <1>7, <1>8 DEF RefersToOwn
<1> QED  BY <1>11, <1>12 DEF w

-----------------------------------------------------------------------------
(* The steps of the controller.                                            *)

\* What a step that leaves the processes alone has to keep.
LEMMA ControllerStep ==
  ASSUME Inv, main # "returned",
         UNCHANGED <<table, starts, main, waitErr, cause, outcome>>,
         unseen' \subseteq Pids, ctl' \in Controllers,
         watch' \in [at : {"", "watching", "cancelling", "delay", "closed", "done"},
                     err : {"", "ctx", "delay"}],
         seq' = Idle \/ seq' \in [at : {"discover", "walk", "scanned"}, next : Stages],
         RefersToOwn(ctl'), SequenceOK', SignalsOK', LastScanOK'
  PROVE  Inv'
<1>1. Processes' = Processes /\ Controllers' = Controllers
  BY DEF Processes, Controllers
<1>2. TypesOK'
  BY <1>1 DEF Inv, TypesOK
<1>3. TreeOK' /\ LeaderOK' /\ RefersToOwn(ctl)'
  BY DEF Inv, TreeOK, LeaderOK, RefersToOwn
<1>4. OutcomeOK'
  BY NoOutcome
<1> QED  BY <1>2, <1>3, <1>4 DEF Inv

\* While a scan goes on the run has not returned.
LEMMA Scanning ==
  ASSUME Inv, seq.at # "idle"
  PROVE  /\ main \notin {"prepared", "returned"}
         /\ seq \in [at : {"discover", "walk", "scanned"}, next : Stages]
         /\ \/ watch.at = "cancelling" /\ seq.next \notin {"first", "reap", "last"}
                 /\ main # "finishing"
            \/ main = "finishing" /\ watch.at \in {"", "done"} /\ seq.next # "cancel"
<1>0. Idle.at = "idle"
  BY DEF Idle
<1>1. seq # Idle
  BY <1>0
<1>2. seq \in [at : {"discover", "walk", "scanned"}, next : Stages]
  BY <1>1 DEF Inv, TypesOK
<1> QED  BY <1>2 DEF Inv, SequenceOK

\* What has been learned keeps the run's signals justified.
LEMMA LearnedSignals ==
  ASSUME Inv, Learned(ctl, ctl'), cause' = cause, seq'.next = seq.next
  PROVE  SignalsOK'
  BY DEF Inv, SignalsOK, Learned

LEMMA DiscoverOK ==
  ASSUME Inv, Discover
  PROVE  Inv'
<1>0. PICK hidden \in Unreadable({Self} \cup Children(Self)) :
        /\ ctl' = DiscoverGuardedOrphans(hidden)
        /\ unseen' = {q \in hidden \ Tracked : q # Self /\ seq.next = "last"}
  BY DEF Discover
<1>1. /\ seq.at = "discover" /\ seq' = [seq EXCEPT !.at = "walk"]
      /\ UNCHANGED <<table, starts, main, waitErr, cause, outcome, watch>>
  BY DEF Discover, run
<1>2. /\ main \notin {"prepared", "returned"}
      /\ seq \in [at : {"discover", "walk", "scanned"}, next : Stages]
  BY <1>1, Scanning
<1>3. /\ seq' \in [at : {"discover", "walk", "scanned"}, next : Stages]
      /\ seq'.next = seq.next /\ seq'.at = "walk"
  BY <1>1, <1>2
<1>4. Learned(ctl, ctl') /\ RefersToOwn(ctl')
  BY <1>0, DiscoverLearns
<1>5. SequenceOK'
  BY <1>1, <1>2, <1>3 DEF Inv, SequenceOK
<1>6. SignalsOK'
  BY <1>1, <1>3, <1>4, LearnedSignals
<1>7. LastScanOK'
  <2>1. SUFFICES ASSUME seq.next = "last", ~ctl'.uncertain, NEW p \in Pids, Orphan(p)
        PROVE  p \in unseen' \/ p = Leader \/ Noticed(ctl', p)
    BY <1>1, <1>3 DEF LastScanOK, Orphan, Noticed, Own, Running
  <2>2. p \in hidden \ Tracked \/ p = Leader \/ Noticed(ctl', p)
    BY <1>0, <2>1, DiscoverLearns
  <2> QED  BY <1>0, <2>1, <2>2, PidsAssumption
<1>8. watch \in [at : {"", "watching", "cancelling", "delay", "closed", "done"},
                 err : {"", "ctx", "delay"}]
  BY DEF Inv, TypesOK
<1>9. unseen' \subseteq Pids
  BY <1>0 DEF Unreadable, Children
<1> QED  BY <1>9, <1>1, <1>2, <1>3, <1>4, <1>5, <1>6, <1>7, <1>8, ControllerStep DEF Learned

LEMMA WalkOK ==
  ASSUME Inv, Walk
  PROVE  Inv'
<1>0. PICK hidden \in Unreadable(Pids) : ctl' = Walked(ctl, hidden)
  BY DEF Walk
<1>1. /\ seq.at = "walk"
      /\ seq' = [seq EXCEPT !.at = "scanned"]
      /\ UNCHANGED <<table, starts, main, waitErr, cause, outcome, watch, unseen>>
  BY DEF Walk, run
<1>2. /\ main \notin {"prepared", "returned"}
      /\ seq \in [at : {"discover", "walk", "scanned"}, next : Stages]
  BY <1>1, Scanning
<1>3. /\ seq' \in [at : {"discover", "walk", "scanned"}, next : Stages]
      /\ seq'.next = seq.next /\ seq'.at = "scanned"
  BY <1>1, <1>2
<1>4. Learned(ctl, ctl') /\ RefersToOwn(ctl')
  BY <1>0, WalkLearns DEF Inv, TypesOK
<1>5. SequenceOK'
  BY <1>1, <1>2, <1>3 DEF Inv, SequenceOK
<1>6. SignalsOK'
  BY <1>1, <1>3, <1>4, LearnedSignals
<1>7. LastScanOK'
  BY <1>1, <1>3, <1>4 DEF Inv, LastScanOK, Learned, Orphan, Noticed, Own, Running
<1>8. /\ watch \in [at : {"", "watching", "cancelling", "delay", "closed", "done"},
                    err : {"", "ctx", "delay"}]
      /\ unseen' \subseteq Pids
  BY <1>1 DEF Inv, TypesOK
<1> QED  BY <1>1, <1>2, <1>3, <1>4, <1>5, <1>6, <1>7, <1>8, ControllerStep DEF Learned

LEMMA TrackOK ==
  ASSUME Inv, Track
  PROVE  Inv'
<1>0. PICK hidden \in Unreadable({Self} \cup Pids) :
        ctl' = Walked(DiscoverGuardedOrphans(hidden), hidden)
  BY DEF Track
<1> DEFINE d == DiscoverGuardedOrphans(hidden)
<1>1. /\ main \notin {"prepared", "returned"} /\ ctl' = Walked(d, hidden)
      /\ UNCHANGED <<table, starts, main, waitErr, cause, outcome, watch, seq, unseen>>
  BY <1>0 DEF Track, run, Active
<1>2. Learned(ctl, d) /\ RefersToOwn(d) /\ d \in Controllers
  BY DiscoverLearns DEF Learned
<1> HIDE DEF d
<1>3. Learned(d, Walked(d, hidden)) /\ RefersToOwn(Walked(d, hidden))
  BY <1>2, WalkLearns
<1>4. Learned(ctl, ctl') /\ RefersToOwn(ctl')
  BY <1>1, <1>2, <1>3 DEF Learned
<1>5. SequenceOK'
  BY <1>1 DEF Inv, SequenceOK
<1>6. SignalsOK'
  BY <1>1, <1>4, LearnedSignals
<1>7. LastScanOK'
  BY <1>1, <1>4 DEF Inv, LastScanOK, Learned, Orphan, Noticed, Own, Running
<1>8. /\ watch \in [at : {"", "watching", "cancelling", "delay", "closed", "done"},
                    err : {"", "ctx", "delay"}]
      /\ unseen' \subseteq Pids
      /\ seq = Idle \/ seq \in [at : {"discover", "walk", "scanned"}, next : Stages]
  BY <1>1 DEF Inv, TypesOK
<1> QED  BY <1>1, <1>4, <1>5, <1>6, <1>7, <1>8, ControllerStep DEF Learned

\* A controller d that differs from ctl in flags only.
Flagged(d) ==
    /\ d \in Controllers
    /\ d.tracked = ctl.tracked /\ d.guarded = ctl.guarded /\ d.root = ctl.root
    /\ d.requested = ctl.requested /\ (ctl.uncertain => d.uncertain)

\* The sequence goes on with another scan.
LEMMA NextScan ==
  ASSUME Inv, NEW next \in Stages, seq.at = "scanned", Scan(next), Flagged(ctl'),
         UNCHANGED <<table, starts, main, waitErr, cause, outcome, watch, unseen>>,
         watch.at = "cancelling" => next \notin {"first", "reap", "last"},
         next # "cancel",
         next \in Terminating => ctl'.requested \/ ctl'.uncertain,
         ctl'.termination # ctl.termination => ctl'.requested \/ ctl'.uncertain
  PROVE  Inv'
<1>1. /\ main \notin {"prepared", "returned"}
      /\ \/ watch.at = "cancelling" /\ main # "finishing"
         \/ main = "finishing" /\ watch.at \in {"", "done"}
  BY Scanning
<1>2. /\ seq' \in [at : {"discover", "walk", "scanned"}, next : Stages]
      /\ seq'.at = "discover" /\ seq'.next = next
  BY DEF Scan
<1>3. SequenceOK'
  BY <1>1, <1>2 DEF Inv, SequenceOK
<1>4. SignalsOK'
  BY <1>2 DEF Inv, SignalsOK, Flagged
<1>5. LastScanOK'
  BY <1>2 DEF LastScanOK
<1>6. RefersToOwn(ctl')
  BY DEF Inv, RefersToOwn, Flagged
<1>7. /\ watch \in [at : {"", "watching", "cancelling", "delay", "closed", "done"},
                    err : {"", "ctx", "delay"}]
      /\ unseen' \subseteq Pids
  BY DEF Inv, TypesOK
<1> QED  BY <1>1, <1>2, <1>3, <1>4, <1>5, <1>6, <1>7, ControllerStep DEF Flagged

\* cancel returns to the watcher.
LEMMA CancelReturns ==
  ASSUME Inv, seq.at = "scanned", seq' = Idle, Flagged(ctl'),
         ctl'.termination = ctl.termination,
         UNCHANGED <<table, starts, main, waitErr, cause, outcome, unseen>>,
         watch.at = "cancelling",
         NEW e \in {"", "ctx"}, watch' = [at |-> "delay", err |-> e]
  PROVE  Inv'
<1>1. main \notin {"prepared", "returned", "finishing", "draining", "drained"}
  BY Scanning DEF Inv, SequenceOK
<1>2. seq'.at = "idle" /\ seq'.next = "" /\ watch'.at = "delay"
  BY DEF Idle
<1>3. SequenceOK'
  BY <1>1, <1>2 DEF Inv, SequenceOK
<1>4. SignalsOK'
  BY <1>2 DEF Inv, SignalsOK, Flagged, Terminating
<1>5. LastScanOK'
  BY <1>2 DEF LastScanOK
<1>6. RefersToOwn(ctl')
  BY DEF Inv, RefersToOwn, Flagged
<1>7. unseen' \subseteq Pids
  BY DEF Inv, TypesOK
<1>8. watch' \in [at : {"", "watching", "cancelling", "delay", "closed", "done"},
                  err : {"", "ctx", "delay"}]
  OBVIOUS
<1> QED  BY <1>1, <1>3, <1>4, <1>5, <1>6, <1>7, <1>8, ControllerStep DEF Flagged

\* Assigning a flag of the controller.
LEMMA Flags ==
  ASSUME Inv
  PROVE  /\ Flagged(ctl)
         /\ \A b \in BOOLEAN :
               /\ Flagged([ctl EXCEPT !.uncertain = ctl.uncertain \/ b])
               /\ [ctl EXCEPT !.uncertain = ctl.uncertain \/ b].termination = ctl.termination
               /\ [ctl EXCEPT !.uncertain = ctl.uncertain \/ b].uncertain = (ctl.uncertain \/ b)
         /\ \A s \in {"none", "graceful", "forced"} : Flagged([ctl EXCEPT !.termination = s])
<1>1. ctl \in Controllers
  BY DEF Inv, TypesOK
<1> QED  BY <1>1 DEF Flagged, Controllers

\* The terminating sequence is over: the watcher waits, or finish reaps.
LEMMA SequenceEndsOK ==
  ASSUME Inv, NEW c, Flagged(c), c.termination = ctl.termination,
         seq.at = "scanned", SequenceEnds(c), Quiet
  PROVE  Inv'
<1>1. UNCHANGED <<table, starts, main, waitErr, cause, outcome, unseen>>
  BY DEF Quiet
<1>2. CASE watch.at = "cancelling"
  <2>1. watch' = [at |-> "delay", err |-> "ctx"] /\ seq' = Idle /\ ctl' = c
    BY <1>2 DEF SequenceEnds
  <2> QED  BY <1>1, <1>2, <2>1, CancelReturns
<1>3. CASE watch.at # "cancelling"
  <2>1. /\ watch' = watch /\ Scan("reap") /\ ctl' = [c EXCEPT !.tracking = FALSE]
    BY <1>3 DEF SequenceEnds, StopTracker
  <2>2. Flagged(ctl') /\ ctl'.termination = ctl.termination
    BY <2>1 DEF Flagged, Controllers
  <2>3. "reap" \in Stages /\ "reap" \notin Terminating
    BY DEF Stages, Terminating
  <2> QED  BY <1>1, <1>3, <2>1, <2>2, <2>3, NextScan
<1> QED  BY <1>2, <1>3

LEMMA NothingAliveOK ==
  ASSUME Inv, NothingAlive
  PROVE  Inv'
<1>1. PICK next \in {"term", "grace", "forced"} :
        /\ Scanned(next)
        /\ SequenceEnds([ctl EXCEPT !.uncertain = @ \/ (Alive /\ next # "term")])
  BY DEF NothingAlive
<1> DEFINE b == Alive /\ next # "term"
           c == [ctl EXCEPT !.uncertain = ctl.uncertain \/ b]
<1>2. seq.at = "scanned" /\ SequenceEnds(c) /\ Quiet
  BY <1>1 DEF NothingAlive, Scanned
<1>3. b \in BOOLEAN
  BY DEF Alive
<1> HIDE DEF b
<1>4. Flagged(c) /\ c.termination = ctl.termination
  BY <1>3, Flags
<1> HIDE DEF c
<1> QED  BY <1>2, <1>4, SequenceEndsOK

LEMMA ForcedExpiresOK ==
  ASSUME Inv, ForcedExpires
  PROVE  Inv'
<1> DEFINE c == [ctl EXCEPT !.uncertain = TRUE]
<1>1. seq.at = "scanned" /\ SequenceEnds(c) /\ Quiet
  BY DEF ForcedExpires, Scanned
<1>2. Flagged(c) /\ c.termination = ctl.termination
  BY DEF Inv, TypesOK, Flagged, Controllers
<1> HIDE DEF c
<1> QED  BY <1>1, <1>2, SequenceEndsOK

LEMMA TerminateOK ==
  ASSUME Inv, Terminate
  PROVE  Inv'
<1>1. /\ seq.at = "scanned" /\ seq.next = "term" /\ Scan("grace")
      /\ ctl' = [ctl EXCEPT !.termination =
             IF ctl.termination = "none" THEN "graceful" ELSE ctl.termination]
      /\ UNCHANGED <<table, starts, main, waitErr, cause, outcome, watch, unseen>>
  BY DEF Terminate, Scanned, run
<1>2. ctl.termination \in {"none", "graceful", "forced"}
  BY DEF Inv, TypesOK, Controllers
<1>3. Flagged(ctl')
  BY <1>1, <1>2, Flags
<1>4. ctl.requested \/ ctl.uncertain
  BY <1>1 DEF Inv, SignalsOK, Terminating
<1>5. ctl'.requested \/ ctl'.uncertain
  BY <1>3, <1>4 DEF Flagged
<1>6. "grace" \in Stages \ {"first", "reap", "last", "cancel"}
  BY DEF Stages
<1> QED  BY <1>1, <1>3, <1>5, <1>6, NextScan

\* The sequence looks again, or goes on to the kill.
LEMMA WaitingOK ==
  ASSUME Inv, StillAlive \/ GraceExpires
  PROVE  Inv'
<1>1. PICK next \in {"grace", "kill", "forced"} :
        /\ seq.at = "scanned" /\ seq.next \in Terminating /\ Scan(next)
        /\ UNCHANGED <<table, starts, main, waitErr, cause, outcome, watch, unseen, ctl>>
  BY DEF StillAlive, GraceExpires, Scanned, Quiet, Terminating
<1>2. Flagged(ctl') /\ (ctl'.requested \/ ctl'.uncertain)
  BY <1>1, Flags DEF Inv, SignalsOK
<1>3. next \in Stages \ {"first", "reap", "last", "cancel"}
  BY DEF Stages
<1> QED  BY <1>1, <1>2, <1>3, NextScan

LEMMA CancelDecidesOK ==
  ASSUME Inv, CancelDecides
  PROVE  Inv'
<1>1. /\ seq.at = "scanned" /\ seq.next = "cancel" /\ ctl' = ctl
      /\ UNCHANGED <<table, starts, main, waitErr, cause, outcome, unseen>>
  BY DEF CancelDecides, Scanned, Quiet
<1>2. Flagged(ctl') /\ ctl'.requested
  BY <1>1, Flags DEF Inv, SignalsOK
<1>0. PICK alive \in FoundAlive :
        IF alive THEN Scan("term") /\ UNCHANGED watch
        ELSE seq' = Idle /\ watch' = [at |-> "delay", err |-> ""]
  BY DEF CancelDecides
<1>3. CASE alive
  <2>1. Scan("term") /\ watch' = watch
    BY <1>0, <1>3
  <2>2. "term" \in Stages \ {"first", "reap", "last", "cancel"}
    BY DEF Stages
  <2> QED  BY <1>1, <1>2, <2>1, <2>2, NextScan
<1>4. CASE ~alive
  <2>1. seq' = Idle /\ watch' = [at |-> "delay", err |-> ""]
    BY <1>0, <1>4
  <2>2. watch.at = "cancelling"
    BY <1>1, Scanning
  <2> QED  BY <1>1, <1>2, <2>1, <2>2, CancelReturns
<1> QED  BY <1>3, <1>4

LEMMA FinishDecidesOK ==
  ASSUME Inv, FinishDecides
  PROVE  Inv'
<1>1. /\ seq.at = "scanned" /\ seq.next = "first"
      /\ UNCHANGED <<table, starts, main, waitErr, cause, outcome, unseen, watch>>
  BY DEF FinishDecides, Scanned, Quiet
<1>2. watch.at # "cancelling"
  BY <1>1, Scanning
<1>0. PICK alive \in FoundAlive :
        IF alive THEN Scan("term") /\ ctl' = Surviving ELSE StopTracker(ctl)
  BY DEF FinishDecides
<1>3. CASE alive
  <2> DEFINE b == Alive /\ ~ctl.requested
  <2>1. Scan("term") /\ ctl' = [ctl EXCEPT !.uncertain = ctl.uncertain \/ b]
    BY <1>0, <1>3 DEF Surviving
  <2>2. b \in BOOLEAN /\ (b <=> ~ctl.requested)
    BY <1>3 DEF FoundAlive, Alive
  <2> HIDE DEF b
  <2>3. Flagged(ctl') /\ ctl'.termination = ctl.termination
           /\ ctl'.uncertain = (ctl.uncertain \/ b)
    BY <2>1, <2>2, Flags
  <2>4. "term" \in Stages \ {"first", "reap", "last", "cancel"}
    BY DEF Stages
  <2>5. ctl'.requested \/ ctl'.uncertain
    BY <2>2, <2>3 DEF Flagged
  <2> QED  BY <1>1, <2>1, <2>3, <2>4, <2>5, NextScan
<1>4. CASE ~alive
  <2>1. SequenceEnds(ctl) /\ Quiet
    BY <1>0, <1>1, <1>2, <1>4 DEF FinishDecides, SequenceEnds
  <2> QED  BY <1>1, <2>1, Flags, SequenceEndsOK
<1> QED  BY <1>3, <1>4

\* start refers to whoever has the leader's pid.
LEMMA StartRefers ==
  ASSUME Inv
  PROVE  \A c \in Start :
            /\ c \in Controllers /\ RefersToOwn(c)
            /\ (ctl.uncertain => c.uncertain) /\ c.requested = ctl.requested
            /\ c.termination = ctl.termination
<1>1. /\ ctl \in Controllers /\ table[Leader].start \in 0..starts /\ Leader \in Pids
  BY PidsAssumption DEF Inv, TypesOK, Processes
<1> DEFINE t == [ctl.tracked EXCEPT ![Leader] =
                   IF table[Leader].state = "gone" THEN @ ELSE table[Leader].start]
           c1 == [ctl EXCEPT !.root = TRUE, !.tracking = TRUE,
                 !.tracked[Leader] = IF table[Leader].state = "gone" THEN @
                                     ELSE table[Leader].start]
           c2 == [ctl EXCEPT !.root = TRUE, !.tracking = TRUE, !.uncertain = TRUE]
<1>2. /\ c1.tracked = t /\ c1.guarded = ctl.guarded /\ c1.root = TRUE
      /\ c1.uncertain = ctl.uncertain /\ c1.requested = ctl.requested
      /\ c1.termination = ctl.termination
  BY <1>1 DEF Controllers
<1>3. /\ c2.tracked = ctl.tracked /\ c2.guarded = ctl.guarded /\ c2.root = TRUE
      /\ c2.uncertain = TRUE /\ c2.requested = ctl.requested
      /\ c2.termination = ctl.termination
  BY <1>1 DEF Controllers
<1>4. t \in [Pids -> 0..starts]
  BY <1>1 DEF Controllers
<1>5. \A p \in Pids \ {Leader} : t[p] = ctl.tracked[p]
  BY <1>1 DEF Controllers
<1>6. c1 \in Controllers
  BY <1>1, <1>4 DEF Controllers
<1>7. c2 \in Controllers
  BY <1>1 DEF Controllers
<1>8. \A c \in Start : c = c1 \/ c = c2
  BY DEF Start
<1> HIDE DEF t, c1, c2
<1>9. RefersToOwn(c1)
  BY <1>2, <1>5 DEF Inv, RefersToOwn
<1>10. RefersToOwn(c2)
  BY <1>3 DEF Inv, RefersToOwn
<1> QED  BY <1>2, <1>3, <1>6, <1>7, <1>8, <1>9, <1>10

LEMMA CancelBeginsOK ==
  ASSUME Inv, CancelBegins
  PROVE  Inv'
<1>1. /\ watch.at = "watching" /\ cause # "" /\ main # "returned"
      /\ watch' = [watch EXCEPT !.at = "cancelling"]
      /\ UNCHANGED <<table, starts, main, waitErr, cause, outcome, unseen>>
  BY DEF CancelBegins, Quiet
<1>2. PICK c \in Start : ctl' = [c EXCEPT !.requested = TRUE]
  BY DEF CancelBegins
<1>3. \/ seq' = [at |-> "scanned", next |-> "cancel"]
      \/ seq' = [at |-> "discover", next |-> "cancel"]
  BY DEF CancelBegins, Scan
<1>4. /\ seq' \in [at : {"discover", "walk", "scanned"}, next : Stages]
      /\ seq'.next = "cancel" /\ seq'.at # "idle"
  BY <1>3 DEF Stages
<1>5. watch' \in [at : {"", "watching", "cancelling", "delay", "closed", "done"},
                  err : {"", "ctx", "delay"}] /\ watch'.at = "cancelling"
  BY <1>1 DEF Inv, TypesOK
<1>6. main \notin {"prepared", "draining", "drained", "finishing", "returned"}
  BY <1>1 DEF Inv, SequenceOK
<1>7. SequenceOK'
  BY <1>1, <1>4, <1>5, <1>6 DEF SequenceOK
<1>8. c \in Controllers /\ RefersToOwn(c) /\ (ctl.uncertain => c.uncertain)
  BY <1>2, StartRefers
<1>9. ctl' \in Controllers /\ RefersToOwn(ctl') /\ ctl'.requested
  BY <1>2, <1>8 DEF Controllers, RefersToOwn
<1>10. SignalsOK'
  BY <1>1, <1>4, <1>9 DEF SignalsOK, Terminating
<1>11. LastScanOK'
  BY <1>4 DEF LastScanOK
<1>12. unseen' \subseteq Pids
  BY <1>1 DEF Inv, TypesOK
<1> QED  BY <1>1, <1>4, <1>5, <1>7, <1>9, <1>10, <1>11, <1>12, ControllerStep

-----------------------------------------------------------------------------
(* The steps that change the processes and the run.                        *)

\* What they have to keep.
LEMMA RunStep ==
  ASSUME Inv, NEW E \in SUBSET Pids, Restated(E),
         main # "returned", outcome' = outcome,
         main' \in {"prepared", "started", "waiting", "reaped", "draining",
                    "drained", "finishing"},
         waitErr' \in {"", "start", "exit", "ctx", "delay"},
         unseen' \subseteq Pids, ctl' \in Controllers,
         watch' \in [at : {"", "watching", "cancelling", "delay", "closed", "done"},
                     err : {"", "ctx", "delay"}],
         seq' = Idle \/ seq' \in [at : {"discover", "walk", "scanned"}, next : Stages],
         main' \in {"started", "waiting"} =>
             main \in {"started", "waiting"} /\ Leader \notin E,
         RefersToOwn(ctl)', SequenceOK', SignalsOK', LastScanOK'
  PROVE  Inv'
<1>1. /\ Worn(E) /\ table' \in [Pids -> Processes'] /\ Leader \in Pids
      /\ starts' = starts /\ starts' \in starts..MaxStarts
  BY RestatedOK, PidsAssumption DEF Restated
<1>2. Controllers' = Controllers /\ starts' \in 0..MaxStarts
  <2>0. starts' = starts
    BY <1>1
  <2>1. Controllers' = Controllers
    BY <2>0 DEF Controllers
  <2>2. starts \in 0..MaxStarts
    BY DEF Inv, TypesOK
  <2> QED  BY <2>0, <2>1, <2>2
<1>3. TypesOK'
  BY <1>1, <1>2 DEF TypesOK
<1>4. TreeOK'
  BY <1>1, WornTree
<1>5. LeaderOK'
  <2>1. \A p \in Pids : table'[p].state # "gone" => table'[p].parent = table[p].parent
    BY RestatedOK
  <2>2. \A p \in Pids \ E : table[p].state # "gone" =>
                table'[p].state # "gone" /\ table'[p].kind = table[p].kind
    BY RestatedOK
  <2> QED  BY <1>1, <2>1, <2>2 DEF LeaderOK, Inv
<1>6. OutcomeOK'
  BY NoOutcome
<1> QED  BY <1>3, <1>4, <1>5, <1>6 DEF Inv

LEMMA SameTable ==
  ASSUME Inv, UNCHANGED <<table, starts>>
  PROVE  Restated({})
<1>1. table = [p \in Pids |-> table[p]]
  BY DEF Inv, TypesOK
<1> QED  BY <1>1 DEF Restated

LEMMA KillOK ==
  ASSUME Inv, Kill
  PROVE  Inv'
<1>1. /\ seq.at = "scanned" /\ seq.next = "kill" /\ Scan("forced")
      /\ table' = [p \in Pids |-> IF p \in Signaled
                   THEN [table[p] EXCEPT !.state = "doomed"] ELSE table[p]]
      /\ ctl' = IF Signaled # {} THEN [ctl EXCEPT !.termination = "forced"] ELSE ctl
      /\ UNCHANGED <<starts, main, watch, waitErr, cause, outcome, unseen>>
  BY DEF Kill, Scanned, run
<1>2. \A p \in Signaled : p \in Pids /\ table[p].state \in {"live", "doomed"}
  BY DEF Signaled, LiveTargets, Running, Tracked
<1>3. Restated({})
  BY <1>1, <1>2 DEF Restated
<1>4. Flagged(ctl')
  BY <1>1, Flags
<1>5. RefersToOwn(ctl)'
  <2>1. Worn({})
    BY <1>3, RestatedOK
  <2> QED  BY <1>4, <2>1, WornRefers DEF Flagged
<1>6. /\ main \notin {"prepared", "returned"}
      /\ \/ watch.at = "cancelling" /\ main # "finishing"
         \/ main = "finishing" /\ watch.at \in {"", "done"}
  BY <1>1, Scanning
<1>7. /\ seq' \in [at : {"discover", "walk", "scanned"}, next : Stages]
      /\ seq'.at = "discover" /\ seq'.next = "forced"
  BY <1>1 DEF Scan, Stages
<1>8. SequenceOK'
  BY <1>1, <1>6, <1>7 DEF Inv, SequenceOK
<1>9. SignalsOK'
  BY <1>1, <1>4, <1>7 DEF Inv, SignalsOK, Flagged, Terminating
<1>10. LastScanOK'
  BY <1>7 DEF LastScanOK
<1>11. /\ unseen' \subseteq Pids /\ waitErr' \in {"", "start", "exit", "ctx", "delay"}
       /\ watch' \in [at : {"", "watching", "cancelling", "delay", "closed", "done"},
                     err : {"", "ctx", "delay"}]
       /\ main' \in {"prepared", "started", "waiting", "reaped", "draining",
                    "drained", "finishing"}
  BY <1>1, <1>6 DEF Inv, TypesOK
<1> QED  BY <1>1, <1>3, <1>4, <1>5, <1>6, <1>7, <1>8, <1>9, <1>10, <1>11, RunStep
         DEF Flagged

LEMMA ReapGuardedOrphansOK ==
  ASSUME Inv, ReapGuardedOrphans
  PROVE  Inv'
<1> DEFINE gone == {p \in Pids : ctl.guarded[p] # 0
                   /\ (table[p].state = "gone" \/ table[p].start # ctl.guarded[p])}
           over == {p \in gone \cup Reapable : ctl.guarded[p] # 0}
           g == [p \in Pids |-> IF p \in over THEN 0 ELSE ctl.guarded[p]]
           t == [p \in Pids |-> IF p \in over /\ ctl.tracked[p] = ctl.guarded[p]
                                THEN 0 ELSE ctl.tracked[p]]
<1>1. /\ seq.at = "scanned" /\ seq.next = "reap" /\ Scan("last")
      /\ table' = [p \in Pids |-> IF p \in Reapable THEN Gone ELSE table[p]]
      /\ UNCHANGED <<starts, main, watch, waitErr, cause, outcome, unseen>>
  BY DEF ReapGuardedOrphans, Scanned, run
<1>2. ctl' = [ctl EXCEPT !.guarded = g, !.tracked = t]
  BY DEF ReapGuardedOrphans, Inv, TypesOK, Controllers
<1>3. Reapable \subseteq Pids /\ \A p \in Reapable : table[p].state = "zombie"
  BY DEF Reapable
<1>4. Restated(Reapable)
  BY <1>1, <1>3 DEF Restated
<1> HIDE DEF over
<1>5. ctl \in Controllers /\ 0 \in 0..starts
  <2>1. ctl \in Controllers
    BY DEF Inv, TypesOK
  <2>2. 0 \in 0..starts
    BY Counts
  <2> QED  BY <2>1, <2>2
<1>6. g \in [Pids -> 0..starts] /\ t \in [Pids -> 0..starts]
  BY <1>5 DEF Controllers
<1>7. \A p \in Pids : t[p] \in {0, ctl.tracked[p]} /\ g[p] \in {0, ctl.guarded[p]}
  OBVIOUS
<1> HIDE DEF g, t
<1>8. /\ ctl' \in Controllers /\ ctl'.tracked = t /\ ctl'.guarded = g
      /\ ctl'.root = ctl.root /\ ctl'.requested = ctl.requested
      /\ ctl'.uncertain = ctl.uncertain /\ ctl'.termination = ctl.termination
  BY <1>2, <1>5, <1>6 DEF Controllers
<1>9. RefersToOwn(ctl)'
  <2>1. Worn(Reapable)
    BY <1>3, <1>4, RestatedOK
  <2> QED  BY <1>3, <1>7, <1>8, <2>1, WornRefers
<1>10. main = "finishing" /\ watch.at \in {"", "done"}
  BY <1>1, Scanning
<1>11. /\ seq' \in [at : {"discover", "walk", "scanned"}, next : Stages]
       /\ seq'.at = "discover" /\ seq'.next = "last"
  BY <1>1 DEF Scan, Stages
<1>12. SequenceOK'
  BY <1>1, <1>10, <1>11 DEF Inv, SequenceOK
<1>13. SignalsOK'
  BY <1>1, <1>8, <1>11 DEF Inv, SignalsOK, Terminating
<1>14. LastScanOK'
  BY <1>11 DEF LastScanOK
<1>15. /\ unseen' \subseteq Pids /\ waitErr' \in {"", "start", "exit", "ctx", "delay"}
       /\ watch' \in [at : {"", "watching", "cancelling", "delay", "closed", "done"},
                     err : {"", "ctx", "delay"}]
       /\ main' = "finishing"
  BY <1>1, <1>10 DEF Inv, TypesOK
<1> QED  BY <1>1, <1>3, <1>4, <1>8, <1>9, <1>10, <1>11, <1>12, <1>13, <1>14, <1>15, RunStep

LEMMA DoomedLeader ==
  ASSUME Inv, starts' = starts,
         table' = [table EXCEPT ![Leader].state = IF @ = "live" THEN "doomed" ELSE @]
  PROVE  Restated({})
<1>1. table \in [Pids -> Processes] /\ Leader \in Pids
  BY PidsAssumption DEF Inv, TypesOK
<1>2. table' = [table EXCEPT ![Leader] = [table[Leader] EXCEPT !.state =
                  IF table[Leader].state = "live" THEN "doomed" ELSE table[Leader].state]]
  OBVIOUS
<1>3. table' = [p \in Pids |-> table'[p]] /\ \A p \in Pids \ {Leader} : table'[p] = table[p]
  BY <1>1, <1>2
<1>4. table'[Leader] = [table[Leader] EXCEPT !.state =
                  IF table[Leader].state = "live" THEN "doomed" ELSE table[Leader].state]
  BY <1>1, <1>2
<1>5. CASE table[Leader].state = "live"
  BY <1>3, <1>4, <1>5 DEF Restated
<1>6. CASE table[Leader].state # "live"
  <2>1. table'[Leader] = table[Leader]
    BY <1>1, <1>4, <1>6 DEF Processes
  <2> QED  BY <1>3, <2>1 DEF Restated
<1> QED  BY <1>5, <1>6

LEMMA DelayFiresOK ==
  ASSUME Inv, DelayFires
  PROVE  Inv'
<1>1. /\ watch.at = "delay" /\ main \in {"started", "waiting"}
      /\ watch'.at = "closed" /\ watch' = [at |-> "closed", err |-> watch'.err]
      /\ watch'.err \in {"", "delay", watch.err}
      /\ table' = [table EXCEPT ![Leader].state = IF @ = "live" THEN "doomed" ELSE @]
      /\ UNCHANGED <<starts, main, waitErr, cause, outcome, ctl, seq, unseen>>
  BY DEF DelayFires
<1>2. Restated({})
  BY <1>1, DoomedLeader
<1>3. /\ watch' \in [at : {"", "watching", "cancelling", "delay", "closed", "done"},
                     err : {"", "ctx", "delay"}]
      /\ unseen' \subseteq Pids /\ waitErr' \in {"", "start", "exit", "ctx", "delay"}
      /\ ctl' \in Controllers
      /\ seq' = Idle \/ seq' \in [at : {"discover", "walk", "scanned"}, next : Stages]
  BY <1>1 DEF Inv, TypesOK
<1>4. RefersToOwn(ctl)'
  <2>1. Worn({})
    BY <1>2, RestatedOK
  <2> QED  BY <1>1, <2>1, WornRefers
<1>5. seq.at = "idle"
  BY <1>1 DEF Inv, SequenceOK
<1>6. SequenceOK' /\ LastScanOK'
  BY <1>1, <1>5 DEF Inv, SequenceOK, LastScanOK
<1>7. SignalsOK'
  BY <1>1 DEF Inv, SignalsOK
<1> QED  BY <1>1, <1>2, <1>3, <1>4, <1>6, <1>7, RunStep

\* Nothing of the controller and of its scan changes, and the run goes on.
LEMMA MainStep ==
  ASSUME Inv, NEW E \in SUBSET Pids, Restated(E),
         main # "returned", seq.next # "last" \/ seq.at = "idle",
         main' \in {"started", "waiting", "reaped", "draining", "drained"},
         main # "finishing",
         waitErr' \in {"", "start", "exit", "ctx", "delay"},
         main' \in {"started", "waiting"} =>
             main \in {"started", "waiting"} /\ Leader \notin E,
         UNCHANGED <<seq, unseen, cause, outcome>>,
         ctl' = ctl \/ (ctl' \in Start /\ UNCHANGED <<table, starts>>),
         \/ watch' = watch /\ (main' \in {"draining", "drained"} => watch.at = "done")
         \/ watch.at # "cancelling" /\ watch' = [watch EXCEPT !.at = "done"]
  PROVE  Inv'
<1>1. /\ seq = Idle \/ seq \in [at : {"discover", "walk", "scanned"}, next : Stages]
      /\ unseen' \subseteq Pids /\ ctl \in Controllers
      /\ watch \in [at : {"", "watching", "cancelling", "delay", "closed", "done"},
                    err : {"", "ctx", "delay"}]
  BY DEF Inv, TypesOK
<1>2. /\ watch' \in [at : {"", "watching", "cancelling", "delay", "closed", "done"},
                     err : {"", "ctx", "delay"}]
      /\ watch' = watch \/ watch'.at = "done"
  BY <1>1
<1>3. SequenceOK'
  BY <1>2 DEF Inv, SequenceOK
<1>4. ctl' \in Controllers /\ RefersToOwn(ctl)' /\ SignalsOK'
  <2>1. CASE ctl' = ctl
    <3>1. Worn(E)
      BY RestatedOK
    <3>2. RefersToOwn(ctl)'
      BY <2>1, <3>1, WornRefers
    <3> QED  BY <2>1, <3>2, <1>1 DEF Inv, SignalsOK
  <2>2. CASE ctl' \in Start /\ UNCHANGED <<table, starts>>
    <3>1. /\ ctl' \in Controllers /\ RefersToOwn(ctl')
          /\ (ctl.uncertain => ctl'.uncertain) /\ ctl'.requested = ctl.requested
          /\ ctl'.termination = ctl.termination
      BY <2>2, StartRefers
    <3> QED  BY <2>2, <3>1 DEF Inv, SignalsOK, RefersToOwn
  <2> QED  BY <2>1, <2>2
<1>5. LastScanOK'
  BY DEF LastScanOK
<1> QED  BY <1>1, <1>2, <1>3, <1>4, <1>5, RunStep

\* Only finish begins the last scan.
LEMMA NotLast ==
  ASSUME Inv, main # "finishing"
  PROVE  seq.next # "last" \/ seq.at = "idle"
  BY Scanning

LEMMA ReleaseOK ==
  ASSUME Inv, Release \/ ReleaseFails
  PROVE  Inv'
<1>1. /\ main = "started" /\ main' = "waiting" /\ waitErr' \in {waitErr, "start"}
      /\ UNCHANGED <<seq, unseen, cause, outcome, watch, starts>>
  BY DEF Release, ReleaseFails
<1>2. waitErr' \in {"", "start", "exit", "ctx", "delay"}
  BY <1>1 DEF Inv, TypesOK
<1>3. CASE Release
  <2>1. ctl' \in Start /\ UNCHANGED <<table, starts>>
    BY <1>3 DEF Release
  <2>2. Restated({})
    BY <2>1, SameTable
  <2> QED  BY <1>1, <1>2, <2>1, <2>2, NotLast, MainStep
<1>4. CASE ReleaseFails
  <2>1. ctl' = ctl /\ Restated({})
    BY <1>4, DoomedLeader DEF ReleaseFails
  <2> QED  BY <1>1, <1>2, <2>1, NotLast, MainStep
<1> QED  BY <1>3, <1>4

LEMMA WaitLeaderOK ==
  ASSUME Inv, WaitLeader
  PROVE  Inv'
<1>1. /\ main = "waiting" /\ main' = "reaped" /\ table[Leader].state = "zombie"
      /\ waitErr' \in {waitErr, "exit"} /\ table' = [table EXCEPT ![Leader] = Gone]
      /\ UNCHANGED <<seq, unseen, cause, outcome, watch, starts, ctl>>
  BY DEF WaitLeader
<1>2. waitErr' \in {"", "start", "exit", "ctx", "delay"} /\ table \in [Pids -> Processes]
  BY <1>1 DEF Inv, TypesOK
<1>3. Restated({Leader})
  BY <1>1, <1>2, PidsAssumption DEF Restated
<1> QED  BY <1>1, <1>2, <1>3, PidsAssumption, NotLast, MainStep

LEMMA DrainingOK ==
  ASSUME Inv, TakeResult \/ Drain \/ DrainExpires
  PROVE  Inv'
<1>1. /\ main \in {"reaped", "draining"} /\ main' \in {"draining", "drained"}
      /\ waitErr' \in {waitErr, watch.err, "delay"}
      /\ UNCHANGED <<table, starts, seq, unseen, cause, outcome, ctl>>
  BY DEF TakeResult, Drain, DrainExpires
<1>2. waitErr' \in {"", "start", "exit", "ctx", "delay"}
  BY <1>1 DEF Inv, TypesOK
<1>3. \/ watch' = watch /\ (main' \in {"draining", "drained"} => watch.at = "done")
      \/ watch.at # "cancelling" /\ watch' = [watch EXCEPT !.at = "done"]
  BY DEF TakeResult, Drain, DrainExpires, Inv, SequenceOK
<1>4. Restated({})
  BY <1>1, SameTable
<1> QED  BY <1>1, <1>2, <1>3, <1>4, NotLast, MainStep

LEMMA StartLegoOK ==
  ASSUME Inv, StartLego
  PROVE  Inv'
<1>1. /\ main = "prepared" /\ Spawn(Leader, "own", Self, "group")
      /\ main' = "started" /\ watch' = [watch EXCEPT !.at = "watching"]
      /\ UNCHANGED <<cause, waitErr, outcome, ctl, seq, unseen>>
  BY DEF StartLego
<1>2. /\ starts' \in starts..MaxStarts /\ starts' > starts
      /\ table' \in [Pids -> Processes']
      /\ \A s \in Pids \ {Leader} : table'[s] = table[s]
      /\ table'[Leader] = [start |-> starts + 1, state |-> "live", kind |-> "own",
                           parent |-> Self, bond |-> "group"]
      /\ TreeOK'
  BY <1>1, SpawnOK, PidsAssumption
<1>3. ctl \in Controllers'
  <2>1. 0..starts \subseteq 0..starts'
    BY <1>2, Counts
  <2>2. [Pids -> 0..starts] \subseteq [Pids -> 0..starts']
    BY <2>1
  <2> QED  BY <2>2 DEF Inv, TypesOK, Controllers
<1>4. TypesOK'
  <2>1. starts' \in 0..MaxStarts
    BY <1>2, Counts
  <2> QED  BY <1>1, <1>2, <1>3, <2>1 DEF Inv, TypesOK
<1>5. LeaderOK'
  BY <1>2 DEF LeaderOK
<1>6. seq.at = "idle" /\ watch'.at = "watching"
  BY <1>1 DEF Inv, SequenceOK, TypesOK
<1>7. SequenceOK' /\ LastScanOK'
  BY <1>1, <1>6 DEF SequenceOK, LastScanOK
<1>8. RefersToOwn(ctl)'
  BY <1>1, <1>2 DEF Inv, RefersToOwn
<1>9. SignalsOK'
  BY <1>1 DEF Inv, SignalsOK
<1>10. OutcomeOK'
  BY <1>1, NoOutcome
<1> QED  BY <1>2, <1>4, <1>5, <1>7, <1>8, <1>9, <1>10 DEF Inv

\* Run calls finish: after Wait, or because nothing was started.
LEMMA FinishOK ==
  ASSUME Inv, StartFails \/ Finish
  PROVE  Inv'
<1>1. /\ main \in {"prepared", "drained"} /\ main' = "finishing" /\ Scan("first")
      /\ waitErr' \in {waitErr, "start"}
      /\ UNCHANGED <<table, starts, cause, watch, outcome, ctl, unseen>>
  BY DEF StartFails, Finish
<1>2. /\ seq' \in [at : {"discover", "walk", "scanned"}, next : Stages]
      /\ seq'.next = "first" /\ seq'.at = "discover"
  BY <1>1 DEF Scan, Stages
<1>3. watch.at \in {"", "done"}
  BY <1>1 DEF Inv, SequenceOK
<1>4. SequenceOK' /\ LastScanOK'
  BY <1>1, <1>2, <1>3 DEF SequenceOK, LastScanOK
<1>5. SignalsOK'
  BY <1>1, <1>2 DEF Inv, SignalsOK, Terminating
<1>6. RefersToOwn(ctl)'
  BY <1>1 DEF Inv, RefersToOwn
<1>7. /\ unseen' \subseteq Pids /\ waitErr' \in {"", "start", "exit", "ctx", "delay"}
      /\ watch' \in [at : {"", "watching", "cancelling", "delay", "closed", "done"},
                     err : {"", "ctx", "delay"}]
      /\ ctl' \in Controllers
  BY <1>1 DEF Inv, TypesOK
<1>8. Restated({})
  BY <1>1, SameTable
<1> QED  BY <1>1, <1>2, <1>4, <1>5, <1>6, <1>7, <1>8, RunStep

LEMMA RefuseOK ==
  ASSUME Inv, Refuse
  PROVE  Inv'
<1>1. /\ main = "prepared" /\ main' = "returned" /\ outcome' = "denied"
      /\ UNCHANGED <<table, starts, cause, watch, waitErr, ctl, seq, unseen>>
  BY DEF Refuse
<1>2. seq.at = "idle" /\ watch.at = ""
  BY <1>1 DEF Inv, SequenceOK
<1>3. Processes' = Processes /\ Controllers' = Controllers
  BY <1>1 DEF Processes, Controllers
<1>4. TypesOK'
  BY <1>1, <1>3 DEF Inv, TypesOK
<1>5. TreeOK' /\ LeaderOK' /\ RefersToOwn(ctl)'
  BY <1>1 DEF Inv, TreeOK, LeaderOK, RefersToOwn
<1>6. SequenceOK' /\ SignalsOK' /\ LastScanOK'
  BY <1>1, <1>2 DEF Inv, SequenceOK, SignalsOK, LastScanOK
<1>7. OutcomeOK'
  BY <1>1 DEF OutcomeOK, SuccessIsClean, UnseenOrphansOnly
<1> QED  BY <1>4, <1>5, <1>6, <1>7 DEF Inv

\* What Run returns rests on what the controller knows by now.
LEMMA ReturnOK ==
  ASSUME Inv, Return
  PROVE  Inv'
<1>1. /\ seq.at = "scanned" /\ seq.next = "last" /\ main' = "returned" /\ seq' = Idle
      /\ ctl' = [ctl EXCEPT !.uncertain = ctl.uncertain \/ Alive]
      /\ outcome' = Outcome
      /\ UNCHANGED <<table, starts, exit, overflow, cause, watch, waitErr, unseen>>
  BY DEF Return, Scanned
<1>2. main = "finishing" /\ watch.at \in {"", "done"}
  BY <1>1, Scanning
<1>3. Alive \in BOOLEAN
  BY DEF Alive
<1>4. /\ Flagged(ctl') /\ ctl'.termination = ctl.termination
      /\ ctl'.uncertain = (ctl.uncertain \/ Alive)
  BY <1>1, <1>3, Flags
<1>5. seq'.at = "idle" /\ seq'.next = ""
  BY <1>1 DEF Idle
<1>6. Processes' = Processes /\ Controllers' = Controllers
  BY <1>1 DEF Processes, Controllers
<1>7. TypesOK'
  BY <1>1, <1>4, <1>6 DEF Inv, TypesOK, Flagged
<1>8. TreeOK' /\ LeaderOK' /\ RefersToOwn(ctl)'
  BY <1>1, <1>4 DEF Inv, TreeOK, LeaderOK, RefersToOwn, Flagged
<1>9. SequenceOK' /\ LastScanOK'
  BY <1>1, <1>2, <1>5 DEF SequenceOK, LastScanOK
<1>10. SignalsOK'
  BY <1>1, <1>4, <1>5 DEF Inv, SignalsOK, Flagged, Terminating
<1>11. Outcome # ""
  BY DEF Outcome
<1>12. Outcome \notin {"", "ambiguous", "denied"} => ~ctl'.uncertain
  BY DEF Outcome
<1>13. ctl'.tracked = ctl.tracked /\ ctl'.requested = ctl.requested
  BY <1>4 DEF Flagged
<1>14. LiveTargets' = LiveTargets
  BY <1>1, <1>13 DEF LiveTargets, Tracked, Same, Running
<1>15. ~ctl'.uncertain => LiveTargets = {} /\ ~ctl.uncertain
  BY <1>4 DEF Alive
<1>16. SuccessIsClean'
  <2>1. SUFFICES ASSUME Outcome = "succeeded"
        PROVE  /\ exit = "ok" /\ ~overflow /\ ~ctl.requested
               /\ ctl.termination = "none" /\ LiveTargets = {}
    BY <1>1, <1>4, <1>13, <1>14 DEF SuccessIsClean
  <2>2. /\ exit = "ok" /\ ~overflow /\ ~(ctl.requested /\ cause # "") /\ ~ctl'.uncertain
    BY <2>1 DEF Outcome
  <2>3. ~ctl.requested
    BY <2>2 DEF Inv, SignalsOK
  <2>4. ctl.termination = "none"
    BY <2>2, <2>3, <1>15 DEF Inv, SignalsOK
  <2> QED  BY <2>2, <2>3, <2>4, <1>15
<1>17. UnseenOrphansOnly'
  <2>1. SUFFICES ASSUME ~ctl'.uncertain, NEW p \in Pids, Orphan(p)
        PROVE  p \in unseen \/ p = Leader
    BY <1>1, <1>12 DEF UnseenOrphansOnly, Orphan, Own, Running
  <2>2. p \in unseen \/ p = Leader \/ Noticed(ctl, p)
    BY <1>1, <1>15, <2>1 DEF Inv, LastScanOK
  <2>3. Noticed(ctl, p) => p \in LiveTargets
    BY <2>1 DEF Noticed, LiveTargets, Tracked, Same, Orphan, Running
  <2> QED  BY <2>1, <2>2, <2>3, <1>15
<1>18. OutcomeOK'
  BY <1>1, <1>11, <1>16, <1>17 DEF OutcomeOK
<1> QED  BY <1>7, <1>8, <1>9, <1>10, <1>18 DEF Inv

-----------------------------------------------------------------------------
(* The theorems.                                                           *)

LEMMA StutterOK ==
  ASSUME Inv, UNCHANGED vars
  PROVE  Inv'
<1> USE DEF vars
<1>1. Processes' = Processes /\ Controllers' = Controllers
  BY DEF Processes, Controllers
<1>2. TypesOK'
  BY <1>1 DEF Inv, TypesOK
<1>3. TreeOK' /\ LeaderOK' /\ RefersToOwn(ctl)' /\ SequenceOK' /\ SignalsOK'
  BY DEF Inv, TreeOK, LeaderOK, RefersToOwn, SequenceOK, SignalsOK
<1>4. LastScanOK'
  BY DEF Inv, LastScanOK, Orphan, Noticed, Own, Running
<1>5. OutcomeOK'
  BY DEF Inv, OutcomeOK, SuccessIsClean, UnseenOrphansOnly, LiveTargets, Tracked,
         Same, Own, Running
<1> QED  BY <1>2, <1>3, <1>4, <1>5 DEF Inv

\* Inv is inductive.
LEMMA StepOK ==
  ASSUME Inv, [Next]_vars
  PROVE  Inv'
<1>1. CASE Kernel
  <2>1. CASE Write
    BY <2>1, CausesOK DEF Write
  <2> QED  BY <1>1, <2>1, ForkOK, ParentReapsOK, ProcessExitsOK, ForeignStartsOK,
              ForeignEndsOK DEF Kernel
<1>2. CASE Sequence
  BY <1>2, DiscoverOK, WalkOK, CancelDecidesOK, NothingAliveOK, TerminateOK,
     KillOK, FinishDecidesOK, ReapGuardedOrphansOK, ReturnOK DEF Sequence
<1>3. CASE Main
  BY <1>3, StartLegoOK, ReleaseOK, WaitLeaderOK, DrainingOK, FinishOK DEF Main
<1>4. CASE \E why \in Reasons : Cancelled(why)
  BY <1>4, CausesOK DEF Cancelled
<1>5. CASE Refuse \/ StartFails \/ Track \/ StillAlive \/ GraceExpires \/ ForcedExpires
             \/ CancelBegins \/ DelayFires \/ Drain \/ DrainExpires
  BY <1>5, RefuseOK, FinishOK, TrackOK, WaitingOK, ForcedExpiresOK, CancelBeginsOK,
     DelayFiresOK, DrainingOK
<1>6. CASE UNCHANGED vars
  BY <1>6, StutterOK
<1> QED  BY <1>1, <1>2, <1>3, <1>4, <1>5, <1>6 DEF Next

\* Every reachable state of a run satisfies the inductive invariant.
THEOREM Invariance == Spec => []Inv
<1>1. Inv /\ [Next]_vars => Inv'
  BY StepOK
<1> QED  BY InitOK, <1>1, PTL DEF Spec

\* For any number of pids, of processes and of tracked references, every
\* variable stays in its domain, no reference of the controller is to a
\* process that was not started yet, and Run has an outcome exactly when it
\* has returned.
THEOREM TypeTheorem == Spec => []TypeOK
<1>1. Inv => TypeOK
  <2> SUFFICES ASSUME Inv PROVE TypeOK
    OBVIOUS
  <2>1. 0..starts \subseteq 0..MaxStarts
    BY Counts
  <2>2. table \in [Pids -> [start : 0..MaxStarts,
                           state : {"gone", "live", "doomed", "zombie"},
                           kind : {"own", "sibling"},
                           parent : Pids \cup {Self},
                           bond : {"none", "marker", "group"}]]
    BY <2>1 DEF Inv, TypesOK, Processes
  <2>3. ctl.tracked \in [Pids -> 0..starts] /\ ctl.guarded \in [Pids -> 0..starts]
          /\ ctl.termination \in {"none", "graceful", "forced"}
    BY DEF Inv, TypesOK, Controllers
  <2> QED  BY <2>2, <2>3 DEF TypeOK, Inv, TypesOK, OutcomeOK
<1> QED  BY <1>1, Invariance, PTL

\* A run reported as succeeded exited with status zero, within its output
\* limits, was not asked to end and needed no signal, however its exit, the
\* context, the tracker's scans and the cancellation interleaved.
THEOREM SuccessTheorem == Spec => []SuccessIsClean
<1>1. Inv => SuccessIsClean
  BY DEF Inv, OutcomeOK
<1> QED  BY <1>1, Invariance, PTL

\* After a result that is not ambiguous, the marked orphans still running are
\* those that lost their parent during the last scan, that it could not read
\* and nobody had tracked, or that have the leader's pid: whichever reads of
\* procfs failed in whichever scan.
THEOREM OrphansTheorem == Spec => []UnseenOrphansOnly
<1>1. Inv => UnseenOrphansOnly
  BY DEF Inv, OutcomeOK
<1> QED  BY <1>1, Invariance, PTL

\* The step that a zombie of another command survives.
LEMMA SiblingStep ==
  ASSUME Inv, Next, NEW p \in Pids, table[p].kind = "sibling",
         table[p].state = "zombie", main' # main \/ seq' # seq
  PROVE  table'[p] = table[p]
<1>1. table \in [Pids -> Processes] /\ Leader \in Pids
  BY PidsAssumption DEF Inv, TypesOK
<1>2. CASE Kernel
  BY <1>2 DEF Kernel, Fork, ParentReaps, ProcessExits, ForeignStarts, ForeignEnds, Write, run
<1>3. CASE Kill
  <2>1. p \notin Signaled
    BY DEF Signaled, LiveTargets, Running
  <2> QED  BY <1>3, <2>1 DEF Kill
<1>4. CASE ReapGuardedOrphans
  <2>1. p \notin Reapable
    BY DEF Reapable, Inv, RefersToOwn
  <2> QED  BY <1>4, <2>1 DEF ReapGuardedOrphans
<1>5. CASE StartLego
  BY <1>5, <1>1 DEF StartLego, Spawn
<1>6. CASE WaitLeader
  <2>1. p # Leader
    BY <1>6 DEF WaitLeader, Inv, LeaderOK
  <2> QED  BY <1>6, <2>1, <1>1 DEF WaitLeader
<1>7. CASE ReleaseFails \/ DelayFires
  <2>1. /\ main \in {"started", "waiting"}
        /\ table' = [table EXCEPT ![Leader].state = IF @ = "live" THEN "doomed" ELSE @]
    BY <1>7 DEF ReleaseFails, DelayFires
  <2>2. p # Leader
    BY <2>1 DEF Inv, LeaderOK
  <2> QED  BY <2>1, <2>2, <1>1
<1>8. CASE \/ Discover \/ Walk \/ CancelDecides \/ NothingAlive \/ Terminate
           \/ FinishDecides \/ Return \/ Release \/ TakeResult \/ Finish \/ Refuse
           \/ StartFails \/ (\E why \in Reasons : Cancelled(why)) \/ Track
           \/ StillAlive \/ GraceExpires \/ ForcedExpires \/ CancelBegins \/ Drain
           \/ DrainExpires
  <2>1. table' = table
    BY <1>8 DEF Discover, Walk, CancelDecides, NothingAlive, Terminate, FinishDecides,
       Return, Release, TakeResult, Finish, Refuse, StartFails, Cancelled, Track,
       StillAlive, GraceExpires, ForcedExpires, CancelBegins, Drain, DrainExpires, Quiet
  <2> QED  BY <2>1
<1> QED  BY <1>2, <1>3, <1>4, <1>5, <1>6, <1>7, <1>8 DEF Next, Sequence, Main

\* Neither Wait nor the reaping of guarded orphans takes the exit status of a
\* command that another goroutine started, although pids are reused while
\* the controller refers to them.
THEOREM SiblingsTheorem == Spec => SiblingsKept
<1>1. ASSUME Inv, [Next]_vars
      PROVE  [\A p \in Pids :
                table[p].kind = "sibling" /\ table[p].state = "zombie"
                  /\ (main' # main \/ seq' # seq)
                => table'[p] = table[p]]_vars
  BY <1>1, SiblingStep
<1> QED  BY <1>1, Invariance, PTL DEF Spec, SiblingsKept
=============================================================================
