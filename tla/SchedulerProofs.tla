-------------------------- MODULE SchedulerProofs ----------------------------
(***************************************************************************)
(* Theorems about Scheduler for every zone table, every day length and     *)
(* every number of updates, uses, clock steps and faults.                  *)
(***************************************************************************)
EXTENDS Scheduler, TLAPS, WellFoundedInduction

OptInstants == Instants \cup {NoInstant}
RowType ==
    [enabled : BOOLEAN, zone : Zones, minute : Minutes, next : OptInstants,
     lastDate : Nat \cup {NoDate}, claiming : BOOLEAN, claimed : OptInstants,
     reason : Reasons]
Entry == [occurrence : Instants, date : Nat, recorded : BOOLEAN]

-----------------------------------------------------------------------------
(* The inductive invariant.                                                *)

\* An evaluation between its claim and its settlement holds the durable claim,
\* for a local date that is later than every recorded one.
ClaimHeld ==
    pc \in {"enqueue", "settle"} =>
        /\ row.enabled /\ row.claiming /\ row.claimed = claim
        /\ claim \in Instants
        /\ row.lastDate < OccurrenceLocalDate(claim, row.zone)

\* An accepted answer belongs to the last accepted operation.
AcceptedIsLast ==
    pc = "settle" /\ answer = "accepted" =>
        /\ Len(accepted) > 0
        /\ accepted[Len(accepted)].date = OccurrenceLocalDate(claim, row.zone)
        /\ ~accepted[Len(accepted)].recorded

\* Save is the only way to disable, and it drops the claim.
DisabledIdle == ~row.enabled => ~row.claiming

\* The stored date is the latest recorded one.
RecordedDates ==
    \A i \in 1..Len(accepted) :
        accepted[i].recorded => accepted[i].date <= row.lastDate

\* While the clock has not gone back, everything accepted lies behind the
\* claim in hand and behind the next evaluation.
Ordered ==
    steps = 0 =>
        /\ \A i \in 1..Len(accepted) : accepted[i].occurrence <= clock
        /\ row.enabled =>
              \A i \in 1..Len(accepted) : accepted[i].occurrence < row.next
        /\ pc \in {"enqueue", "settle"} => claim < row.next /\ claim <= clock
        /\ pc = "enqueue" \/ (pc = "settle" /\ answer # "accepted") =>
              \A i \in 1..Len(accepted) : accepted[i].occurrence < claim

IInv ==
    /\ TypeOK /\ steps \in Nat
    /\ NoStuckClaim /\ ClaimHeld /\ AcceptedIsLast /\ DisabledIdle
    /\ RecordedDates /\ OncePerLocalDate
    /\ Ordered /\ NoOccurrenceTwice

-----------------------------------------------------------------------------
(* calculate.go                                                            *)

\* A non-empty set of instants has a first one: what the scan of the instants
\* in occurrenceOnDate and of the dates in nextOccurrence relies on.
LEMMA LeastIsLeast ==
    ASSUME NEW S \in SUBSET Nat, S # {}
    PROVE  Least(S) \in S /\ \A u \in S : Least(S) <= u
<1>. DEFINE R == {ss \in Nat \X Nat : ss[1] < ss[2]}
<1>1. IsWellFoundedOn(R, Nat)
  BY NatLessThanWellFounded, Zenon DEF OpToRel
<1>2. PICK x \in S : \A y \in S : ~(<<y, x>> \in R)
  <2>. HIDE DEF R
  <2>. QED BY <1>1, WFMin, Zenon
<1>3. \A y \in S : x <= y
  <2>. SUFFICES ASSUME NEW y \in S, ~(x <= y) PROVE FALSE
    OBVIOUS
  <2>1. y \in Nat /\ x \in Nat /\ y < x
    OBVIOUS
  <2>2. <<y, x>> \in R
    BY <2>1
  <2>. QED BY <2>2, <1>2, Zenon
<1>. QED BY <1>2, <1>3 DEF Least

\* occurrenceLocalDate is a date.
LEMMA DateType ==
    ASSUME NEW t \in Instants, NEW z \in Zones
    PROVE  OccurrenceLocalDate(t, z) \in Nat
<1>1. LocalTime[z][t] \in Nat
  BY ZonesAssumption
<1>2. DayLength \in Nat /\ DayLength > 0
  BY ZonesAssumption
<1>. QED BY <1>1, <1>2 DEF OccurrenceLocalDate

\* occurrenceOnDate finds an instant or reports that the date has none.
LEMMA OccurrenceType ==
    ASSUME NEW d \in Nat, NEW z \in Zones, NEW m \in Minutes
    PROVE  OccurrenceOnDate(d, z, m) \in OptInstants
<1>. DEFINE found == {t \in Instants :
                        /\ OccurrenceLocalDate(t, z) = d
                        /\ LocalTime[z][t] % DayLength >= m}
<1>1. OccurrenceOnDate(d, z, m) = IF found = {} THEN NoInstant ELSE Least(found)
  BY DEF OccurrenceOnDate
<1>2. found \in SUBSET Nat /\ found \subseteq Instants
  BY ZonesAssumption DEF Instants
<1>. HIDE DEF found
<1>. QED BY <1>1, <1>2, LeastIsLeast DEF OptInstants

\* nextOccurrence returns an instant strictly after the given one, or fails.
LEMMA NextAhead ==
    ASSUME NEW t \in Instants, NEW z \in Zones, NEW m \in Minutes
    PROVE  /\ NextOccurrence(t, z, m) \in OptInstants
           /\ NextOccurrence(t, z, m) # NoInstant => NextOccurrence(t, z, m) > t
<1>. DEFINE date == OccurrenceLocalDate(t, z)
            passes(d) == LET u == OccurrenceOnDate(d, z, m)
                         IN u = NoInstant \/ u > t
            stop == {d \in date..(date + MaxDays) : passes(d)}
<1>1. NextOccurrence(t, z, m) = Search(t, z, m)
  BY DEF NextOccurrence, NextOccurrences
<1>2. Search(t, z, m) =
        IF stop = {} THEN NoInstant ELSE OccurrenceOnDate(Least(stop), z, m)
  BY DEF Search
<1>3. stop \in SUBSET Nat
  BY DateType, ZonesAssumption
<1>4. CASE stop = {}
  BY <1>1, <1>2, <1>4 DEF OptInstants
<1>5. CASE stop # {}
  <2>. DEFINE d == Least(stop)
  <2>1. d \in stop
    <3>. HIDE DEF stop
    <3>. QED BY <1>3, <1>5, LeastIsLeast
  <2>2. d \in Nat /\ passes(d)
    BY <2>1, <1>3
  <2>3. NextOccurrence(t, z, m) = OccurrenceOnDate(d, z, m)
    BY <1>1, <1>2, <1>5
  <2>. HIDE DEF d
  <2>. QED BY <2>2, <2>3, OccurrenceType
<1>. QED BY <1>4, <1>5

-----------------------------------------------------------------------------
(* Every step preserves the invariant.                                     *)

\* The types of what no clause of the invariant but TypeOK looks at.
Plain ==
    /\ operation \in Operations /\ interrupted \in BOOLEAN
    /\ answer \in Answers /\ editing \in BOOLEAN /\ broken \in BOOLEAN

\* A disabled schedule, nothing accepted.
LEMMA InitIInv == Init => IInv
<1>. SUFFICES ASSUME Init PROVE IInv
  OBVIOUS
<1>1. TypeOK
  <2>1. (CHOOSE z \in Zones : TRUE) \in Zones /\ (CHOOSE m \in Minutes : TRUE) \in Minutes
    BY SomeSchedule
  <2>2. clock \in Instants
    BY ZonesAssumption DEF Init, Instants
  <2>3. row \in [enabled : BOOLEAN, zone : Zones, minute : Minutes,
                 next : Instants \cup {NoInstant}, lastDate : Nat \cup {NoDate},
                 claiming : BOOLEAN, claimed : Instants \cup {NoInstant},
                 reason : Reasons]
    BY <2>1 DEF Init, Reasons
  <2>4. accepted \in Seq(Entry)
    BY DEF Init
  <2>. QED
    BY <2>2, <2>3, <2>4 DEF Init, TypeOK, Entry, Operations, Locations, Answers
<1>2. Len(accepted) = 0 /\ steps = 0 /\ pc = "starting" /\ ~row.enabled /\ ~row.claiming
  BY DEF Init
<1>. QED
  BY <1>1, <1>2 DEF IInv, NoStuckClaim, ClaimHeld, AcceptedIsLast, DisabledIdle,
     RecordedDates, OncePerLocalDate, Ordered, NoOccurrenceTwice

\* What TypeOK says of one accepted operation.
LEMMA EntryType ==
    IInv => /\ Len(accepted) \in Nat
            /\ \A i \in 1..Len(accepted) :
                  accepted[i] \in Entry /\ accepted[i].occurrence \in Nat
<1>. SUFFICES ASSUME IInv PROVE /\ Len(accepted) \in Nat
                               /\ \A i \in 1..Len(accepted) :
                                     accepted[i] \in Entry /\ accepted[i].occurrence \in Nat
  OBVIOUS
<1>1. accepted \in Seq(Entry)
  BY DEF IInv, TypeOK, Entry
<1>2. \A i \in 1..Len(accepted) : accepted[i] \in Entry
  BY <1>1
<1>3. \A e \in Entry : e.occurrence \in Nat
  BY ZonesAssumption DEF Entry, Instants
<1>. QED BY <1>1, <1>2, <1>3

\* A step outside the evaluation that leaves the schedule alone: starts, exits,
\* crashes, and the evaluations that find nothing due.
LEMMA OutsideStep ==
    ASSUME IInv, Plain', UNCHANGED <<clock, row, accepted, steps>>,
           claim' \in OptInstants,
           pc' \in Locations \ {"enqueue", "settle"},
           row.claiming => pc' \notin {"evaluate", "wait"}
    PROVE  IInv'
<1>1. TypeOK'
  BY DEF IInv, TypeOK, Plain, OptInstants
<1>2. (NoStuckClaim /\ ClaimHeld /\ AcceptedIsLast /\ DisabledIdle)'
  BY DEF IInv, NoStuckClaim, ClaimHeld, AcceptedIsLast, DisabledIdle
<1>3. (RecordedDates /\ OncePerLocalDate /\ NoOccurrenceTwice)'
  BY DEF IInv, RecordedDates, OncePerLocalDate, NoOccurrenceTwice
<1>4. Ordered'
  BY DEF IInv, Ordered
<1>. QED BY <1>1, <1>2, <1>3, <1>4 DEF IInv

\* A step beside the scheduler: the worker, an editor, the clock going on.
LEMMA BesideStep ==
    ASSUME IInv, Plain', UNCHANGED <<row, accepted, steps, pc, claim, answer>>,
           clock' \in Instants, clock <= clock'
    PROVE  IInv'
<1>0. clock \in Nat /\ clock' \in Nat
  BY ZonesAssumption DEF IInv, TypeOK, Instants
<1>1. TypeOK'
  BY DEF IInv, TypeOK, Plain
<1>2. (NoStuckClaim /\ ClaimHeld /\ AcceptedIsLast /\ DisabledIdle)'
  BY DEF IInv, NoStuckClaim, ClaimHeld, AcceptedIsLast, DisabledIdle
<1>3. (RecordedDates /\ OncePerLocalDate /\ NoOccurrenceTwice)'
  BY DEF IInv, RecordedDates, OncePerLocalDate, NoOccurrenceTwice
<1>4. Ordered'
  <2>1. \A i \in 1..Len(accepted) : accepted[i].occurrence \in Nat
    BY EntryType
  <2>2. pc \in {"enqueue", "settle"} => claim \in Nat
    BY ZonesAssumption DEF IInv, ClaimHeld, Instants
  <2>. QED BY <1>0, <2>1, <2>2 DEF IInv, Ordered
<1>. QED BY <1>1, <1>2, <1>3, <1>4 DEF IInv

\* Outside the evaluation the schedule gets a new row without a claim, the same
\* last date and, when enabled, an evaluation ahead of the clock.
LEMMA RescheduleStep ==
    ASSUME IInv, Plain', UNCHANGED <<clock, accepted, steps, claim>>,
           pc \notin {"enqueue", "settle"},
           pc' \in Locations \ {"enqueue", "settle"},
           row' \in RowType, ~row'.claiming, row'.lastDate = row.lastDate,
           row'.enabled => row'.next # NoInstant /\ row'.next > clock
    PROVE  IInv'
<1>1. TypeOK'
  BY DEF IInv, TypeOK, Plain, OptInstants, RowType
<1>2. (NoStuckClaim /\ ClaimHeld /\ AcceptedIsLast /\ DisabledIdle)'
  BY DEF IInv, NoStuckClaim, ClaimHeld, AcceptedIsLast, DisabledIdle
<1>3. (RecordedDates /\ OncePerLocalDate /\ NoOccurrenceTwice)'
  BY DEF IInv, RecordedDates, OncePerLocalDate, NoOccurrenceTwice
<1>4. Ordered'
  <2>1. \A i \in 1..Len(accepted) : accepted[i].occurrence \in Nat
    BY EntryType
  <2>2. clock \in Nat /\ row'.next \in Int
    BY ZonesAssumption DEF IInv, TypeOK, Instants, OptInstants, NoInstant, RowType
  <2>. QED BY <2>1, <2>2 DEF IInv, Ordered
<1>. QED BY <1>1, <1>2, <1>3, <1>4 DEF IInv

\* Boot: only Recover touches the schedule.
LEMMA BootStep == IInv /\ Boot => IInv'
<1>. SUFFICES ASSUME IInv, Boot PROVE IInv'
  OBVIOUS
<1>0. clock \in Instants /\ row.zone \in Zones /\ row.minute \in Minutes
      /\ claim \in OptInstants /\ row.enabled \in BOOLEAN
      /\ row.next \in OptInstants /\ row.claimed \in OptInstants
  BY DEF IInv, TypeOK, OptInstants
<1>1. CASE Start
  <2>1. Plain'
    BY <1>1 DEF Start, IInv, TypeOK, Plain, counters
  <2>. QED BY <1>0, <1>1, <2>1, OutsideStep DEF Start, counters, Locations
<1>2. CASE InterruptRunning
  <2>1. Plain'
    BY <1>2 DEF InterruptRunning, IInv, TypeOK, Plain, counters, Operations
  <2>. QED BY <1>0, <1>2, <2>1, OutsideStep DEF InterruptRunning, counters, Locations
<1>3. CASE Ready
  <2>1. Plain'
    BY <1>3 DEF Ready, IInv, TypeOK, Plain, counters, Operations
  <2>. QED BY <1>0, <1>3, <2>1, OutsideStep DEF Ready, counters, Locations
<1>4. CASE Recover
  <2>. DEFINE next == NextOccurrence(clock, row.zone, row.minute)
  <2>0. next \in OptInstants /\ (next # NoInstant => next > clock)
    BY <1>0, NextAhead
  <2>. HIDE DEF next
  <2>a. \/ /\ row.enabled /\ (row.claiming \/ interrupted) /\ next # NoInstant
           /\ row' = [row EXCEPT !.next = next, !.claiming = FALSE,
                                 !.claimed = NoInstant, !.reason = "recovered"]
           /\ pc' = "evaluate"
           /\ UNCHANGED <<clock, operation, interrupted, claim, answer, editing,
                          broken, counters, accepted>>
        \/ CalculationFails
        \/ /\ ~(row.enabled /\ (row.claiming \/ interrupted))
           /\ pc' = "evaluate"
           /\ UNCHANGED <<clock, row, operation, interrupted, claim, answer,
                          editing, broken, counters, accepted>>
    BY <1>4 DEF Recover, next
  <2>1. CASE /\ row.enabled /\ next # NoInstant
             /\ row' = [row EXCEPT !.next = next, !.claiming = FALSE,
                                   !.claimed = NoInstant, !.reason = "recovered"]
             /\ pc' = "evaluate"
             /\ UNCHANGED <<clock, operation, interrupted, claim, answer, editing,
                            broken, counters, accepted>>
    <3>1. Plain' /\ steps' = steps
      BY <2>1 DEF IInv, TypeOK, Plain, counters
    <3>2. row' \in RowType /\ ~row'.claiming /\ row'.lastDate = row.lastDate
          /\ row'.next = next
      BY <2>0, <2>1 DEF IInv, TypeOK, RowType, OptInstants, Reasons
    <3>3. pc = "recover" /\ pc' = "evaluate"
      BY <2>1, <1>4 DEF Recover
    <3>. QED
      BY <1>0, <2>0, <2>1, <3>1, <3>2, <3>3, RescheduleStep DEF Locations
  <2>2. CASE CalculationFails
    <3>1. Plain' /\ steps' = steps
      BY <2>2 DEF CalculationFails, Exit, IInv, TypeOK, Plain, counters, Answers
    <3>. QED BY <2>2, <3>1, OutsideStep DEF CalculationFails, Exit, OptInstants, Locations
  <2>3. CASE /\ ~(row.enabled /\ (row.claiming \/ interrupted))
             /\ pc' = "evaluate"
             /\ UNCHANGED <<clock, row, operation, interrupted, claim, answer,
                            editing, broken, counters, accepted>>
    <3>1. Plain' /\ steps' = steps
      BY <2>3 DEF IInv, TypeOK, Plain, counters
    <3>2. ~row.claiming
      BY <2>3 DEF IInv, DisabledIdle
    <3>. QED BY <1>0, <2>3, <3>1, <3>2, OutsideStep DEF Locations
  <2>. QED BY <2>a, <2>1, <2>2, <2>3
<1>. QED BY <1>1, <1>2, <1>3, <1>4 DEF Boot

\* ClaimDue: the claim is for a date after the recorded ones, and the next
\* evaluation is moved ahead in the same transaction.
LEMMA ClaimDueStep == IInv /\ ClaimDue => IInv'
<1>. SUFFICES ASSUME IInv, ClaimDue PROVE IInv'
  OBVIOUS
<1>. DEFINE next == NextOccurrence(clock, row.zone, row.minute)
            date == OccurrenceLocalDate(row.next, row.zone)
<1>0. clock \in Instants /\ row.zone \in Zones /\ row.minute \in Minutes
      /\ claim \in OptInstants /\ row.enabled \in BOOLEAN
      /\ row.next \in OptInstants /\ row.claimed \in OptInstants
      /\ row.lastDate \in Nat \cup {NoDate}
  BY DEF IInv, TypeOK, OptInstants
<1>1. next \in OptInstants /\ (next # NoInstant => next > clock)
  BY <1>0, NextAhead
<1>2. pc = "evaluate" /\ ~row.claiming
  BY DEF ClaimDue, IInv, NoStuckClaim
<1>. HIDE DEF next
<1>a. \/ /\ pc' = "wait"
         /\ UNCHANGED <<clock, row, operation, interrupted, claim, answer,
                        editing, broken, counters, accepted>>
      \/ CalculationFails
      \/ /\ Due /\ next # NoInstant
         /\ row' = [row EXCEPT !.next = next, !.reason = "coalesced"]
         /\ pc' = "wait"
         /\ UNCHANGED <<clock, operation, interrupted, claim, answer, editing,
                        broken, counters, accepted>>
      \/ /\ Due /\ next # NoInstant /\ ~RepeatedDate(date)
         /\ row' = [row EXCEPT !.next = next, !.claiming = TRUE,
                               !.claimed = row.next, !.reason = "claimed"]
         /\ claim' = row.next
         /\ pc' = "enqueue"
         /\ UNCHANGED <<clock, operation, interrupted, answer, editing, broken,
                        counters, accepted>>
  BY DEF ClaimDue, next
<1>3. CASE /\ pc' = "wait"
           /\ UNCHANGED <<clock, row, operation, interrupted, claim, answer,
                          editing, broken, counters, accepted>>
  <2>1. Plain' /\ steps' = steps
    BY <1>3 DEF IInv, TypeOK, Plain, counters
  <2>. QED BY <1>0, <1>2, <1>3, <2>1, OutsideStep DEF Locations
<1>4. CASE CalculationFails
  <2>1. Plain' /\ steps' = steps
    BY <1>4 DEF CalculationFails, Exit, IInv, TypeOK, Plain, counters, Answers
  <2>. QED BY <1>4, <2>1, OutsideStep DEF CalculationFails, Exit, OptInstants, Locations
<1>5. CASE /\ Due /\ next # NoInstant
           /\ row' = [row EXCEPT !.next = next, !.reason = "coalesced"]
           /\ pc' = "wait"
           /\ UNCHANGED <<clock, operation, interrupted, claim, answer, editing,
                          broken, counters, accepted>>
  <2>1. Plain' /\ steps' = steps
    BY <1>5 DEF IInv, TypeOK, Plain, counters
  <2>2. row' \in RowType /\ ~row'.claiming /\ row'.lastDate = row.lastDate
        /\ row'.next = next
    BY <1>1, <1>2, <1>5 DEF IInv, TypeOK, RowType, OptInstants, Reasons
  <2>. QED BY <1>0, <1>1, <1>2, <1>5, <2>1, <2>2, RescheduleStep DEF Locations
<1>6. CASE /\ Due /\ next # NoInstant /\ ~RepeatedDate(date)
           /\ row' = [row EXCEPT !.next = next, !.claiming = TRUE,
                                 !.claimed = row.next, !.reason = "claimed"]
           /\ claim' = row.next
           /\ pc' = "enqueue"
           /\ UNCHANGED <<clock, operation, interrupted, answer, editing, broken,
                          counters, accepted>>
  <2>1. Plain' /\ steps' = steps
    BY <1>6 DEF IInv, TypeOK, Plain, counters
  <2>2. row' = [enabled |-> TRUE, zone |-> row.zone, minute |-> row.minute,
                next |-> next, lastDate |-> row.lastDate, claiming |-> TRUE,
                claimed |-> row.next, reason |-> "claimed"]
    BY <1>6 DEF IInv, TypeOK, Due
  <2>3. row.next \in Instants /\ row.next <= clock /\ row.enabled
    BY <1>0, <1>6 DEF Due, IInv, TypeOK, OptInstants
  <2>4. row.lastDate < date
    <3>1. date \in Nat
      BY <1>0, <2>3, DateType
    <3>. QED BY <1>0, <1>6, <3>1 DEF RepeatedDate, NoDate
  <2>5. TypeOK'
    <3>1. "claimed" \in Reasons
      BY DEF Reasons
    <3>. QED BY <1>0, <1>1, <1>6, <2>1, <2>2, <2>3, <3>1
         DEF IInv, TypeOK, Plain, OptInstants, Locations
  <2>6. (NoStuckClaim /\ ClaimHeld /\ AcceptedIsLast /\ DisabledIdle)'
    <3>1. ClaimHeld'
      BY <1>6, <2>2, <2>3, <2>4 DEF ClaimHeld, OccurrenceLocalDate
    <3>2. NoStuckClaim' /\ AcceptedIsLast'
      BY <1>6 DEF NoStuckClaim, AcceptedIsLast
    <3>3. DisabledIdle'
      BY <2>2 DEF DisabledIdle
    <3>. QED BY <3>1, <3>2, <3>3
  <2>7. (RecordedDates /\ OncePerLocalDate /\ NoOccurrenceTwice)'
    BY <1>6, <2>1, <2>2 DEF IInv, RecordedDates, OncePerLocalDate, NoOccurrenceTwice
  <2>8. Ordered'
    <3>1. \A i \in 1..Len(accepted) : accepted[i].occurrence \in Nat
      BY EntryType
    <3>2. clock \in Nat /\ next \in Int /\ row.next \in Nat
      BY <1>0, <1>1, <2>3, ZonesAssumption DEF Instants, OptInstants, NoInstant
    <3>. QED BY <1>1, <1>6, <2>1, <2>2, <2>3, <3>1, <3>2 DEF IInv, Ordered
  <2>. QED BY <2>1, <2>5, <2>6, <2>7, <2>8 DEF IInv
<1>. QED BY <1>a, <1>3, <1>4, <1>5, <1>6

\* EnqueueScheduled: what is accepted lies after everything accepted before,
\* and its date after every recorded one.
LEMMA EnqueueStep == IInv /\ EnqueueScheduled => IInv'
<1>. SUFFICES ASSUME IInv, EnqueueScheduled PROVE IInv'
  OBVIOUS
<1>. DEFINE date == OccurrenceLocalDate(claim, row.zone)
            entry == [occurrence |-> claim, date |-> date, recorded |-> FALSE]
<1>1. pc = "enqueue" /\ pc' = "settle"
      /\ UNCHANGED <<clock, row, interrupted, claim, editing, broken, steps>>
  BY DEF EnqueueScheduled
<1>2. row.enabled /\ row.claiming /\ row.claimed = claim /\ claim \in Instants
      /\ row.lastDate < date
  BY <1>1 DEF IInv, ClaimHeld
<1>3. row.zone \in Zones /\ row.lastDate \in Nat \cup {NoDate}
      /\ accepted \in Seq(Entry)
  BY DEF IInv, TypeOK, Entry
<1>4. date \in Nat
  BY <1>2, <1>3, DateType
<1>5. NoStuckClaim' /\ ClaimHeld' /\ DisabledIdle'
  BY <1>1, <1>2 DEF NoStuckClaim, ClaimHeld, DisabledIdle, OccurrenceLocalDate
<1>a. \/ /\ answer' \in {"deferred", "blocked"}
         /\ UNCHANGED <<operation, accepted>>
      \/ /\ operation' = "queued" /\ answer' = "accepted"
         /\ accepted' = Append(accepted, entry)
  BY DEF EnqueueScheduled, Fault
<1>6. CASE /\ answer' \in {"deferred", "blocked"}
           /\ UNCHANGED <<operation, accepted>>
  <2>1. TypeOK' /\ steps' \in Nat
    BY <1>1, <1>6 DEF IInv, TypeOK, Locations, Answers
  <2>2. AcceptedIsLast'
    BY <1>6 DEF AcceptedIsLast
  <2>3. (RecordedDates /\ OncePerLocalDate /\ NoOccurrenceTwice)'
    BY <1>1, <1>6 DEF IInv, RecordedDates, OncePerLocalDate, NoOccurrenceTwice
  <2>4. Ordered'
    BY <1>1, <1>6 DEF IInv, Ordered
  <2>. QED BY <1>5, <2>1, <2>2, <2>3, <2>4 DEF IInv
<1>7. CASE /\ operation' = "queued" /\ answer' = "accepted"
           /\ accepted' = Append(accepted, entry)
  <2>1. entry \in Entry
    BY <1>2, <1>4 DEF Entry
  <2>2. accepted' \in Seq(Entry) /\ Len(accepted) \in Nat
        /\ Len(accepted') = Len(accepted) + 1
    BY <1>3, <1>7, <2>1
  <2>3. \A i \in 1..Len(accepted') :
          \/ i \in 1..Len(accepted) /\ accepted'[i] = accepted[i]
          \/ i = Len(accepted') /\ accepted'[i] = entry
    BY <1>3, <1>7, <2>1, <2>2
  <2>4. entry.occurrence = claim /\ entry.date = date /\ ~entry.recorded
    OBVIOUS
  <2>5. \A i \in 1..Len(accepted) :
          /\ accepted[i].occurrence \in Nat
          /\ accepted[i].date \in Nat
    <3>1. \A e \in Entry : e.date \in Nat
      BY DEF Entry
    <3>. QED BY <3>1, EntryType
  <2>6. claim \in Nat /\ clock \in Nat /\ row.lastDate \in Int
    BY <1>2, <1>3, ZonesAssumption DEF IInv, TypeOK, Instants, NoDate
  <2>. HIDE DEF entry, date
  <2>7. TypeOK' /\ steps' \in Nat
    BY <1>1, <1>7, <2>2 DEF IInv, TypeOK, Entry, Locations, Answers, Operations
  <2>8. AcceptedIsLast'
    <3>1. accepted'[Len(accepted')] = entry /\ Len(accepted') > 0
      BY <1>3, <1>7, <2>1, <2>2
    <3>. QED BY <1>1, <2>4, <3>1 DEF AcceptedIsLast, date, OccurrenceLocalDate
  <2>9. RecordedDates'
    BY <1>1, <2>3, <2>4 DEF IInv, RecordedDates
  <2>10. OncePerLocalDate'
    <3>. SUFFICES ASSUME NEW i \in 1..Len(accepted'), NEW j \in 1..Len(accepted'),
                         i < j, accepted'[i].recorded
                  PROVE  accepted'[i].date < accepted'[j].date
      BY DEF OncePerLocalDate
    <3>1. i \in 1..Len(accepted) /\ accepted'[i] = accepted[i]
      BY <2>2, <2>3
    <3>2. CASE j \in 1..Len(accepted) /\ accepted'[j] = accepted[j]
      BY <3>1, <3>2 DEF IInv, OncePerLocalDate
    <3>3. CASE accepted'[j] = entry
      <4>1. accepted[i].date <= row.lastDate
        BY <3>1 DEF IInv, RecordedDates
      <4>. QED BY <1>2, <1>4, <2>4, <2>5, <2>6, <3>1, <3>3, <4>1
    <3>. QED BY <2>3, <3>2, <3>3
  <2>11. NoOccurrenceTwice'
    <3>. SUFFICES ASSUME steps' = 0, NEW i \in 1..Len(accepted'),
                         NEW j \in 1..Len(accepted'), i < j
                  PROVE  accepted'[i].occurrence < accepted'[j].occurrence
      BY DEF NoOccurrenceTwice
    <3>1. i \in 1..Len(accepted) /\ accepted'[i] = accepted[i]
      BY <2>2, <2>3
    <3>2. CASE j \in 1..Len(accepted) /\ accepted'[j] = accepted[j]
      BY <1>1, <3>1, <3>2 DEF IInv, NoOccurrenceTwice
    <3>3. CASE accepted'[j] = entry
      BY <1>1, <2>4, <3>1, <3>3 DEF IInv, Ordered
    <3>. QED BY <2>3, <3>2, <3>3
  <2>12. Ordered'
    <3>. SUFFICES ASSUME steps = 0 PROVE Ordered'
      BY <1>1 DEF Ordered
    <3>1. claim < row.next /\ claim <= clock
      BY <1>1 DEF IInv, Ordered
    <3>2. \A i \in 1..Len(accepted) :
            accepted[i].occurrence <= clock /\ accepted[i].occurrence < row.next
      BY <1>2 DEF IInv, Ordered
    <3>. QED BY <1>1, <1>7, <2>3, <2>4, <3>1, <3>2 DEF Ordered
  <2>. QED
    BY <1>5, <2>7, <2>8, <2>9, <2>10, <2>11, <2>12 DEF IInv
<1>. QED BY <1>a, <1>6, <1>7

\* CompleteClaim: the date becomes the recorded one.
LEMMA CompleteStep == IInv /\ CompleteClaim => IInv'
<1>. SUFFICES ASSUME IInv, CompleteClaim PROVE IInv'
  OBVIOUS
<1>. DEFINE date == OccurrenceLocalDate(claim, row.zone)
            last == Len(accepted)
<1>1. pc = "settle" /\ answer = "accepted" /\ pc' = "wait"
      /\ UNCHANGED <<clock, operation, interrupted, editing, broken, steps>>
      /\ claim' = NoInstant /\ answer' = "none"
      /\ accepted' = [accepted EXCEPT ![last].recorded = TRUE]
      /\ row' = [row EXCEPT !.lastDate = date, !.claiming = FALSE,
                            !.claimed = NoInstant, !.reason = "triggered"]
  BY DEF CompleteClaim, counters
<1>2. row.enabled /\ claim \in Instants /\ row.lastDate < date
  BY <1>1 DEF IInv, ClaimHeld
<1>3. accepted \in Seq(Entry) /\ last \in Nat
      /\ row.zone \in Zones /\ row.lastDate \in Nat \cup {NoDate}
  BY DEF IInv, TypeOK, Entry
<1>4. date \in Nat
  BY <1>2, <1>3, DateType
<1>5. last > 0 /\ last \in 1..last /\ accepted[last].date = date
      /\ ~accepted[last].recorded
  BY <1>1, <1>3 DEF IInv, AcceptedIsLast
<1>. HIDE DEF date
<1>6. accepted' \in Seq(Entry) /\ Len(accepted') = last
      /\ \A i \in 1..last :
            /\ accepted'[i].occurrence = accepted[i].occurrence
            /\ accepted'[i].date = accepted[i].date
            /\ i # last => accepted'[i].recorded = accepted[i].recorded
  <2>1. \A i \in 1..last : accepted[i] \in Entry
    BY <1>3
  <2>2. [accepted[last] EXCEPT !.recorded = TRUE] \in Entry
    BY <1>5, <2>1 DEF Entry
  <2>3. accepted' = [accepted EXCEPT ![last] = [accepted[last] EXCEPT !.recorded = TRUE]]
    BY <1>1
  <2>4. accepted' \in Seq(Entry) /\ Len(accepted') = last
    BY <1>3, <1>5, <2>2, <2>3
  <2>5. \A i \in 1..last : accepted'[i] =
           IF i = last THEN [accepted[last] EXCEPT !.recorded = TRUE] ELSE accepted[i]
    BY <1>3, <1>5, <2>3
  <2>. QED BY <2>1, <2>4, <2>5 DEF Entry
<1>7. row'.enabled /\ ~row'.claiming /\ row'.lastDate = date /\ row'.next = row.next
  BY <1>1, <1>2 DEF IInv, TypeOK
<1>8. TypeOK' /\ steps' \in Nat
  BY <1>1, <1>4, <1>6 DEF IInv, TypeOK, Entry, Reasons, Locations, Answers
<1>9. (NoStuckClaim /\ ClaimHeld /\ AcceptedIsLast /\ DisabledIdle)'
  BY <1>1, <1>7 DEF NoStuckClaim, ClaimHeld, AcceptedIsLast, DisabledIdle
<1>10. \A i \in 1..last : accepted[i].date \in Nat
  <2>1. \A e \in Entry : e.date \in Nat
    BY DEF Entry
  <2>. QED BY <2>1, EntryType
<1>11. RecordedDates'
  <2>. SUFFICES ASSUME NEW i \in 1..last, accepted'[i].recorded
                PROVE  accepted'[i].date <= date
    BY <1>6, <1>7 DEF RecordedDates
  <2>1. CASE i = last
    BY <1>4, <1>5, <1>6, <2>1
  <2>2. CASE i # last
    <3>1. accepted[i].date <= row.lastDate
      BY <1>6, <2>2 DEF IInv, RecordedDates
    <3>2. row.lastDate \in Int
      BY <1>3 DEF NoDate
    <3>. QED BY <1>2, <1>4, <1>6, <1>10, <3>1, <3>2
  <2>. QED BY <2>1, <2>2
<1>12. OncePerLocalDate'
  <2>. SUFFICES ASSUME NEW i \in 1..last, NEW j \in 1..last, i < j,
                       accepted'[i].recorded
                PROVE  accepted[i].date < accepted[j].date
    BY <1>6 DEF OncePerLocalDate
  <2>1. i # last
    BY <1>3
  <2>. QED BY <1>6, <2>1 DEF IInv, OncePerLocalDate
<1>13. NoOccurrenceTwice'
  BY <1>1, <1>6 DEF IInv, NoOccurrenceTwice
<1>14. Ordered'
  BY <1>1, <1>2, <1>6, <1>7 DEF IInv, Ordered
<1>. QED BY <1>8, <1>9, <1>11, <1>12, <1>13, <1>14 DEF IInv

\* ReleaseClaim: a deferred occurrence becomes the next evaluation again.
LEMMA ReleaseStep == IInv /\ ReleaseClaim => IInv'
<1>. SUFFICES ASSUME IInv, ReleaseClaim PROVE IInv'
  OBVIOUS
<1>1. pc = "settle" /\ answer \in {"deferred", "blocked"} /\ pc' = "wait"
      /\ UNCHANGED <<clock, operation, interrupted, editing, broken, steps, accepted>>
      /\ claim' = NoInstant /\ answer' = "none"
      /\ row' = [row EXCEPT !.next = IF answer = "deferred" THEN claim ELSE @,
                            !.claiming = FALSE, !.claimed = NoInstant,
                            !.reason = answer]
  BY DEF ReleaseClaim, counters
<1>2. row.enabled /\ claim \in Instants
  BY <1>1 DEF IInv, ClaimHeld
<1>3. row'.enabled /\ ~row'.claiming /\ row'.lastDate = row.lastDate
      /\ row'.next \in {claim, row.next}
  BY <1>1, <1>2 DEF IInv, TypeOK
<1>4. TypeOK' /\ steps' \in Nat
  <2>1. claim # NoInstant
    BY <1>2, ZonesAssumption DEF Instants, NoInstant
  <2>. QED BY <1>1, <1>2, <1>3, <2>1 DEF IInv, TypeOK, Reasons, Locations, Answers
<1>5. (NoStuckClaim /\ ClaimHeld /\ AcceptedIsLast /\ DisabledIdle)'
  BY <1>1, <1>3 DEF NoStuckClaim, ClaimHeld, AcceptedIsLast, DisabledIdle
<1>6. (RecordedDates /\ OncePerLocalDate /\ NoOccurrenceTwice)'
  BY <1>1, <1>3 DEF IInv, RecordedDates, OncePerLocalDate, NoOccurrenceTwice
<1>7. Ordered'
  BY <1>1, <1>2, <1>3 DEF IInv, Ordered
<1>. QED BY <1>4, <1>5, <1>6, <1>7 DEF IInv

\* Update: the new evaluation lies ahead of the clock, the last date stays.
LEMMA UpdateStep ==
    ASSUME IInv, NEW enabled \in BOOLEAN, NEW z \in Zones, NEW m \in Minutes,
           Update(enabled, z, m)
    PROVE  IInv'
<1>. DEFINE next == IF enabled THEN NextOccurrence(clock, z, m) ELSE NoInstant
<1>0. clock \in Instants
  BY DEF IInv, TypeOK
<1>1. next \in OptInstants /\ (next # NoInstant => next > clock)
  BY <1>0, NextAhead DEF OptInstants
<1>2. /\ row' = [row EXCEPT !.enabled = enabled, !.zone = z, !.minute = m,
                            !.next = next, !.claiming = FALSE,
                            !.claimed = NoInstant, !.reason = "saved"]
      /\ UNCHANGED <<clock, operation, process, editing, broken, steps, accepted>>
  BY DEF Update
<1>. HIDE DEF next
<1>3. pc \notin {"enqueue", "settle"}
  BY DEF Update
<1>4. row' \in RowType /\ ~row'.claiming /\ row'.lastDate = row.lastDate
      /\ row'.next = next /\ row'.enabled = enabled
  BY <1>1, <1>2 DEF IInv, TypeOK, RowType, OptInstants, Reasons
<1>5. Plain' /\ UNCHANGED <<pc, claim>>
  BY <1>2 DEF IInv, TypeOK, Plain, process
<1>6. pc' \in Locations \ {"enqueue", "settle"}
  BY <1>3, <1>5 DEF IInv, TypeOK
<1>7. enabled => next # NoInstant
  BY DEF Update, next
<1>. QED BY <1>1, <1>2, <1>3, <1>4, <1>5, <1>6, <1>7, RescheduleStep

\* A clock that went back ends the claims about the order of occurrences; what
\* protects the dates does not look at the clock.
LEMMA ClockBackStep == IInv /\ ClockBack => IInv'
<1>. SUFFICES ASSUME IInv, ClockBack PROVE IInv'
  OBVIOUS
<1>1. UNCHANGED <<row, operation, process, editing, broken, accepted>>
      /\ steps' = steps + 1 /\ steps \in Nat /\ clock' \in 0..(clock - 1)
  BY DEF ClockBack, IInv
<1>2. UNCHANGED <<pc, interrupted, claim, answer>>
  BY <1>1 DEF process
<1>3. clock' \in Instants
  BY <1>1, ZonesAssumption DEF IInv, TypeOK, Instants
<1>4. steps' \in Nat /\ steps' # 0
  BY <1>1
<1>5. TypeOK'
  BY <1>1, <1>2, <1>3 DEF IInv, TypeOK
<1>6. (NoStuckClaim /\ ClaimHeld /\ AcceptedIsLast /\ DisabledIdle)'
  BY <1>1, <1>2 DEF IInv, NoStuckClaim, ClaimHeld, AcceptedIsLast, DisabledIdle,
     OccurrenceLocalDate
<1>7. (RecordedDates /\ OncePerLocalDate)'
  BY <1>1 DEF IInv, RecordedDates, OncePerLocalDate
<1>8. (Ordered /\ NoOccurrenceTwice)'
  BY <1>4 DEF Ordered, NoOccurrenceTwice
<1>. QED BY <1>4, <1>5, <1>6, <1>7, <1>8 DEF IInv

\* The invariant is inductive.
LEMMA NextIInv == IInv /\ [Next]_vars => IInv'
<1>. SUFFICES ASSUME IInv, [Next]_vars PROVE IInv'
  OBVIOUS
<1>0. clock \in Instants /\ claim \in OptInstants /\ clock \in Nat
      /\ NoInstant \in OptInstants
  BY ZonesAssumption DEF IInv, TypeOK, OptInstants, Instants
<1>1. CASE Boot
  BY <1>1, BootStep
<1>2. CASE Loop
  <2>1. CASE Wake
    <3>1. Plain' /\ pc' = "evaluate" /\ UNCHANGED <<clock, row, accepted, steps, claim>>
      BY <2>1 DEF Wake, IInv, TypeOK, Plain, counters
    <3>2. ~row.claiming
      BY <2>1 DEF Wake, IInv, NoStuckClaim
    <3>. QED BY <1>0, <3>1, <3>2, OutsideStep DEF Locations
  <2>. QED
    BY <1>2, <2>1, ClaimDueStep, EnqueueStep, CompleteStep, ReleaseStep DEF Loop
<1>3. CASE StoreFails \/ Crash
  <2>1. Plain' /\ pc' = "down" /\ claim' = NoInstant
        /\ UNCHANGED <<clock, row, accepted, steps>>
    BY <1>3 DEF StoreFails, Crash, Exit, IInv, TypeOK, Plain, Answers
  <2>. QED BY <1>0, <2>1, OutsideStep DEF Locations
<1>4. CASE Administrator
  <2>1. CASE \E enabled \in BOOLEAN, z \in Zones, m \in Minutes : Update(enabled, z, m)
    BY <2>1, UpdateStep
  <2>2. CASE ManualEnqueue \/ EditBegin
    <3>1. Plain' /\ UNCHANGED <<clock, row, accepted, steps, pc, claim, answer>>
      BY <2>2 DEF ManualEnqueue, EditBegin, IInv, TypeOK, Plain, process, Operations
    <3>. QED BY <1>0, <3>1, BesideStep
  <2>. QED BY <1>4, <2>1, <2>2 DEF Administrator
<1>5. CASE EditEnd \/ Worker
  <2>1. Plain' /\ UNCHANGED <<clock, row, accepted, steps, pc, claim, answer>>
    BY <1>5 DEF EditEnd, Worker, RunOperation, FinishOperation, IInv, TypeOK, Plain,
       process, counters, Operations
  <2>. QED BY <1>0, <2>1, BesideStep
<1>6. CASE Tick
  <2>1. Plain' /\ UNCHANGED <<row, accepted, steps, pc, claim, answer>>
    BY <1>6 DEF Tick, IInv, TypeOK, Plain, process, counters
  <2>2. clock' \in Instants /\ clock <= clock'
    BY <1>0, <1>6, ZonesAssumption DEF Tick, Instants
  <2>. QED BY <2>1, <2>2, BesideStep
<1>7. CASE ClockBack
  BY <1>7, ClockBackStep
<1>8. CASE UNCHANGED vars
  <2>1. Plain' /\ UNCHANGED <<clock, row, accepted, steps, pc, claim, answer>>
    BY <1>8 DEF vars, IInv, TypeOK, Plain
  <2>. QED BY <1>0, <2>1, BesideStep
<1>. QED BY <1>1, <1>2, <1>3, <1>4, <1>5, <1>6, <1>7, <1>8 DEF Next

-----------------------------------------------------------------------------
(* The theorems.                                                           *)

\* Every behaviour of the schedule, the administrator, the worker, crashes and
\* clock steps satisfies the inductive invariant.
THEOREM Inductive == Spec => []IInv
BY InitIInv, NextIInv, PTL DEF Spec

\* The state keeps its shape; an enabled schedule always has an evaluation.
THEOREM TypeCorrect == Spec => []TypeOK
<1>1. IInv => TypeOK
  BY DEF IInv
<1>. QED BY <1>1, Inductive, PTL

\* No claim outlives the evaluation that made it into the loop of a later
\* process (ClaimDue, ReleaseClaim, CompleteClaim, Save, Recover).
THEOREM ClaimsAreSettled == Spec => []NoStuckClaim
<1>1. IInv => NoStuckClaim
  BY DEF IInv
<1>. QED BY <1>1, Inductive, PTL

\* A local date recorded by CompleteClaim never runs again, nor does an earlier
\* one, for every zone table and however the clock, the zone and the schedule
\* move.
THEOREM RecordedDateRunsOnce == Spec => []OncePerLocalDate
<1>1. IInv => OncePerLocalDate
  BY DEF IInv
<1>. QED BY <1>1, Inductive, PTL

\* While the wall clock only goes forward no occurrence is accepted twice,
\* also when the process ends between the operation's commit and CompleteClaim.
THEOREM OccurrenceRunsOnce == Spec => []NoOccurrenceTwice
<1>1. IInv => NoOccurrenceTwice
  BY DEF IInv
<1>. QED BY <1>1, Inductive, PTL
=============================================================================
