----------------------- MODULE IdentitySessionsProofs ------------------------
(***************************************************************************)
(* Theorems about IdentitySessions for every number of concurrent requests *)
(* and every policy that PolicyAssumption allows.                          *)
(*                                                                         *)
(* The parts of the invariant that speak of one handler take its record r, *)
(* the table S, the clock c, the number n of tokens and the lag g as       *)
(* arguments, so that the lemmas about them need no primes.                *)
(***************************************************************************)
EXTENDS IdentitySessions, FiniteSetTheorems, WellFoundedInduction, TLAPS

KeptRow == [id : Nat \ {0}, epoch : Nat, csrf : Nat \ {0}, absolute : Nat]

Rows == {NoRow} \cup Administrator \cup Session \cup KeptRow

HandlerType ==
    [kind : Kinds, pc : Locations, token : Nat, csrf : Nat, raw : Nat,
     rotating : BOOLEAN, guard : BOOLEAN, row : Rows, now : Nat, age : Nat,
     fresh : BOOLEAN, answer : Answers]

\* The steps of ValidateSession after its decision, and all of them.
Decided == {"expire", "drop", "rotate", "touch"}
Validating == {"load", "check"} \cup Decided
SigningIn == {"derive", "create", "replace"}

-----------------------------------------------------------------------------
(* The inductive invariant: the table.                                     *)

\* What the CHECK constraints of the table say; a previous token is not valid
\* for longer than until the next rotation is due.
RowOK(s) ==
    /\ s.previous = None <=> s.until = 0
    /\ s.created <= s.seen /\ s.seen <= s.idle /\ s.idle <= s.absolute
    /\ s.until <= s.rotate /\ s.epoch # 0

\* Tokens are handed out once; a row id is never ahead of the tokens.
Known(s, n) ==
    /\ s.current <= n /\ s.previous <= n /\ s.csrf <= n
    /\ s.id <= s.csrf /\ s.previous # s.current

\* Ids, CSRF tokens and session tokens each identify a session.
Same(s, u) ==
    \/ s.id = u.id \/ s.csrf = u.csrf
    \/ Names(u, s.current) \/ (s.previous # None /\ Names(u, s.previous))

Distinct(S) == \A s, u \in S : Same(s, u) => s = u

Limited(S) == IsFiniteSet(S) /\ Cardinality(S) <= MaximumSessions

\* While the clock has not gone back, no session was used ahead of it.
Table(S, c, n, g) ==
    /\ Limited(S) /\ Distinct(S)
    /\ \A s \in S : RowOK(s) /\ Known(s, n)
    /\ g < PreviousGrace => \A s \in S : s.seen <= c

-----------------------------------------------------------------------------
(* The inductive invariant: the handlers.                                  *)

\* What a request carries besides the row.
RequestOK(r, n) ==
    /\ r.token <= n /\ r.csrf <= n /\ r.raw <= n
    /\ r.pc \in Validating \cup {"forget"} => r.token # None /\ r.kind # "signIn"
    /\ r.pc \in SigningIn => r.kind = "signIn" /\ ~r.fresh
    /\ r.pc \in {"derive", "create"} => r.row \in Administrator /\ r.row.epoch # 0
    /\ r.pc \in Validating \cup {"forget"} /\ r.kind = "signOut" => r.token = r.raw

\* The row in hand is that of the session that still goes by the token,
\* whoever changed it since.
Agrees(r, s) == s.id = r.row.id /\ s.csrf = r.row.csrf /\ s.absolute = r.row.absolute

ReadOK(r, S) ==
    r.pc = "check" =>
        /\ r.row \in Session /\ RowOK(r.row) /\ Names(r.row, r.token)
        /\ \A s \in S : Names(s, r.token) =>
              /\ Agrees(r, s) /\ s.created <= r.row.seen
              /\ r.token # r.row.current => s.previous = r.token /\ s.until = r.row.until

DecisionOK(r, S) ==
    r.pc \in Decided =>
        /\ r.row \in KeptRow
        /\ r.pc \in {"rotate", "touch"} => r.now < r.row.absolute
        /\ \A s \in S : Names(s, r.token) =>
              /\ Agrees(r, s) /\ s.created <= r.now
              /\ r.pc = "drop" => s.previous = r.token /\ s.until <= r.now

\* While the clock has not gone back, no reading of it is ahead of it, and a
\* decision is no older than its request.
StampOK(r, c, g) ==
    g < PreviousGrace =>
        /\ r.now <= c
        /\ r.pc = "check" => r.row.seen <= c
        /\ r.pc \in Decided /\ r.age < PreviousGrace => c <= r.now + r.age

\* A token that was current when its request came is current, or its grace
\* period covers the request.
Covered(r, s, c, g) ==
    \/ s.current = r.token
    \/ s.previous = r.token /\ c + PreviousGrace <= s.until + g + r.age

Holds(r, S, c, g) ==
    /\ r.pc \in Validating \/ (r.pc = "forget" /\ r.kind = "signOut")
    /\ r.fresh /\ r.csrf # None /\ r.age + g < PreviousGrace
    => \A s \in S : s.csrf = r.csrf => Covered(r, s, c, g)

\* A validated sign-out by a previous token, answered at once.
HoldsAtOnce(r, S, c, g) ==
    /\ r.pc = "forget" /\ r.kind = "signOut" /\ r.age = 0 /\ g < PreviousGrace
    => \A s \in S : s.csrf = r.csrf =>
          s.current = r.raw \/ (s.previous = r.raw /\ c < s.until)

\* RotationKeepsRequests and SignOutEnds for one handler.
RefusedOK(r, S, g) ==
    /\ r.pc = "answered" /\ r.answer = "invalid"
    /\ r.fresh /\ r.csrf # None /\ r.age + g < PreviousGrace
    => \A s \in S : s.csrf # r.csrf

EndedOK(r, S, g) ==
    /\ r.pc = "answered" /\ r.answer = "ok" /\ r.kind = "signOut"
    /\ r.age + g < PreviousGrace /\ (r.fresh \/ r.age = 0)
    => \A s \in S : s.csrf # r.csrf

\* A sign-out is validated only with the CSRF token of its session.
ForgetOK(r) == r.pc = "forget" /\ r.kind = "signOut" => r.csrf # None

HandlerOK(r, S, c, n, g) ==
    /\ RequestOK(r, n) /\ ReadOK(r, S) /\ DecisionOK(r, S) /\ StampOK(r, c, g)
    /\ Holds(r, S, c, g) /\ HoldsAtOnce(r, S, c, g) /\ ForgetOK(r)
    /\ RefusedOK(r, S, g) /\ EndedOK(r, S, g)

Types ==
    /\ clock \in Nat /\ tokens \in Nat /\ steps \in Nat /\ lag \in 0..PreviousGrace
    /\ admin \in Administrator
    /\ sessions \subseteq Session
    /\ proc \in [Procs -> HandlerType]

Inv ==
    /\ Types /\ SessionsAreCurrent
    /\ Table(sessions, clock, tokens, lag)
    /\ \A p \in Procs : HandlerOK(proc[p], sessions, clock, tokens, lag)

-----------------------------------------------------------------------------
(* The limit on the number of sessions (createSession).                    *)

\* Natural numbers are well ordered.
LEMMA Smallest ==
    ASSUME NEW S \in SUBSET Nat, S # {}
    PROVE  \E x \in S : \A y \in S : x <= y
<1>. DEFINE R == {ss \in Nat \X Nat : ss[1] < ss[2]}
<1>1. IsWellFoundedOn(R, Nat)
  BY NatLessThanWellFounded, Zenon DEF OpToRel
<1>2. PICK x \in S : \A y \in S : ~(<<y, x>> \in R)
  <2>. HIDE DEF R
  <2>. QED BY <1>1, WFMin, Zenon
<1>3. \A y \in S : x <= y
  <2>. SUFFICES ASSUME NEW y \in S, ~(x <= y) PROVE FALSE
    OBVIOUS
  <2>1. y \in Nat /\ x \in Nat /\ y < x
    OBVIOUS
  <2>2. <<y, x>> \in R
    BY <2>1
  <2>. QED BY <2>2, <1>2, Zenon
<1>. QED BY <1>3

\* The delete of createSession leaves at most MaximumSessions rows: those that
\* stay lie above the least recently used of them, which has fewer than
\* MaximumSessions above it.
LEMMA NewestLimited ==
    ASSUME NEW S \in SUBSET Session, IsFiniteSet(S),
           \A s, u \in S : s.id = u.id => s = u
    PROVE  Limited(Newest(S))
<1>. DEFINE N == Newest(S)
            rank(s) == Cardinality(Above(S, s))
<1>1. N \subseteq S /\ IsFiniteSet(N)
  BY FS_Subset DEF Newest
<1>2. ASSUME NEW s \in S
      PROVE  IsFiniteSet(Above(S, s)) /\ rank(s) \in Nat
  <2>1. Above(S, s) \subseteq S
    BY DEF Above
  <2>. QED BY <2>1, FS_Subset, FS_CardinalityType
<1>3. MaximumSessions \in Nat \ {0}
  BY PolicyAssumption
<1>4. CASE N = {}
  BY <1>4, <1>3, FS_EmptySet DEF Limited
<1>5. CASE N # {}
  <2>. DEFINE D == {MaximumSessions - rank(s) : s \in N}
  <2>1. \A s \in N : rank(s) < MaximumSessions /\ s \in S /\ rank(s) \in Nat
    BY <1>2, <1>1 DEF Newest
  <2>. HIDE DEF rank, N
  <2>2. D \in SUBSET Nat /\ D # {}
    BY <2>1, <1>3, <1>5
  <2>3. PICK d \in D : \A e \in D : d <= e
    <3>. HIDE DEF D
    <3>. QED BY <2>2, Smallest
  <2>4. PICK m \in N : d = MaximumSessions - rank(m)
    BY <2>3
  <2>5. \A u \in N : rank(u) <= rank(m)
    BY <2>1, <2>3, <2>4, <1>3
  <2>6. ASSUME NEW u \in N, u # m
        PROVE  u \in Above(S, m)
    <3>1. u \in S /\ m \in S /\ u \in Session /\ m \in Session /\ u.id # m.id
      BY <2>1, <2>6
    <3>2. SUFFICES ASSUME u \notin Above(S, m) PROVE FALSE
      OBVIOUS
    <3>3. m \in Above(S, u)
      BY <3>1, <3>2 DEF Above, Session
    <3>4. Above(S, m) \cup {m} \subseteq Above(S, u)
      <4>. SUFFICES ASSUME NEW x \in Above(S, m) PROVE x \in Above(S, u)
        BY <3>3
      <4>1. x \in Session /\ x \in S
        BY DEF Above
      <4>. QED BY <4>1, <3>1, <3>3 DEF Above, Session
    <3>5. m \notin Above(S, m)
      BY <3>1 DEF Above, Session
    <3>6. Cardinality(Above(S, m) \cup {m}) = Cardinality(Above(S, m)) + 1
      BY <3>5, <3>1, <1>2, FS_AddElement
    <3>7. Cardinality(Above(S, m) \cup {m}) <= Cardinality(Above(S, u))
      BY <3>4, <3>1, <1>2, FS_Subset
    <3>. QED BY <3>6, <3>7, <2>5, <2>1, <3>1 DEF rank
  <2>7. N \subseteq Above(S, m) \cup {m}
    BY <2>6
  <2>8. m \in S /\ rank(m) < MaximumSessions /\ rank(m) \in Nat
    BY <2>1
  <2>9. IsFiniteSet(Above(S, m) \cup {m}) /\ Cardinality(Above(S, m) \cup {m}) <= rank(m) + 1
    BY <2>8, <1>2, FS_AddElement DEF rank
  <2>10. Cardinality(N) <= Cardinality(Above(S, m) \cup {m})
    BY <2>7, <2>9, FS_Subset
  <2>11. Cardinality(N) \in Nat /\ Cardinality(Above(S, m) \cup {m}) \in Nat
    BY <2>9, <1>1, FS_CardinalityType
  <2>12. Cardinality(N) <= MaximumSessions
    BY <2>8, <2>9, <2>10, <2>11, <1>3
  <2>. QED BY <2>12, <1>1 DEF Limited, N
<1>. QED BY <1>4, <1>5

\* SQLite's choice of the row id is above every id in use, and it exists.
LEMMA NewIdAbove ==
    ASSUME NEW S \in SUBSET Session, NEW n \in Nat, n < MaxTokens,
           \A s \in S : s.id <= n
    PROVE  /\ NewId(S) \in Nat \ {0} /\ NewId(S) <= n + 1
           /\ \A s \in S : s.id < NewId(S)
<1>. DEFINE ok(k) == /\ \A s \in S : s.id < k
                     /\ k = 1 \/ \E s \in S : s.id = k - 1
            T == {k \in Nat \ {0} : \A s \in S : s.id < k}
<1>1. T \in SUBSET Nat /\ n + 1 \in T
  BY DEF Session
<1>2. PICK k \in T : \A j \in T : k <= j
  <2>. HIDE DEF T
  <2>. QED BY <1>1, Smallest
<1>3. k \in Nat \ {0} /\ k <= n + 1 /\ MaxTokens \in Nat
  BY <1>1, <1>2, PolicyAssumption
<1>4. ok(k)
  <2>. SUFFICES ASSUME k # 1 PROVE \E s \in S : s.id = k - 1
    BY <1>2
  <2>1. k - 1 \in Nat \ {0} /\ k - 1 \notin T
    BY <1>2, <1>3
  <2>2. PICK s \in S : ~(s.id < k - 1)
    BY <2>1
  <2>3. s.id \in Nat /\ s.id < k
    BY <1>2 DEF Session
  <2>4. s.id = k - 1
    BY <2>2, <2>3, <1>3
  <2>. QED BY <2>4
<1>5. NewId(S) \in 1..(MaxTokens + 1) /\ ok(NewId(S))
  <2>1. k \in 1..(MaxTokens + 1)
    BY <1>3
  <2>2. NewId(S) = CHOOSE j \in 1..(MaxTokens + 1) : ok(j)
    BY DEF NewId
  <2>. HIDE DEF ok
  <2>. QED BY <2>1, <2>2, <1>4
<1>6. NewId(S) \in Nat \ {0}
  BY <1>5, <1>3
<1>7. NewId(S) <= n + 1
  BY <1>5, <1>6 DEF Session
<1>. QED BY <1>5, <1>6, <1>7

-----------------------------------------------------------------------------
(* What a change of the table means for the other handlers.                *)

\* t is s after a step: it goes by no other of the tokens handed out before.
From(s, t, n) ==
    /\ t.id = s.id /\ t.csrf = s.csrf /\ t.absolute = s.absolute
    /\ t.created = s.created
    /\ \A k \in 1..n : Names(t, k) =>
          /\ Names(s, k)
          /\ s.previous = k => t.previous = k /\ t.until = s.until

\* Every row of T comes from one of S or is a new session.
Evolves(S, T, n) ==
    \A t \in T : \/ t.current > n /\ t.csrf > n /\ t.previous = None
                 \/ \E s \in S : From(s, t, n)

\* The step takes no token away from a session within its grace period.
TokensKept(S, T, c, g) ==
    g < PreviousGrace =>
      \A s \in S, t \in T : s.csrf = t.csrf =>
        /\ s.previous # None /\ c < s.until => t.previous = s.previous /\ t.until = s.until
        /\ \/ t.current = s.current
           \/ t.previous = s.current /\ c + PreviousGrace <= t.until + g

\* Such a change, by another handler, preserves all that is known of a handler.
LEMMA OthersKept ==
    ASSUME NEW S \in SUBSET Session, NEW T \in SUBSET Session,
           NEW c \in Nat, NEW n \in Nat, NEW m \in Nat, n <= m,
           NEW g \in Nat, NEW h \in Nat, g <= h,
           Evolves(S, T, n), TokensKept(S, T, c, h),
           NEW r \in HandlerType, HandlerOK(r, S, c, n, g)
    PROVE  HandlerOK(r, T, c, m, h)
<1>. USE PolicyAssumption
<1>1. /\ r.token \in Nat /\ r.csrf \in Nat /\ r.raw \in Nat /\ r.age \in Nat /\ r.now \in Nat
      /\ r.token <= n /\ r.csrf <= n /\ r.raw <= n
  BY DEF HandlerType, HandlerOK, RequestOK
<1>2. RequestOK(r, m)
  BY <1>1 DEF HandlerOK, RequestOK
<1>3. ASSUME NEW t \in T, NEW k \in Nat, k # None, k <= n, Names(t, k)
      PROVE  \E s \in S : Names(s, k) /\ From(s, t, n)
                          /\ (s.previous = k => t.previous = k /\ t.until = s.until)
  <2>1. k \in 1..n
    BY <1>3 DEF None
  <2>2. ~(t.current > n /\ t.csrf > n /\ t.previous = None)
    BY <1>3 DEF Names, Session
  <2>3. PICK s \in S : From(s, t, n)
    BY <2>2 DEF Evolves
  <2>. QED BY <2>1, <2>3, <1>3 DEF From
<1>4. ReadOK(r, T)
  <2>. SUFFICES ASSUME r.pc = "check" PROVE ReadOK(r, T)
    BY DEF ReadOK
  <2>1. r.token # None
    BY DEF HandlerOK, RequestOK, Validating
  <2>2. ReadOK(r, S)
    BY DEF HandlerOK
  <2>. SUFFICES ASSUME NEW t \in T, Names(t, r.token)
                PROVE  /\ Agrees(r, t) /\ t.created <= r.row.seen
                       /\ r.token # r.row.current =>
                            t.previous = r.token /\ t.until = r.row.until
    BY <2>2 DEF ReadOK
  <2>3. PICK s \in S : Names(s, r.token) /\ From(s, t, n)
                       /\ (s.previous = r.token => t.previous = r.token /\ t.until = s.until)
    BY <1>1, <1>3, <2>1
  <2>. QED BY <2>2, <2>3 DEF ReadOK, From, Agrees
<1>5. DecisionOK(r, T)
  <2>. SUFFICES ASSUME r.pc \in Decided PROVE DecisionOK(r, T)
    BY DEF DecisionOK
  <2>1. r.token # None
    BY DEF HandlerOK, RequestOK, Validating
  <2>2. DecisionOK(r, S)
    BY DEF HandlerOK
  <2>. SUFFICES ASSUME NEW t \in T, Names(t, r.token)
                PROVE  /\ Agrees(r, t) /\ t.created <= r.now
                       /\ r.pc = "drop" => t.previous = r.token /\ t.until <= r.now
    BY <2>2 DEF DecisionOK
  <2>3. PICK s \in S : Names(s, r.token) /\ From(s, t, n)
                       /\ (s.previous = r.token => t.previous = r.token /\ t.until = s.until)
    BY <1>1, <1>3, <2>1
  <2>. QED BY <2>2, <2>3 DEF DecisionOK, From, Agrees
<1>6. StampOK(r, c, h)
  BY DEF HandlerOK, StampOK
<1>7. ASSUME NEW t \in T, t.csrf = r.csrf
      PROVE  \E s \in S : s.csrf = t.csrf
  <2>1. ~(t.csrf > n)
    BY <1>1, <1>7
  <2>2. PICK s \in S : From(s, t, n)
    BY <2>1 DEF Evolves
  <2>. QED BY <2>2 DEF From
<1>8. Holds(r, T, c, h)
  <2>. SUFFICES ASSUME r.pc \in Validating \/ (r.pc = "forget" /\ r.kind = "signOut"),
                       r.fresh, r.csrf # None, r.age + h < PreviousGrace,
                       NEW t \in T, t.csrf = r.csrf
                PROVE  Covered(r, t, c, h)
    BY DEF Holds
  <2>1. PICK s \in S : s.csrf = t.csrf
    BY <1>7
  <2>2. r.age + g < PreviousGrace /\ h < PreviousGrace
    BY <1>1
  <2>3. Covered(r, s, c, g)
    BY <2>1, <2>2 DEF HandlerOK, Holds
  <2>4. s \in Session /\ t \in Session
    OBVIOUS
  <2>5. /\ s.previous # None /\ c < s.until => t.previous = s.previous /\ t.until = s.until
        /\ \/ t.current = s.current
           \/ t.previous = s.current /\ c + PreviousGrace <= t.until + h
    BY <2>1, <2>2 DEF TokensKept
  <2>6. /\ s.until \in Nat /\ t.until \in Nat /\ s.current # None
        /\ s.current \in Nat /\ s.previous \in Nat
    BY <2>4 DEF Session, None
  <2>7. CASE s.current = r.token
    BY <2>5, <2>6, <2>7, <1>1 DEF Covered
  <2>8. CASE s.previous = r.token /\ c + PreviousGrace <= s.until + g + r.age
    <3>1. c < s.until
      BY <2>8, <2>6, <2>2, <1>1
    <3>2. CASE s.previous = None
      BY <3>2, <2>8 DEF HandlerOK, RequestOK, Holds
    <3>3. CASE s.previous # None
      BY <3>1, <3>3, <2>5, <2>6, <2>8, <1>1 DEF Covered
    <3>. QED BY <3>2, <3>3
  <2>. QED BY <2>3, <2>7, <2>8 DEF Covered
<1>9. HoldsAtOnce(r, T, c, h)
  <2>. SUFFICES ASSUME r.pc = "forget", r.kind = "signOut", r.age = 0,
                       h < PreviousGrace, NEW t \in T, t.csrf = r.csrf
                PROVE  t.current = r.raw \/ (t.previous = r.raw /\ c < t.until)
    BY DEF HoldsAtOnce
  <2>1. PICK s \in S : s.csrf = t.csrf
    BY <1>7
  <2>2. s.current = r.raw \/ (s.previous = r.raw /\ c < s.until)
    BY <2>1 DEF HandlerOK, HoldsAtOnce
  <2>3. /\ s.previous # None /\ c < s.until => t.previous = s.previous /\ t.until = s.until
        /\ \/ t.current = s.current
           \/ t.previous = s.current /\ c + PreviousGrace <= t.until + h
    BY <2>1 DEF TokensKept
  <2>4. s.until \in Nat /\ t.until \in Nat /\ r.raw # None
    BY DEF Session, HandlerOK, RequestOK
  <2>. QED BY <2>2, <2>3, <2>4, <1>1
<1>10. RefusedOK(r, T, h)
  BY <1>1, <1>7 DEF HandlerOK, RefusedOK
<1>11. EndedOK(r, T, h)
  BY <1>1, <1>7 DEF HandlerOK, EndedOK
<1>. QED BY <1>2, <1>4, <1>5, <1>6, <1>8, <1>9, <1>10, <1>11 DEF HandlerOK

-----------------------------------------------------------------------------
(* The three ways in which the table changes.                              *)

\* Rows are deleted.
LEMMA TableShrinks ==
    ASSUME NEW S \in SUBSET Session, NEW T \in SUBSET S,
           NEW c, NEW n \in Nat, NEW g, Table(S, c, n, g)
    PROVE  Table(T, c, n, g) /\ Evolves(S, T, n) /\ TokensKept(S, T, c, g)
<1>1. Limited(T)
  <2>1. /\ IsFiniteSet(S) /\ IsFiniteSet(T) /\ Cardinality(T) <= Cardinality(S)
        /\ Cardinality(S) <= MaximumSessions
    BY FS_Subset DEF Table, Limited
  <2>2. Cardinality(S) \in Nat /\ Cardinality(T) \in Nat
    BY <2>1, FS_CardinalityType
  <2>. QED BY <2>1, <2>2, PolicyAssumption DEF Limited
<1>2. Table(T, c, n, g)
  BY <1>1 DEF Table, Distinct
<1>3. \A t \in T : From(t, t, n)
  BY DEF From, Names
<1>4. Evolves(S, T, n)
  BY <1>3 DEF Evolves
<1>5. \A s \in S, t \in T : s.csrf = t.csrf => s = t
  BY DEF Table, Distinct, Same
<1>6. TokensKept(S, T, c, g)
  BY <1>5 DEF TokensKept
<1>. QED BY <1>2, <1>4, <1>6

\* The session s becomes t; its tokens are among the former ones and, when it
\* rotates, the new one.
LEMMA TableReplaces ==
    ASSUME NEW S \in SUBSET Session, NEW c, NEW n \in Nat, NEW m \in Nat,
           NEW g \in Nat, NEW h \in Nat, g <= h, Table(S, c, n, g),
           NEW s \in S, NEW t \in Session, From(s, t, n), RowOK(t), Known(t, m),
           \/ m = n /\ t.current = s.current /\ t.previous \in {s.previous, None}
           \/ m = n + 1 /\ t.current = n + 1 /\ t.previous = s.current,
           h < PreviousGrace =>
             /\ t.seen <= c
             /\ s.previous # None /\ c < s.until =>
                  t.previous = s.previous /\ t.until = s.until
             /\ t.current # s.current => c + PreviousGrace <= t.until + h
    PROVE  LET T == (S \ {s}) \cup {t} IN
           /\ T \in SUBSET Session
           /\ Table(T, c, m, h) /\ Evolves(S, T, n) /\ TokensKept(S, T, c, h)
<1>. DEFINE T == (S \ {s}) \cup {t}
<1>. USE PolicyAssumption
<1>0. T \in SUBSET Session
  OBVIOUS
<1>1. Limited(T)
  <2>1. IsFiniteSet(S) /\ Cardinality(S) <= MaximumSessions
    BY DEF Table, Limited
  <2>2. Cardinality(S) \in Nat
    BY <2>1, FS_CardinalityType
  <2>3. IsFiniteSet(S \ {s}) /\ Cardinality(S \ {s}) = Cardinality(S) - 1
    BY <2>1, FS_RemoveElement
  <2>4. IsFiniteSet(T) /\ Cardinality(T) <= Cardinality(S \ {s}) + 1
    <3>1. Cardinality(S \ {s}) \in Int
      BY <2>2, <2>3
    <3>. DEFINE R == S \ {s}
    <3>2. IsFiniteSet(R)
      BY <2>3
    <3>. HIDE DEF R
    <3>3. /\ IsFiniteSet(R \cup {t})
          /\ Cardinality(R \cup {t}) = IF t \in R THEN Cardinality(R) ELSE Cardinality(R) + 1
      BY <3>2, FS_AddElement
    <3>4. Cardinality(R) \in Int
      BY <3>1 DEF R
    <3>. QED BY <3>3, <3>4 DEF R
  <2>5. Cardinality(T) \in Nat
    BY <2>4, FS_CardinalityType
  <2>. QED BY <2>1, <2>2, <2>3, <2>4, <2>5 DEF Limited
<1>2. ASSUME NEW u \in S, u # s
      PROVE  ~Same(u, t) /\ ~Same(t, u)
  <2>1. ~Same(u, s) /\ ~Same(s, u)
    BY <1>2 DEF Table, Distinct
  <2>2. Known(u, n) /\ Known(s, n)
    BY DEF Table
  <2>3. u \in Session /\ s \in Session
    OBVIOUS
  <2>. QED BY <2>1, <2>2, <2>3 DEF Same, Known, From, Names, Session, None
<1>3. Distinct(T)
  BY <1>2 DEF Table, Distinct
<1>4. \A u \in S : RowOK(u) /\ Known(u, m)
  BY DEF Table, Known, Session
<1>5. h < PreviousGrace => \A u \in S : u.seen <= c
  BY DEF Table
<1>6. Table(T, c, m, h)
  BY <1>1, <1>3, <1>4, <1>5 DEF Table
<1>7. \A u \in S : From(u, u, n)
  BY DEF From, Names
<1>8. Evolves(S, T, n)
  BY <1>7 DEF Evolves
<1>9. TokensKept(S, T, c, h)
  <2>. SUFFICES ASSUME h < PreviousGrace, NEW u \in S, NEW v \in T, u.csrf = v.csrf
                PROVE  /\ u.previous # None /\ c < u.until =>
                            v.previous = u.previous /\ v.until = u.until
                       /\ \/ v.current = u.current
                          \/ v.previous = u.current /\ c + PreviousGrace <= v.until + h
    BY DEF TokensKept
  <2>1. CASE v = t
    <3>1. u.csrf = s.csrf
      BY <2>1 DEF From
    <3>2. u = s
      BY <3>1 DEF Table, Distinct, Same
    <3>. QED BY <2>1, <3>2
  <2>2. CASE v # t
    <3>1. v = u
      BY <2>2 DEF Table, Distinct, Same
    <3>. QED BY <3>1
  <2>. QED BY <2>1, <2>2
<1>. QED BY <1>0, <1>6, <1>8, <1>9

\* A sign-in adds x to the rows it keeps.
LEMMA TableGrows ==
    ASSUME NEW S \in SUBSET Session, NEW c, NEW n \in Nat, NEW g \in Nat,
           Table(S, c, n, g), NEW T \in SUBSET Session, Limited(T),
           NEW x \in Session, NEW K \in SUBSET S, T \subseteq K \cup {x},
           x.current = n + 1, x.csrf = n + 1, x.previous = None, x.id <= n + 1,
           \A s \in K : s.id < x.id,
           RowOK(x), g < PreviousGrace => x.seen <= c
    PROVE  Table(T, c, n + 1, g) /\ Evolves(S, T, n) /\ TokensKept(S, T, c, g)
<1>1. ASSUME NEW u \in K
      PROVE  ~Same(u, x) /\ ~Same(x, u)
  <2>1. Known(u, n) /\ u \in Session
    BY DEF Table
  <2>. QED BY <2>1 DEF Same, Known, Names, Session, None
<1>2. Distinct(T)
  BY <1>1 DEF Table, Distinct
<1>3. \A u \in S : RowOK(u) /\ Known(u, n + 1)
  BY DEF Table, Known, Session
<1>4. Known(x, n + 1)
  BY DEF Known, None
<1>5. Table(T, c, n + 1, g)
  BY <1>2, <1>3, <1>4 DEF Table
<1>6. \A u \in S : From(u, u, n)
  BY DEF From, Names
<1>7. Evolves(S, T, n)
  BY <1>6 DEF Evolves
<1>8. TokensKept(S, T, c, g)
  <2>1. \A s \in S : s.csrf \in Nat /\ s.csrf <= n
    BY DEF Table, Known, Session
  <2>2. \A s \in S, t \in T : s.csrf = t.csrf => s = t
    BY <2>1 DEF Table, Distinct, Same
  <2>. QED BY <2>2 DEF TokensKept
<1>. QED BY <1>5, <1>7, <1>8

-----------------------------------------------------------------------------
(* One step of one handler.                                                *)

AnswerRecord(r, a) ==
    [Idle EXCEPT !.kind = r.kind, !.pc = "answered", !.answer = a, !.csrf = r.csrf,
                 !.age = r.age, !.fresh = r.fresh]

LEMMA RowTypes ==
    /\ NoRow \in Rows /\ Administrator \subseteq Rows /\ Session \subseteq Rows
    /\ KeptRow \subseteq Rows
  BY DEF Rows

LEMMA IdleOK ==
    ASSUME NEW S, NEW c \in Nat, NEW n \in Nat, NEW g
    PROVE  Idle \in HandlerType /\ HandlerOK(Idle, S, c, n, g)
<1>1. Idle \in HandlerType
  BY RowTypes DEF Idle, HandlerType, Kinds, Locations, Answers, None
<1>2. HandlerOK(Idle, S, c, n, g)
  BY DEF Idle, HandlerOK, RequestOK, ReadOK, DecisionOK, StampOK, Holds, HoldsAtOnce,
         ForgetOK, RefusedOK, EndedOK, Validating, Decided, SigningIn, None
<1>. QED BY <1>1, <1>2

\* What must hold for a request to be refused as invalid, or a sign-out to be
\* answered.
LEMMA AnswerOK ==
    ASSUME NEW S, NEW c \in Nat, NEW n \in Nat, NEW g \in Nat,
           NEW r \in HandlerType, RequestOK(r, n), NEW a \in Answers,
           (a = "invalid" /\ r.fresh /\ r.csrf # None /\ r.age + g < PreviousGrace)
              => \A s \in S : s.csrf # r.csrf,
           (a = "ok" /\ r.kind = "signOut" /\ r.age + g < PreviousGrace
            /\ (r.fresh \/ r.age = 0))
              => \A s \in S : s.csrf # r.csrf
    PROVE  AnswerRecord(r, a) \in HandlerType /\ HandlerOK(AnswerRecord(r, a), S, c, n, g)
<1>. DEFINE q == AnswerRecord(r, a)
<1>1. /\ q.kind = r.kind /\ q.pc = "answered" /\ q.answer = a /\ q.csrf = r.csrf
      /\ q.age = r.age /\ q.fresh = r.fresh /\ q.token = 0 /\ q.raw = 0 /\ q.now = 0
  BY DEF AnswerRecord, Idle, None
<1>2. q \in HandlerType
  BY RowTypes DEF AnswerRecord, Idle, HandlerType, Kinds, Locations, None
<1>. HIDE DEF q
<1>3. RequestOK(q, n)
  BY <1>1 DEF RequestOK, HandlerType, Validating, Decided, SigningIn
<1>4. ReadOK(q, S) /\ DecisionOK(q, S) /\ StampOK(q, c, g) /\ Holds(q, S, c, g)
      /\ HoldsAtOnce(q, S, c, g) /\ ForgetOK(q)
  BY <1>1 DEF ReadOK, DecisionOK, StampOK, Holds, HoldsAtOnce, ForgetOK, Validating, Decided
<1>5. RefusedOK(q, S, g) /\ EndedOK(q, S, g)
  BY <1>1 DEF RefusedOK, EndedOK
<1>6. HandlerOK(q, S, c, n, g)
  BY <1>3, <1>4, <1>5 DEF HandlerOK
<1>. QED BY <1>2, <1>6 DEF q

\* The conclusion common to all the steps of a handler.
LEMMA HandlerStep ==
    ASSUME Inv, NEW p \in Procs, NEW r \in HandlerType,
           proc' = [proc EXCEPT ![p] = r],
           clock' = clock, steps' = steps, tokens' \in Nat, tokens <= tokens',
           lag' \in 0..PreviousGrace, lag <= lag',
           admin' \in Administrator, sessions' \in SUBSET Session, SessionsAreCurrent',
           Table(sessions', clock, tokens', lag'),
           Evolves(sessions, sessions', tokens),
           TokensKept(sessions, sessions', clock, lag'),
           HandlerOK(r, sessions', clock, tokens', lag')
    PROVE  Inv'
<1>1. Types'
  BY DEF Inv, Types
<1>2. ASSUME NEW q \in Procs
      PROVE  HandlerOK(proc'[q], sessions', clock', tokens', lag')
  <2>1. CASE q = p
    BY <2>1 DEF Inv, Types
  <2>2. CASE q # p
    <3>1. proc'[q] = proc[q] /\ proc[q] \in HandlerType
      BY <2>2 DEF Inv, Types
    <3>2. HandlerOK(proc[q], sessions, clock, tokens, lag)
      BY DEF Inv
    <3>3. /\ sessions \in SUBSET Session /\ clock \in Nat /\ tokens \in Nat
          /\ lag \in Nat /\ lag' \in Nat
      BY PolicyAssumption DEF Inv, Types
    <3>4. HandlerOK(proc[q], sessions', clock, tokens', lag')
      BY <3>1, <3>2, <3>3, OthersKept
    <3>. QED BY <3>1, <3>4
  <2>. QED BY <2>1, <2>2
<1>3. (Table(sessions, clock, tokens, lag))'
  OBVIOUS
<1>. QED BY <1>1, <1>2, <1>3 DEF Inv

\* A step that leaves the table alone.
LEMMA QuietStep ==
    ASSUME Inv, NEW p \in Procs, NEW r \in HandlerType,
           proc' = [proc EXCEPT ![p] = r],
           UNCHANGED <<clock, admin, sessions, tokens, steps, lag>>,
           HandlerOK(r, sessions, clock, tokens, lag)
    PROVE  Inv'
<1>1. SessionsAreCurrent'
  BY DEF Inv, SessionsAreCurrent, Live
<1>2. /\ sessions \in SUBSET Session /\ tokens \in Nat /\ lag \in 0..PreviousGrace
      /\ admin \in Administrator /\ clock \in Nat
  BY DEF Inv, Types
<1>3. /\ Table(sessions, clock, tokens, lag) /\ Evolves(sessions, sessions, tokens)
      /\ TokensKept(sessions, sessions, clock, lag)
  BY <1>2, TableShrinks DEF Inv
<1>4. /\ clock' = clock /\ steps' = steps /\ tokens' \in Nat /\ tokens <= tokens'
      /\ lag' \in 0..PreviousGrace /\ lag <= lag' /\ admin' \in Administrator
      /\ sessions' \in SUBSET Session
  BY <1>2, PolicyAssumption
<1>5. /\ Table(sessions', clock, tokens', lag')
      /\ Evolves(sessions, sessions', tokens)
      /\ TokensKept(sessions, sessions', clock, lag')
      /\ HandlerOK(r, sessions', clock, tokens', lag')
  BY <1>3
<1>. QED BY <1>1, <1>4, <1>5, HandlerStep

\* A step that deletes rows.
LEMMA DeletingStep ==
    ASSUME Inv, NEW p \in Procs, NEW r \in HandlerType,
           proc' = [proc EXCEPT ![p] = r],
           UNCHANGED <<clock, admin, tokens, steps, lag>>,
           sessions' \in SUBSET sessions,
           HandlerOK(r, sessions', clock, tokens, lag)
    PROVE  Inv'
<1>1. SessionsAreCurrent'
  BY DEF Inv, SessionsAreCurrent, Live
<1>2. /\ sessions \in SUBSET Session /\ tokens \in Nat /\ lag \in 0..PreviousGrace
      /\ admin \in Administrator /\ clock \in Nat
  BY DEF Inv, Types
<1>3. /\ Table(sessions', clock, tokens, lag) /\ Evolves(sessions, sessions', tokens)
      /\ TokensKept(sessions, sessions', clock, lag)
  BY <1>2, TableShrinks DEF Inv
<1>4. /\ clock' = clock /\ steps' = steps /\ tokens' \in Nat /\ tokens <= tokens'
      /\ lag' \in 0..PreviousGrace /\ lag <= lag' /\ admin' \in Administrator
      /\ sessions' \in SUBSET Session
  BY <1>2, PolicyAssumption
<1>5. /\ Table(sessions', clock, tokens', lag')
      /\ Evolves(sessions, sessions', tokens)
      /\ TokensKept(sessions, sessions', clock, lag')
      /\ HandlerOK(r, sessions', clock, tokens', lag')
  BY <1>3
<1>. QED BY <1>1, <1>4, <1>5, HandlerStep

LEMMA Context ==
    ASSUME Inv, NEW p \in Procs
    PROVE  /\ proc[p] \in HandlerType
           /\ HandlerOK(proc[p], sessions, clock, tokens, lag)
           /\ RequestOK(proc[p], tokens)
           /\ sessions \in SUBSET Session /\ Table(sessions, clock, tokens, lag)
           /\ clock \in Nat /\ tokens \in Nat /\ lag \in Nat /\ admin \in Administrator
           /\ lag \in 0..PreviousGrace
  BY PolicyAssumption DEF Inv, Types, HandlerOK

-----------------------------------------------------------------------------
(* Sign-in.                                                                *)

LEMMA SignInOK ==
    ASSUME Inv, NEW p \in Procs, SignIn(p)
    PROVE  Inv'
<1>. USE Context
<1>1. UNCHANGED <<clock, admin, sessions, tokens, steps, lag>>
  BY DEF SignIn
<1>2. ASSUME NEW cookie \in {None} \cup {s.current : s \in sessions},
             Go(p, [Idle EXCEPT !.kind = "signIn", !.pc = "derive", !.raw = cookie,
                                !.row = admin])
      PROVE  Inv'
  <2>. DEFINE q == [Idle EXCEPT !.kind = "signIn", !.pc = "derive", !.raw = cookie,
                                !.row = admin]
  <2>1. cookie \in Nat /\ cookie <= tokens
    BY DEF Table, Known, Session, None
  <2>2. q \in HandlerType
    BY <2>1, RowTypes DEF Idle, HandlerType, Kinds, Locations, Answers, None
  <2>3. HandlerOK(q, sessions, clock, tokens, lag)
    <3>1. admin.epoch > 0 /\ admin.epoch \in Nat
      <4>1. admin.epoch > 0
        BY DEF SignIn
      <4>. QED BY <4>1 DEF Administrator
    <3>2. admin.epoch # 0
      BY <3>1
    <3>. QED BY <2>1, <3>2
         DEF Idle, HandlerOK, RequestOK, ReadOK, DecisionOK, StampOK, Holds, HoldsAtOnce,
             ForgetOK, RefusedOK, EndedOK, Validating, Decided, SigningIn, None
  <2>4. proc' = [proc EXCEPT ![p] = q]
    BY <1>2 DEF Go
  <2>. HIDE DEF q
  <2>. QED BY <1>1, <2>2, <2>3, <2>4, QuietStep
<1>3. ASSUME Go(p, [Idle EXCEPT !.kind = "signIn", !.pc = "answered",
                                !.answer = "invalid"])
      PROVE  Inv'
  <2>. DEFINE q == [Idle EXCEPT !.kind = "signIn", !.pc = "answered",
                                !.answer = "invalid"]
  <2>1. q \in HandlerType
    BY RowTypes DEF Idle, HandlerType, Kinds, Locations, Answers, None
  <2>2. HandlerOK(q, sessions, clock, tokens, lag)
    BY DEF Idle, HandlerOK, RequestOK, ReadOK, DecisionOK, StampOK, Holds, HoldsAtOnce,
           ForgetOK, RefusedOK, EndedOK, Validating, Decided, SigningIn, None
  <2>3. proc' = [proc EXCEPT ![p] = q]
    BY <1>3 DEF Go
  <2>. HIDE DEF q
  <2>. QED BY <1>1, <2>1, <2>2, <2>3, QuietStep
<1>. QED BY <1>2, <1>3 DEF SignIn

LEMMA DeriveOK ==
    ASSUME Inv, NEW p \in Procs, Derive(p)
    PROVE  Inv'
<1>. USE Context
<1>. DEFINE r == proc[p]
            q == [proc[p] EXCEPT !.pc = "create", !.now = clock]
<1>1. q \in HandlerType
  BY DEF HandlerType, Locations
<1>2. /\ q.pc = "create" /\ q.now = clock /\ q.token = r.token /\ q.csrf = r.csrf
      /\ q.raw = r.raw /\ q.kind = r.kind /\ q.row = r.row /\ q.fresh = r.fresh
  BY DEF HandlerType
<1>3. RequestOK(q, tokens)
  <2>1. r.pc = "derive"
    BY DEF Derive, At
  <2>. QED BY <1>2, <2>1 DEF RequestOK, Validating, Decided, SigningIn
<1>4. HandlerOK(q, sessions, clock, tokens, lag)
  <2>. HIDE DEF q
  <2>. QED BY <1>2, <1>3 DEF HandlerOK, ReadOK, DecisionOK, StampOK, Holds, HoldsAtOnce,
         ForgetOK, RefusedOK, EndedOK, Validating, Decided
<1>5. proc' = [proc EXCEPT ![p] = q] /\ UNCHANGED <<clock, admin, sessions, tokens, steps, lag>>
  BY DEF Derive, Go
<1>. HIDE DEF q
<1>. QED BY <1>1, <1>4, <1>5, QuietStep

\* The transaction of createSession.
LEMMA Created ==
    ASSUME Inv, NEW p \in Procs, proc[p].pc = "create", admin.epoch = proc[p].row.epoch,
           tokens < MaxTokens
    PROVE  LET kept == {s \in sessions :
                          s.idle > proc[p].now /\ s.absolute > proc[p].now /\ Live(s)}
               x == NewSession(p, NewId(kept))
               T == Newest(kept \cup {x})
           IN /\ T \in SUBSET Session /\ T \subseteq kept \cup {x}
              /\ Table(T, clock, tokens + 1, lag) /\ Evolves(sessions, T, tokens)
              /\ TokensKept(sessions, T, clock, lag)
<1>. USE Context
<1>. DEFINE now == proc[p].now
            kept == {s \in sessions : s.idle > now /\ s.absolute > now /\ Live(s)}
            x == NewSession(p, NewId(kept))
            T == Newest(kept \cup {x})
<1>1. now \in Nat /\ proc[p].row \in Administrator
  BY DEF HandlerType, RequestOK
<1>2. kept \in SUBSET sessions /\ kept \in SUBSET Session
  OBVIOUS
<1>3. \A s \in kept : s.id <= tokens
  BY DEF Table, Known, Session
<1>4. /\ NewId(kept) \in Nat \ {0} /\ NewId(kept) <= tokens + 1
      /\ \A s \in kept : s.id < NewId(kept)
  <2>. HIDE DEF kept
  <2>. QED BY <1>2, <1>3, NewIdAbove
<1>. HIDE DEF kept, now
<1>5. /\ x.id = NewId(kept) /\ x.current = tokens + 1 /\ x.csrf = tokens + 1
      /\ x.previous = None /\ x.until = 0 /\ x.created = now /\ x.seen = now
      /\ x.absolute = now + AbsoluteLifetime /\ x.rotate = now + RotationAfter
      /\ x.idle = Expires(now, now + AbsoluteLifetime)
  BY DEF NewSession, now
<1>6. Expires(now, now + AbsoluteLifetime) \in Nat
  BY <1>1, PolicyAssumption DEF Expires, Smaller
<1>7. x \in Session
  BY <1>1, <1>4, <1>6, PolicyAssumption
     DEF NewSession, Session, Administrator, now, None
<1>. HIDE DEF x
<1>8. RowOK(x)
  <2>1. x.previous = None /\ x.until = 0
    BY <1>5
  <2>2. x.created <= x.seen /\ x.seen <= x.idle /\ x.idle <= x.absolute
    BY <1>1, <1>5, PolicyAssumption DEF Expires, Smaller
  <2>3. x.until <= x.rotate
    BY <1>1, <1>5, PolicyAssumption
  <2>4. x.epoch # 0
    BY DEF x, NewSession, RequestOK
  <2>. QED BY <2>1, <2>2, <2>3, <2>4 DEF RowOK
<1>9. lag < PreviousGrace => x.seen <= clock
  BY <1>5 DEF HandlerOK, StampOK, now
<1>10. IsFiniteSet(kept \cup {x})
  <2>1. IsFiniteSet(sessions)
    BY DEF Table, Limited
  <2>. QED BY <2>1, <1>2, FS_Subset, FS_AddElement
<1>11. \A s, u \in kept \cup {x} : s.id = u.id => s = u
  <2>1. \A s, u \in kept : s.id = u.id => s = u
    BY <1>2 DEF Table, Distinct, Same
  <2>2. \A s \in kept : s.id \in Nat /\ s.id # x.id
    BY <1>2, <1>4, <1>5 DEF Session
  <2>. QED BY <2>1, <2>2
<1>12. kept \cup {x} \in SUBSET Session
  BY <1>2, <1>7
<1>13. Limited(T)
  BY <1>10, <1>11, <1>12, NewestLimited
<1>14. T \subseteq kept \cup {x}
  BY DEF Newest
<1>. HIDE DEF T
<1>15. T \in SUBSET Session
  BY <1>14, <1>12
<1>16. x.id <= tokens + 1 /\ \A s \in kept : s.id < x.id
  BY <1>4, <1>5
<1>17. /\ Table(T, clock, tokens + 1, lag) /\ Evolves(sessions, T, tokens)
       /\ TokensKept(sessions, T, clock, lag)
  BY <1>2, <1>5, <1>7, <1>8, <1>9, <1>13, <1>14, <1>15, <1>16, TableGrows
<1>. QED BY <1>14, <1>15, <1>17 DEF T, x, kept, now

LEMMA CreateSessionOK ==
    ASSUME Inv, NEW p \in Procs, CreateSession(p)
    PROVE  Inv'
<1>. USE Context
<1>. DEFINE r == proc[p]
            now == proc[p].now
            kept == {s \in sessions : s.idle > now /\ s.absolute > now /\ Live(s)}
            x == NewSession(p, NewId(kept))
            T == Newest(kept \cup {x})
<1>0. r.pc = "create" /\ r.kind = "signIn" /\ ~r.fresh /\ r.row \in Administrator
  BY DEF CreateSession, At, RequestOK, SigningIn
<1>1. CASE admin.epoch = r.row.epoch
  <2>1. /\ tokens < MaxTokens /\ sessions' = T /\ admin' = Upgrade(p)
        /\ tokens' = tokens + 1 /\ UNCHANGED <<clock, steps, lag>>
    BY <1>1 DEF CreateSession
  <2>2. /\ T \in SUBSET Session /\ T \subseteq kept \cup {x}
        /\ Table(T, clock, tokens + 1, lag) /\ Evolves(sessions, T, tokens)
        /\ TokensKept(sessions, T, clock, lag)
    BY <1>0, <1>1, <2>1, Created
  <2>3. admin' \in Administrator /\ admin'.epoch = admin.epoch
    BY <2>1, <1>0 DEF Upgrade, Administrator
  <2>4. x.epoch = admin.epoch /\ x.verified = admin.epoch
    BY <1>1 DEF NewSession
  <2>5. \A s \in kept : s.epoch = admin.epoch /\ s.verified = admin.epoch
    BY DEF Inv, SessionsAreCurrent, Live
  <2>. HIDE DEF kept, x, T
  <2>6. SessionsAreCurrent'
    BY <2>1, <2>2, <2>3, <2>4, <2>5 DEF SessionsAreCurrent, Live
  <2>7. /\ clock' = clock /\ steps' = steps /\ tokens' \in Nat /\ tokens <= tokens'
        /\ lag' \in 0..PreviousGrace /\ lag <= lag' /\ sessions' \in SUBSET Session
    BY <2>1, <2>2, PolicyAssumption
  <2>8. /\ Table(sessions', clock, tokens', lag')
        /\ Evolves(sessions, sessions', tokens)
        /\ TokensKept(sessions, sessions', clock, lag')
    BY <2>1, <2>2
  <2>9. RequestOK(r, tokens')
    BY <2>1 DEF RequestOK, HandlerType
  <2>10. CASE r.raw = None
    <3>1. proc' = [proc EXCEPT ![p] = AnswerRecord(r, "ok")]
      BY <1>1, <2>10 DEF CreateSession, Answer, Go, AnswerRecord
    <3>2. /\ AnswerRecord(r, "ok") \in HandlerType
          /\ HandlerOK(AnswerRecord(r, "ok"), sessions', clock, tokens', lag')
      <4>1. "ok" \in Answers /\ lag' \in Nat
        BY <2>1 DEF Answers
      <4>. QED BY <4>1, <2>7, <2>9, <1>0, AnswerOK
    <3>. QED BY <2>3, <2>6, <2>7, <2>8, <3>1, <3>2, HandlerStep
  <2>11. CASE r.raw # None
    <3>. DEFINE q == [r EXCEPT !.pc = "replace", !.token = tokens + 1,
                               !.row = NoRow, !.now = 0]
    <3>1. proc' = [proc EXCEPT ![p] = q]
      BY <1>1, <2>11 DEF CreateSession, Go
    <3>2. q \in HandlerType
      <4>1. tokens + 1 \in Nat /\ 0 \in Nat /\ NoRow \in Rows /\ "replace" \in Locations
        BY RowTypes DEF Locations
      <4>. QED BY <4>1 DEF HandlerType
    <3>3. /\ q.pc = "replace" /\ q.token = tokens + 1 /\ q.now = 0 /\ q.csrf = r.csrf
          /\ q.raw = r.raw /\ q.kind = r.kind /\ q.fresh = r.fresh
      BY DEF HandlerType
    <3>. HIDE DEF q
    <3>4. RequestOK(q, tokens')
      BY <3>3, <2>1, <2>9, <1>0 DEF RequestOK, Validating, Decided, SigningIn
    <3>5. HandlerOK(q, sessions', clock, tokens', lag')
      BY <3>3, <3>4 DEF HandlerOK, ReadOK, DecisionOK, StampOK, Holds, HoldsAtOnce,
         ForgetOK, RefusedOK, EndedOK, Validating, Decided
    <3>. QED BY <2>3, <2>6, <2>7, <2>8, <3>1, <3>2, <3>5, HandlerStep
  <2>. QED BY <2>10, <2>11
<1>2. CASE admin.epoch # r.row.epoch
  <2>1. proc' = [proc EXCEPT ![p] = AnswerRecord(r, "invalid")]
    BY <1>2 DEF CreateSession, Answer, Go, AnswerRecord
  <2>2. /\ AnswerRecord(r, "invalid") \in HandlerType
        /\ HandlerOK(AnswerRecord(r, "invalid"), sessions, clock, tokens, lag)
    <3>1. "invalid" \in Answers
      BY DEF Answers
    <3>. QED BY <3>1, <1>0, AnswerOK
  <2>3. UNCHANGED <<clock, admin, sessions, tokens, steps, lag>>
    BY <1>2 DEF CreateSession
  <2>. QED BY <2>1, <2>2, <2>3, QuietStep
<1>. QED BY <1>1, <1>2

\* A sign-in never answers for another request's session.
LEMMA ReplaceCookieOK ==
    ASSUME Inv, NEW p \in Procs, ReplaceCookie(p)
    PROVE  Inv'
<1>. USE Context
<1>. DEFINE r == proc[p]
<1>1. r.pc = "replace" /\ r.kind = "signIn" /\ ~r.fresh
  BY DEF ReplaceCookie, At, RequestOK, SigningIn
<1>2. UNCHANGED <<clock, admin, tokens, steps, lag>> /\ sessions' \in SUBSET sessions
  BY DEF ReplaceCookie, Without
<1>3. CASE Answer(p, "ok")
  <2>1. proc' = [proc EXCEPT ![p] = AnswerRecord(r, "ok")]
    BY <1>3 DEF Answer, Go, AnswerRecord
  <2>2. /\ AnswerRecord(r, "ok") \in HandlerType
        /\ HandlerOK(AnswerRecord(r, "ok"), sessions', clock, tokens, lag)
    <3>1. "ok" \in Answers
      BY DEF Answers
    <3>. QED BY <3>1, <1>1, AnswerOK
  <2>. QED BY <1>2, <2>1, <2>2, DeletingStep
<1>4. CASE Go(p, Idle)
  BY <1>2, <1>4, IdleOK, DeletingStep DEF Go
<1>. QED BY <1>3, <1>4 DEF ReplaceCookie

-----------------------------------------------------------------------------
(* A request and its validation.                                           *)

\* A request comes with a token of a session: a current one, or a previous one.
LEMMA RequestKept ==
    ASSUME Inv, NEW p \in Procs, NEW kind \in Kinds \ {"signIn"}, Request(p, kind)
    PROVE  Inv'
<1>. USE Context
<1>1. PICK s \in sessions :
        \E token \in {s.current, s.previous} \ {None} : \E csrf \in {s.csrf, None} :
          Go(p, [Idle EXCEPT !.kind = kind, !.pc = "load", !.token = token,
                             !.raw = token, !.csrf = csrf, !.rotating = TRUE,
                             !.fresh = (token = s.current)])
  BY DEF Request
<1>t. PICK token \in {s.current, s.previous} \ {None} :
        \E csrf \in {s.csrf, None} :
          Go(p, [Idle EXCEPT !.kind = kind, !.pc = "load", !.token = token,
                             !.raw = token, !.csrf = csrf, !.rotating = TRUE,
                             !.fresh = (token = s.current)])
  BY <1>1
<1>c. PICK csrf \in {s.csrf, None} :
        Go(p, [Idle EXCEPT !.kind = kind, !.pc = "load", !.token = token,
                           !.raw = token, !.csrf = csrf, !.rotating = TRUE,
                           !.fresh = (token = s.current)])
  BY <1>t
<1>. DEFINE q == [Idle EXCEPT !.kind = kind, !.pc = "load", !.token = token,
                              !.raw = token, !.csrf = csrf, !.rotating = TRUE,
                              !.fresh = (token = s.current)]
<1>2. /\ token \in Nat /\ token # None /\ token <= tokens
      /\ csrf \in Nat /\ csrf <= tokens
  BY DEF Table, Known, Session, None
<1>3. /\ q.pc = "load" /\ q.kind = kind /\ q.token = token /\ q.raw = token
      /\ q.csrf = csrf /\ q.now = 0 /\ q.age = 0 /\ q.fresh = (token = s.current)
  BY DEF Idle
<1>4. q \in HandlerType
  <2>1. (token = s.current) \in BOOLEAN
    OBVIOUS
  <2>. QED BY <1>2, <2>1, RowTypes DEF Idle, HandlerType, Locations, Answers, None
<1>. HIDE DEF q
<1>5. RequestOK(q, tokens)
  BY <1>2, <1>3 DEF RequestOK, Validating, Decided, SigningIn, Kinds
<1>6. Holds(q, sessions, clock, lag)
  <2>1. \A u \in sessions : u.csrf = s.csrf => u = s
    BY DEF Table, Distinct, Same
  <2>. QED BY <2>1, <1>3 DEF Holds, Covered
<1>7. HandlerOK(q, sessions, clock, tokens, lag)
  BY <1>3, <1>5, <1>6 DEF HandlerOK, ReadOK, DecisionOK, StampOK, HoldsAtOnce,
     ForgetOK, RefusedOK, EndedOK, Validating, Decided
<1>8. proc' = [proc EXCEPT ![p] = q] /\ UNCHANGED <<clock, admin, sessions, tokens, steps, lag>>
  BY <1>c DEF Request, Go, q
<1>. QED BY <1>4, <1>7, <1>8, QuietStep

\* loadSession refuses only a request whose session is over, or that is late.
LEMMA LoadSessionOK ==
    ASSUME Inv, NEW p \in Procs, LoadSession(p)
    PROVE  Inv'
<1>. USE Context
<1>. DEFINE r == proc[p]
<1>1. UNCHANGED <<clock, admin, sessions, tokens, steps, lag>> /\ r.pc = "load"
  BY DEF LoadSession, At
<1>2. r.token # None /\ r.token \in Nat /\ r.kind # "signIn" /\ r.token <= tokens
  BY <1>1 DEF RequestOK, Validating, HandlerType
<1>3. ASSUME NEW s \in sessions, Names(s, r.token),
             Go(p, [r EXCEPT !.pc = "check", !.row = s])
      PROVE  Inv'
  <2>. DEFINE q == [r EXCEPT !.pc = "check", !.row = s]
  <2>1. q \in HandlerType
    BY RowTypes DEF HandlerType, Locations
  <2>2. /\ q.pc = "check" /\ q.row = s /\ q.token = r.token /\ q.kind = r.kind
        /\ q.csrf = r.csrf /\ q.raw = r.raw /\ q.fresh = r.fresh /\ q.age = r.age
        /\ q.now = r.now
    BY DEF HandlerType
  <2>. HIDE DEF q
  <2>3. RequestOK(q, tokens)
    BY <1>1, <2>2 DEF RequestOK, Validating, Decided, SigningIn
  <2>4. ReadOK(q, sessions)
    <3>1. \A u \in sessions : Names(u, r.token) => u = s
      BY <1>2, <1>3 DEF Table, Distinct, Same, Names
    <3>2. RowOK(s) /\ s \in Session
      BY DEF Table
    <3>3. s.previous = r.token \/ s.current = r.token
      BY <1>3 DEF Names
    <3>. QED BY <2>2, <3>1, <3>2, <3>3, <1>3 DEF ReadOK, Agrees, RowOK
  <2>5. StampOK(q, clock, lag)
    BY <2>2 DEF HandlerOK, StampOK, Table, Decided
  <2>6. Holds(q, sessions, clock, lag)
    BY <1>1, <2>2 DEF HandlerOK, Holds, Covered, Validating
  <2>7. HandlerOK(q, sessions, clock, tokens, lag)
    BY <2>2, <2>3, <2>4, <2>5, <2>6 DEF HandlerOK, DecisionOK, HoldsAtOnce, ForgetOK,
       RefusedOK, EndedOK, Decided
  <2>8. proc' = [proc EXCEPT ![p] = q]
    BY <1>3 DEF Go, q
  <2>. QED BY <1>1, <2>1, <2>7, <2>8, QuietStep
<1>4. ASSUME \A s \in sessions : ~(Names(s, r.token) /\ Live(s)), Answer(p, "invalid")
      PROVE  Inv'
  <2>1. \A s \in sessions : ~Names(s, r.token)
    BY <1>4 DEF Inv, SessionsAreCurrent
  <2>2. r.fresh /\ r.csrf # None /\ r.age + lag < PreviousGrace
          => \A s \in sessions : s.csrf # r.csrf
    BY <1>1, <2>1 DEF HandlerOK, Holds, Covered, Validating, Names
  <2>3. /\ AnswerRecord(r, "invalid") \in HandlerType
        /\ HandlerOK(AnswerRecord(r, "invalid"), sessions, clock, tokens, lag)
    <3>1. "invalid" \in Answers
      BY DEF Answers
    <3>. QED BY <3>1, <2>2, AnswerOK
  <2>4. proc' = [proc EXCEPT ![p] = AnswerRecord(r, "invalid")]
    BY <1>4 DEF Answer, Go, AnswerRecord
  <2>. QED BY <1>1, <2>3, <2>4, QuietStep
<1>. QED BY <1>3, <1>4 DEF LoadSession

\* The decision on the row that was read.
LEMMA CheckSessionOK ==
    ASSUME Inv, NEW p \in Procs, CheckSession(p)
    PROVE  Inv'
<1>. USE Context
<1>. DEFINE r == proc[p]
            row == r.row
            now == EffectiveNow(row)
            current == r.token = row.current
            next == IF now >= row.idle \/ now >= row.absolute THEN "expire"
                    ELSE IF ~current /\ now >= row.until THEN "drop"
                    ELSE IF r.rotating /\ current /\ now >= row.rotate THEN "rotate"
                    ELSE "touch"
            q == [r EXCEPT !.pc = next, !.now = now, !.row = Kept(row)]
<1>1. /\ r.pc = "check" /\ UNCHANGED <<clock, admin, sessions, tokens, steps, lag>>
      /\ proc' = [proc EXCEPT ![p] = q]
  BY DEF CheckSession, At, Go
<1>2. ReadOK(r, sessions) /\ StampOK(r, clock, lag) /\ Holds(r, sessions, clock, lag)
  BY DEF HandlerOK
<1>3. row \in Session
  BY <1>1, <1>2 DEF ReadOK
<1>4. now \in Nat /\ now >= clock /\ now >= row.seen /\ (row.seen <= clock => now = clock)
  BY <1>3 DEF EffectiveNow, Larger, Session
<1>5. Kept(row) \in KeptRow
  BY <1>3 DEF Kept, KeptRow, Session
<1>6. /\ next \in Decided
      /\ next = "drop" => r.token # row.current /\ now >= row.until
      /\ next \in {"rotate", "touch"} => ~(now >= row.absolute)
  BY DEF Decided
<1>. HIDE DEF next, now
<1>7. q \in HandlerType
  <2>1. next \in Locations /\ Kept(row) \in Rows
    BY <1>5, <1>6, RowTypes DEF Decided, Locations
  <2>. QED BY <2>1, <1>4 DEF HandlerType
<1>8. /\ q.pc = next /\ q.now = now /\ q.row = Kept(row) /\ q.token = r.token
      /\ q.kind = r.kind /\ q.csrf = r.csrf /\ q.raw = r.raw /\ q.fresh = r.fresh
      /\ q.age = r.age
  BY DEF HandlerType
<1>. HIDE DEF q
<1>9. RequestOK(q, tokens)
  BY <1>1, <1>6, <1>8 DEF RequestOK, Validating, Decided, SigningIn
<1>10. DecisionOK(q, sessions)
  <2>1. q.row.id = row.id /\ q.row.csrf = row.csrf /\ q.row.absolute = row.absolute
    BY <1>8 DEF Kept
  <2>2. q.pc \in {"rotate", "touch"} => q.now < q.row.absolute
    BY <2>1, <1>3, <1>4, <1>6, <1>8 DEF Session
  <2>3. ASSUME NEW s \in sessions, Names(s, q.token)
        PROVE  /\ Agrees(q, s) /\ s.created <= q.now
               /\ q.pc = "drop" => s.previous = q.token /\ s.until <= q.now
    <3>1. /\ Agrees(r, s) /\ s.created <= row.seen
          /\ r.token # row.current => s.previous = r.token /\ s.until = row.until
      BY <2>3, <1>1, <1>2, <1>8 DEF ReadOK
    <3>2. s.created \in Nat /\ row.seen \in Nat /\ s.until \in Nat
      BY <1>3 DEF Session
    <3>3. Agrees(q, s)
      BY <2>1, <3>1 DEF Agrees
    <3>4. s.created <= q.now
      BY <3>1, <3>2, <1>4, <1>8
    <3>5. q.pc = "drop" => s.previous = q.token /\ s.until <= q.now
      BY <3>1, <3>2, <1>4, <1>6, <1>8
    <3>. QED BY <3>3, <3>4, <3>5
  <2>. QED BY <2>2, <2>3, <1>5, <1>8 DEF DecisionOK
<1>11. StampOK(q, clock, lag)
  <2>1. r.age \in Nat
    BY DEF HandlerType
  <2>2. lag < PreviousGrace => now = clock
    BY <1>1, <1>2, <1>4 DEF StampOK
  <2>. QED BY <2>1, <2>2, <1>6, <1>8 DEF StampOK, Decided
<1>12. Holds(q, sessions, clock, lag)
  BY <1>1, <1>2, <1>8 DEF Holds, Covered, Validating
<1>13. HandlerOK(q, sessions, clock, tokens, lag)
  BY <1>6, <1>8, <1>9, <1>10, <1>11, <1>12
     DEF HandlerOK, ReadOK, HoldsAtOnce, ForgetOK, RefusedOK, EndedOK, Decided
<1>. QED BY <1>1, <1>7, <1>13, QuietStep

LEMMA ExpireSessionOK ==
    ASSUME Inv, NEW p \in Procs, ExpireSession(p)
    PROVE  Inv'
<1>. USE Context
<1>. DEFINE r == proc[p]
<1>1. /\ sessions' \in SUBSET sessions /\ UNCHANGED <<clock, admin, tokens, steps, lag>>
      /\ proc' = [proc EXCEPT ![p] = AnswerRecord(r, "expired")]
  BY DEF ExpireSession, Answer, Go, AnswerRecord
<1>2. /\ AnswerRecord(r, "expired") \in HandlerType
      /\ HandlerOK(AnswerRecord(r, "expired"), sessions', clock, tokens, lag)
  <2>1. "expired" \in Answers
    BY DEF Answers
  <2>. QED BY <2>1, AnswerOK
<1>. QED BY <1>1, <1>2, DeletingStep

\* The statement that forgets a previous token is not bound to its grace
\* period; the decision was.
LEMMA DropPreviousOK ==
    ASSUME Inv, NEW p \in Procs, DropPrevious(p)
    PROVE  Inv'
<1>. USE Context
<1>. DEFINE r == proc[p]
            due(s) == s.id = r.row.id /\ s.previous = r.token
            without(s) == [s EXCEPT !.previous = None, !.until = 0]
<1>1. /\ r.pc = "drop" /\ UNCHANGED <<clock, admin, tokens, steps, lag>>
      /\ sessions' = {IF due(s) THEN without(s) ELSE s : s \in sessions}
      /\ proc' = [proc EXCEPT ![p] = AnswerRecord(r, "invalid")]
  BY DEF DropPrevious, At, Answer, Go, AnswerRecord
<1>2. r.token # None /\ r.now \in Nat /\ r.age \in Nat
  BY <1>1 DEF RequestOK, Validating, Decided, HandlerType
<1>3. ASSUME NEW s \in sessions, Names(s, r.token)
      PROVE  s.previous = r.token /\ s.until <= r.now
  BY <1>1, <1>3 DEF HandlerOK, DecisionOK, Decided
<1>4. lag < PreviousGrace => r.now <= clock
  BY DEF HandlerOK, StampOK
<1>5. r.fresh /\ r.csrf # None /\ r.age + lag < PreviousGrace
        => \A s \in sessions : s.csrf # r.csrf
  <2>. SUFFICES ASSUME r.fresh, r.csrf # None, r.age + lag < PreviousGrace,
                       NEW s \in sessions, s.csrf = r.csrf
                PROVE  FALSE
    OBVIOUS
  <2>1. Covered(r, s, clock, lag)
    BY <1>1 DEF HandlerOK, Holds, Validating, Decided
  <2>2. Names(s, r.token)
    BY <2>1 DEF Covered, Names
  <2>3. s.previous = r.token /\ s.until <= r.now /\ s.current # s.previous /\ s.until \in Nat
    BY <2>2, <1>3 DEF Table, Known, Session
  <2>4. clock + PreviousGrace <= s.until + lag + r.age
    BY <2>1, <2>3 DEF Covered
  <2>5. lag < PreviousGrace
    BY <1>2, PolicyAssumption
  <2>. QED BY <2>3, <2>4, <2>5, <1>2, <1>4, PolicyAssumption
<1>6. CASE \A s \in sessions : ~due(s)
  <2>1. sessions' = sessions
    BY <1>1, <1>6
  <2>2. /\ AnswerRecord(r, "invalid") \in HandlerType
        /\ HandlerOK(AnswerRecord(r, "invalid"), sessions, clock, tokens, lag)
    <3>1. "invalid" \in Answers
      BY DEF Answers
    <3>. QED BY <3>1, <1>5, AnswerOK
  <2>. QED BY <1>1, <2>1, <2>2, QuietStep
<1>7. ASSUME NEW s \in sessions, due(s)
      PROVE  Inv'
  <2>. DEFINE t == without(s)
  <2>0. s \in Session /\ RowOK(s) /\ Known(s, tokens)
    BY DEF Table
  <2>1. t \in Session
    BY <2>0 DEF Session, None
  <2>2. /\ t.id = s.id /\ t.csrf = s.csrf /\ t.absolute = s.absolute /\ t.epoch = s.epoch
        /\ t.created = s.created /\ t.current = s.current /\ t.previous = None
        /\ t.until = 0 /\ t.seen = s.seen /\ t.idle = s.idle /\ t.rotate = s.rotate
        /\ t.verified = s.verified
    BY <2>0 DEF Session
  <2>3. \A u \in sessions : due(u) <=> u = s
    BY <1>7 DEF Table, Distinct, Same
  <2>4. sessions' = (sessions \ {s}) \cup {t}
    <3>. HIDE DEF due, without
    <3>1. sessions' = {IF u = s THEN without(u) ELSE u : u \in sessions}
      BY <1>1, <2>3
    <3>. QED BY <3>1
  <2>. HIDE DEF t
  <2>5. From(s, t, tokens)
    BY <2>2, <2>0 DEF From, Names, Known, None, Session
  <2>6. RowOK(t) /\ Known(t, tokens)
    BY <2>2, <2>0 DEF RowOK, Known, None, Session
  <2>7. lag < PreviousGrace =>
          /\ t.seen <= clock
          /\ s.previous # None /\ clock < s.until =>
               t.previous = s.previous /\ t.until = s.until
          /\ t.current # s.current => clock + PreviousGrace <= t.until + lag
    <3>1. lag < PreviousGrace => s.seen <= clock
      BY DEF Table
    <3>2. Names(s, r.token) /\ s.until \in Nat
      BY <1>7, <2>0 DEF Names, Session
    <3>3. s.until <= r.now
      BY <3>2, <1>3
    <3>. QED BY <3>1, <3>2, <3>3, <2>2, <1>2, <1>4
  <2>8. /\ sessions' \in SUBSET Session
        /\ Table(sessions', clock, tokens, lag) /\ Evolves(sessions, sessions', tokens)
        /\ TokensKept(sessions, sessions', clock, lag)
    <3>. DEFINE T == (sessions \ {s}) \cup {t}
    <3>1. tokens = tokens /\ t.current = s.current /\ t.previous \in {s.previous, None}
      BY <2>2
    <3>2. lag <= lag
      OBVIOUS
    <3>3. /\ T \in SUBSET Session /\ Table(T, clock, tokens, lag)
          /\ Evolves(sessions, T, tokens) /\ TokensKept(sessions, T, clock, lag)
      BY <3>1, <3>2, <2>1, <2>5, <2>6, <2>7, TableReplaces
    <3>. QED BY <3>3, <2>4
  <2>9. r.fresh /\ r.csrf # None /\ r.age + lag < PreviousGrace
          => \A u \in sessions' : u.csrf # r.csrf
    BY <1>5, <2>2, <2>4
  <2>10. /\ AnswerRecord(r, "invalid") \in HandlerType
         /\ HandlerOK(AnswerRecord(r, "invalid"), sessions', clock, tokens, lag)
    <3>1. "invalid" \in Answers
      BY DEF Answers
    <3>. QED BY <3>1, <2>9, AnswerOK
  <2>11. SessionsAreCurrent'
    BY <1>1, <2>2, <2>4 DEF Inv, SessionsAreCurrent, Live
  <2>12. /\ tokens' \in Nat /\ tokens <= tokens' /\ lag' \in 0..PreviousGrace /\ lag <= lag'
         /\ clock' = clock /\ steps' = steps /\ admin' \in Administrator
         /\ tokens' = tokens /\ lag' = lag
    <3>1. tokens' = tokens /\ lag' = lag /\ clock' = clock /\ steps' = steps /\ admin' = admin
      BY <1>1
    <3>. QED BY <3>1, PolicyAssumption
  <2>. QED BY <1>1, <2>8, <2>10, <2>11, <2>12, HandlerStep
<1>. QED BY <1>6, <1>7

-----------------------------------------------------------------------------
(* Rotation and touch.                                                     *)

ForgetRecord(r) == [r EXCEPT !.pc = "forget", !.row = NoRow, !.now = 0]
AgainRecord(r, token) ==
    [r EXCEPT !.pc = "load", !.token = token, !.rotating = TRUE, !.guard = TRUE,
              !.row = NoRow, !.now = 0]
LosesRecord(r) == [r EXCEPT !.pc = "load", !.rotating = FALSE, !.row = NoRow, !.now = 0]

\* Where a request goes from its validated session.
LEMMA ProceedCases ==
    ASSUME NEW p, NEW token, Proceed(p, token)
    PROVE  LET r == proc[p]
               valid == r.csrf = r.row.csrf
           IN \/ /\ proc' = [proc EXCEPT ![p] = ForgetRecord(r)]
                 /\ r.kind = "use" \/ valid
              \/ /\ proc' = [proc EXCEPT ![p] = AgainRecord(r, token)]
                 /\ r.kind = "use" /\ valid
              \/ /\ proc' = [proc EXCEPT ![p] = AnswerRecord(r, "ok")]
                 /\ r.kind = "use"
              \/ proc' = [proc EXCEPT ![p] = AnswerRecord(r, "forbidden")]
<1>. DEFINE r == proc[p]
            valid == r.csrf = r.row.csrf
<1>1. CASE r.kind = "signOut" /\ (IF valid THEN Go(p, ForgetRecord(r)) ELSE Answer(p, "forbidden"))
  BY <1>1 DEF Go, Answer, AnswerRecord
<1>2. CASE /\ r.kind = "use"
           /\ IF valid THEN Go(p, AgainRecord(r, token)) ELSE Go(p, ForgetRecord(r))
  BY <1>2 DEF Go
<1>3. CASE r.kind = "use" /\ Answer(p, IF valid THEN "ok" ELSE "forbidden")
  BY <1>3 DEF Go, Answer, AnswerRecord
<1>. QED BY <1>1, <1>2, <1>3 DEF Proceed, ForgetRecord, AgainRecord

\* The handler after its session became t.
LEMMA ProceedOK ==
    ASSUME NEW T \in SUBSET Session, NEW c \in Nat, NEW m \in Nat, NEW h \in Nat,
           Distinct(T), NEW r \in HandlerType, r.pc \in {"rotate", "touch"},
           HandlerOK(r, T, c, m, h),
           NEW token \in Nat, token # None, token <= m,
           NEW t \in T, t.csrf = r.row.csrf, token = r.token \/ t.current = token,
           (r.age = 0 /\ h < PreviousGrace) =>
              t.current = r.token \/ (t.previous = r.token /\ c < t.until)
    PROVE  /\ ForgetRecord(r) \in HandlerType
           /\ r.kind = "use" \/ r.csrf = r.row.csrf => HandlerOK(ForgetRecord(r), T, c, m, h)
           /\ AgainRecord(r, token) \in HandlerType
           /\ r.kind = "use" /\ r.csrf = r.row.csrf => HandlerOK(AgainRecord(r, token), T, c, m, h)
           /\ AnswerRecord(r, "ok") \in HandlerType
           /\ r.kind = "use" => HandlerOK(AnswerRecord(r, "ok"), T, c, m, h)
           /\ AnswerRecord(r, "forbidden") \in HandlerType
           /\ HandlerOK(AnswerRecord(r, "forbidden"), T, c, m, h)
<1>0. /\ RequestOK(r, m) /\ Holds(r, T, c, h) /\ DecisionOK(r, T) /\ r.pc \in Decided
      /\ r.token # None /\ r.kind # "signIn"
  BY DEF HandlerOK, RequestOK, Validating, Decided
<1>1. \A u \in T : u.csrf = r.row.csrf => u = t
  BY DEF Distinct, Same
<1>2. r.row.csrf # None
  BY <1>0 DEF DecisionOK, KeptRow, None
<1>3. ForgetRecord(r) \in HandlerType
  BY RowTypes DEF ForgetRecord, HandlerType, Locations
<1>4. ASSUME r.kind = "use" \/ r.csrf = r.row.csrf
      PROVE  HandlerOK(ForgetRecord(r), T, c, m, h)
  <2>. DEFINE q == ForgetRecord(r)
  <2>1. /\ q.pc = "forget" /\ q.now = 0 /\ q.token = r.token /\ q.kind = r.kind
        /\ q.csrf = r.csrf /\ q.raw = r.raw /\ q.fresh = r.fresh /\ q.age = r.age
    BY DEF ForgetRecord, HandlerType
  <2>. HIDE DEF q
  <2>2. RequestOK(q, m)
    BY <2>1, <1>0 DEF RequestOK, Validating, Decided, SigningIn
  <2>3. Holds(q, T, c, h)
    BY <2>1, <1>0 DEF Holds, Covered, Validating
  <2>4. HoldsAtOnce(q, T, c, h) /\ ForgetOK(q)
    <3>. SUFFICES ASSUME r.kind = "signOut" PROVE HoldsAtOnce(q, T, c, h) /\ ForgetOK(q)
      BY <2>1 DEF HoldsAtOnce, ForgetOK
    <3>1. r.raw = r.token /\ r.csrf = r.row.csrf
      BY <1>0, <1>4 DEF RequestOK, Validating
    <3>2. HoldsAtOnce(q, T, c, h)
      BY <3>1, <2>1, <1>1 DEF HoldsAtOnce
    <3>3. ForgetOK(q)
      BY <3>1, <2>1, <1>2 DEF ForgetOK
    <3>. QED BY <3>2, <3>3
  <2>5. ReadOK(q, T) /\ DecisionOK(q, T) /\ RefusedOK(q, T, h) /\ EndedOK(q, T, h)
    BY <2>1 DEF ReadOK, DecisionOK, RefusedOK, EndedOK, Decided
  <2>6. StampOK(q, c, h)
    BY <2>1 DEF StampOK, Decided
  <2>7. HandlerOK(q, T, c, m, h)
    BY <2>2, <2>3, <2>4, <2>5, <2>6 DEF HandlerOK
  <2>. QED BY <2>7 DEF q
<1>5. AgainRecord(r, token) \in HandlerType
  BY RowTypes DEF AgainRecord, HandlerType, Locations
<1>6. ASSUME r.kind = "use", r.csrf = r.row.csrf
      PROVE  HandlerOK(AgainRecord(r, token), T, c, m, h)
  <2>. DEFINE q == AgainRecord(r, token)
  <2>1. /\ q.pc = "load" /\ q.now = 0 /\ q.token = token /\ q.kind = r.kind
        /\ q.csrf = r.csrf /\ q.raw = r.raw /\ q.fresh = r.fresh /\ q.age = r.age
    BY DEF AgainRecord, HandlerType
  <2>. HIDE DEF q
  <2>2. RequestOK(q, m)
    BY <2>1, <1>0, <1>6 DEF RequestOK, Validating, Decided, SigningIn
  <2>3. Holds(q, T, c, h)
    BY <2>1, <1>0, <1>1, <1>6 DEF Holds, Covered, Validating
  <2>4. /\ ReadOK(q, T) /\ DecisionOK(q, T) /\ RefusedOK(q, T, h) /\ EndedOK(q, T, h)
        /\ HoldsAtOnce(q, T, c, h) /\ ForgetOK(q)
    BY <2>1 DEF ReadOK, DecisionOK, RefusedOK, EndedOK, HoldsAtOnce, ForgetOK, Decided
  <2>5. StampOK(q, c, h)
    BY <2>1 DEF StampOK, Decided
  <2>6. HandlerOK(q, T, c, m, h)
    BY <2>2, <2>3, <2>4, <2>5 DEF HandlerOK
  <2>. QED BY <2>6 DEF q
<1>7. AnswerRecord(r, "ok") \in HandlerType /\ AnswerRecord(r, "forbidden") \in HandlerType
  BY RowTypes DEF AnswerRecord, Idle, HandlerType, Locations, Answers, None
<1>8. ASSUME r.kind = "use"
      PROVE  HandlerOK(AnswerRecord(r, "ok"), T, c, m, h)
  <2>1. "ok" \in Answers
    BY DEF Answers
  <2>. QED BY <2>1, <1>0, <1>8, AnswerOK
<1>9. HandlerOK(AnswerRecord(r, "forbidden"), T, c, m, h)
  <2>1. "forbidden" \in Answers
    BY DEF Answers
  <2>. QED BY <2>1, <1>0, AnswerOK
<1>. QED BY <1>3, <1>4, <1>5, <1>6, <1>7, <1>8, <1>9

\* The end of a validation that stored t for s.
LEMMA StoringStep ==
    ASSUME Inv, NEW p \in Procs, proc[p].pc \in {"rotate", "touch"},
           NEW s \in sessions, NEW t \in Session, From(s, t, tokens), RowOK(t),
           t.epoch = s.epoch, t.verified = s.verified, Names(s, proc[p].token),
           sessions' = (sessions \ {s}) \cup {t},
           UNCHANGED <<clock, admin, steps>>,
           tokens' \in Nat, lag' \in 0..PreviousGrace, lag <= lag',
           Known(t, tokens'),
           \/ tokens' = tokens /\ t.current = s.current /\ t.previous \in {s.previous, None}
           \/ tokens' = tokens + 1 /\ t.current = tokens + 1 /\ t.previous = s.current,
           lag' < PreviousGrace =>
             /\ t.seen <= clock
             /\ s.previous # None /\ clock < s.until =>
                  t.previous = s.previous /\ t.until = s.until
             /\ t.current # s.current => clock + PreviousGrace <= t.until + lag',
           NEW token \in Nat, token # None, token <= tokens',
           token = proc[p].token \/ t.current = token,
           (proc[p].age = 0 /\ lag' < PreviousGrace) =>
             t.current = proc[p].token \/ (t.previous = proc[p].token /\ clock < t.until),
           Proceed(p, token)
    PROVE  Inv'
<1>. USE Context
<1>. DEFINE r == proc[p]
            T == (sessions \ {s}) \cup {t}
<1>1. lag' \in Nat /\ tokens <= tokens'
  OBVIOUS
<1>2. /\ T \in SUBSET Session /\ Table(T, clock, tokens', lag')
      /\ Evolves(sessions, T, tokens) /\ TokensKept(sessions, T, clock, lag')
  BY <1>1, TableReplaces
<1>3. HandlerOK(r, T, clock, tokens', lag')
  <2>. HIDE DEF T
  <2>. QED BY <1>1, <1>2, OthersKept
<1>4. t.csrf = r.row.csrf
  <2>1. s.csrf = r.row.csrf
    BY DEF HandlerOK, DecisionOK, Decided, Agrees
  <2>. QED BY <2>1 DEF From
<1>5. Distinct(T) /\ t \in T
  BY <1>2 DEF Table
<1>6. SessionsAreCurrent'
  BY DEF Inv, SessionsAreCurrent, Live
<1>7. sessions' = T
  OBVIOUS
<1>. HIDE DEF T
<1>8. /\ ForgetRecord(r) \in HandlerType
      /\ r.kind = "use" \/ r.csrf = r.row.csrf =>
            HandlerOK(ForgetRecord(r), T, clock, tokens', lag')
      /\ AgainRecord(r, token) \in HandlerType
      /\ r.kind = "use" /\ r.csrf = r.row.csrf =>
            HandlerOK(AgainRecord(r, token), T, clock, tokens', lag')
      /\ AnswerRecord(r, "ok") \in HandlerType
      /\ r.kind = "use" => HandlerOK(AnswerRecord(r, "ok"), T, clock, tokens', lag')
      /\ AnswerRecord(r, "forbidden") \in HandlerType
      /\ HandlerOK(AnswerRecord(r, "forbidden"), T, clock, tokens', lag')
  BY <1>1, <1>2, <1>3, <1>4, <1>5, ProceedOK
<1>9. \E q \in HandlerType : /\ proc' = [proc EXCEPT ![p] = q]
                             /\ HandlerOK(q, T, clock, tokens', lag')
  BY <1>8, ProceedCases
<1>10. PICK q \in HandlerType : /\ proc' = [proc EXCEPT ![p] = q]
                                /\ HandlerOK(q, T, clock, tokens', lag')
  BY <1>9
<1>11. clock' = clock /\ steps' = steps /\ admin' \in Administrator
  OBVIOUS
<1>. QED BY <1>1, <1>2, <1>6, <1>7, <1>10, <1>11, HandlerStep

\* Rotation: at most one request stores it, and the token it takes over from
\* stays valid for a grace period.
LEMMA RotateSessionOK ==
    ASSUME Inv, NEW p \in Procs, RotateSession(p)
    PROVE  Inv'
<1>. USE Context, PolicyAssumption
<1>. DEFINE r == proc[p]
            due == {s \in sessions : /\ s.id = r.row.id /\ s.current = r.token
                                     /\ s.rotate <= r.now /\ Live(s)}
            after(s) == [s EXCEPT !.previous = s.current, !.current = tokens + 1,
                                  !.until = r.now + PreviousGrace, !.seen = r.now,
                                  !.idle = Expires(r.now, r.row.absolute),
                                  !.rotate = r.now + RotationAfter]
<1>1. r.pc = "rotate" /\ UNCHANGED <<clock, admin, steps>>
  BY DEF RotateSession, At
<1>2. /\ r.now \in Nat /\ r.age \in Nat /\ r.token \in Nat /\ r.token # None
      /\ r.token <= tokens
  BY <1>1 DEF HandlerType, RequestOK, Validating, Decided
<1>3. r.row \in KeptRow /\ r.now < r.row.absolute
  BY <1>1 DEF HandlerOK, DecisionOK, Decided
<1>4. ASSUME NEW s \in due,
             /\ sessions' = (sessions \ {s}) \cup {after(s)} /\ tokens' = tokens + 1
             /\ lag' = Larger(lag, Smaller(clock - r.now, PreviousGrace))
             /\ Proceed(p, tokens + 1)
      PROVE  Inv'
  <2>. DEFINE t == after(s)
  <2>1. /\ s \in sessions /\ s \in Session /\ RowOK(s) /\ Known(s, tokens)
        /\ s.current = r.token /\ s.rotate <= r.now
    BY DEF Table
  <2>2. Expires(r.now, r.row.absolute) \in Nat
    BY <1>2, <1>3 DEF Expires, Smaller, KeptRow
  <2>3. t \in Session
    <3>1. /\ tokens + 1 \in Nat \ {0} /\ r.now + PreviousGrace \in Nat
          /\ r.now + RotationAfter \in Nat /\ s.current \in Nat
      BY <2>1, <1>2 DEF Session
    <3>. QED BY <2>1, <2>2, <3>1, <1>2 DEF Session
  <2>4. /\ t.id = s.id /\ t.csrf = s.csrf /\ t.absolute = s.absolute /\ t.epoch = s.epoch
        /\ t.created = s.created /\ t.current = tokens + 1 /\ t.previous = s.current
        /\ t.until = r.now + PreviousGrace /\ t.seen = r.now
        /\ t.idle = Expires(r.now, r.row.absolute) /\ t.rotate = r.now + RotationAfter
        /\ t.verified = s.verified
    BY <2>1 DEF Session
  <2>. HIDE DEF t, due
  <2>5. Names(s, r.token)
    BY <2>1 DEF Names
  <2>6. s.absolute = r.row.absolute /\ s.created <= r.now
    BY <1>1, <2>1, <2>5 DEF HandlerOK, DecisionOK, Decided, Agrees
  <2>7. From(s, t, tokens)
    BY <2>1, <2>4 DEF From, Names, Known, Session
  <2>8. RowOK(t)
    <3>1. t.previous # None /\ t.until # 0
      BY <2>1, <2>4, <1>2 DEF None
    <3>2. t.created <= t.seen /\ t.seen <= t.idle /\ t.idle <= t.absolute
      BY <2>4, <2>6, <1>2, <1>3 DEF Expires, Smaller, KeptRow
    <3>3. t.until <= t.rotate
      BY <2>4, <1>2
    <3>4. t.epoch # 0
      BY <2>1, <2>4 DEF RowOK
    <3>. QED BY <3>1, <3>2, <3>3, <3>4 DEF RowOK
  <2>9. Known(t, tokens')
    BY <2>1, <2>4, <1>4 DEF Known, Session
  <2>10. /\ lag' \in 0..PreviousGrace /\ lag <= lag'
         /\ lag' < PreviousGrace => clock - r.now <= lag'
    BY <1>2, <1>4 DEF Larger, Smaller
  <2>11. lag' < PreviousGrace => r.now <= clock
    BY <2>10 DEF HandlerOK, StampOK
  <2>12. lag' < PreviousGrace =>
           /\ t.seen <= clock
           /\ s.previous # None /\ clock < s.until =>
                t.previous = s.previous /\ t.until = s.until
           /\ t.current # s.current => clock + PreviousGrace <= t.until + lag'
    <3>1. s.until \in Nat /\ s.rotate \in Nat /\ s.until <= s.rotate
      BY <2>1 DEF Session, RowOK
    <3>. QED BY <3>1, <2>1, <2>4, <2>10, <2>11, <1>2
  <2>13. (r.age = 0 /\ lag' < PreviousGrace) =>
           t.current = r.token \/ (t.previous = r.token /\ clock < t.until)
    BY <2>1, <2>4, <2>10, <1>2
  <2>14. tokens + 1 \in Nat /\ tokens + 1 # None /\ tokens + 1 <= tokens' /\ tokens' \in Nat
    BY <1>4 DEF None
  <2>15. sessions' = (sessions \ {s}) \cup {t} /\ Proceed(p, tokens + 1)
    BY <1>4 DEF t
  <2>. QED BY <1>1, <1>4, <2>1, <2>3, <2>4, <2>5, <2>7, <2>8, <2>9, <2>10, <2>12,
              <2>13, <2>14, <2>15, StoringStep
<1>5. ASSUME ValidateAgain(p), UNCHANGED <<sessions, tokens, lag>>
      PROVE  Inv'
  <2>. DEFINE q == LosesRecord(r)
  <2>1. q \in HandlerType
    BY RowTypes DEF LosesRecord, HandlerType, Locations
  <2>2. /\ q.pc = "load" /\ q.now = 0 /\ q.token = r.token /\ q.kind = r.kind
        /\ q.csrf = r.csrf /\ q.raw = r.raw /\ q.fresh = r.fresh /\ q.age = r.age
    BY DEF LosesRecord, HandlerType
  <2>3. proc' = [proc EXCEPT ![p] = q]
    BY <1>5 DEF ValidateAgain, Go, LosesRecord
  <2>. HIDE DEF q
  <2>4. RequestOK(q, tokens)
    BY <2>2, <1>1 DEF RequestOK, Validating, Decided, SigningIn
  <2>5. Holds(q, sessions, clock, lag)
    <3>1. Holds(r, sessions, clock, lag)
      BY DEF HandlerOK
    <3>. QED BY <3>1, <2>2, <1>1 DEF Holds, Covered, Validating, Decided
  <2>6. /\ ReadOK(q, sessions) /\ DecisionOK(q, sessions) /\ RefusedOK(q, sessions, lag)
        /\ EndedOK(q, sessions, lag) /\ HoldsAtOnce(q, sessions, clock, lag) /\ ForgetOK(q)
        /\ StampOK(q, clock, lag)
    BY <2>2 DEF ReadOK, DecisionOK, RefusedOK, EndedOK, HoldsAtOnce, ForgetOK, StampOK, Decided
  <2>7. HandlerOK(q, sessions, clock, tokens, lag)
    BY <2>4, <2>5, <2>6 DEF HandlerOK
  <2>. QED BY <1>1, <1>5, <2>1, <2>3, <2>7, QuietStep
<1>. QED BY <1>4, <1>5 DEF RotateSession, Replace

\* Touch: refused only if the session is over or the request is late.
LEMMA TouchSessionOK ==
    ASSUME Inv, NEW p \in Procs, TouchSession(p)
    PROVE  Inv'
<1>. USE Context, PolicyAssumption
<1>. DEFINE r == proc[p]
            valid == {s \in sessions : /\ s.id = r.row.id /\ Live(s)
                                       /\ \/ s.current = r.token
                                          \/ s.previous = r.token /\ s.until > r.now}
            after(s) == [s EXCEPT !.seen = r.now, !.idle = Expires(r.now, r.row.absolute)]
<1>1. r.pc = "touch" /\ UNCHANGED <<clock, admin, tokens, steps, lag>>
  BY DEF TouchSession, At
<1>2. /\ r.now \in Nat /\ r.age \in Nat /\ r.token \in Nat /\ r.token # None
      /\ r.token <= tokens
  BY <1>1 DEF HandlerType, RequestOK, Validating, Decided
<1>3. r.row \in KeptRow /\ r.now < r.row.absolute
  BY <1>1 DEF HandlerOK, DecisionOK, Decided
<1>4. /\ lag < PreviousGrace => r.now <= clock
      /\ lag < PreviousGrace /\ r.age < PreviousGrace => clock <= r.now + r.age
  BY <1>1 DEF HandlerOK, StampOK, Decided
<1>5. ASSUME NEW s \in valid,
             sessions' = (sessions \ {s}) \cup {after(s)} /\ Proceed(p, r.token)
      PROVE  Inv'
  <2>. DEFINE t == after(s)
  <2>1. /\ s \in sessions /\ s \in Session /\ RowOK(s) /\ Known(s, tokens)
        /\ s.current = r.token \/ (s.previous = r.token /\ s.until > r.now)
    BY DEF Table
  <2>2. Expires(r.now, r.row.absolute) \in Nat
    BY <1>2, <1>3 DEF Expires, Smaller, KeptRow
  <2>3. t \in Session
    BY <2>1, <2>2, <1>2 DEF Session
  <2>4. /\ t.id = s.id /\ t.csrf = s.csrf /\ t.absolute = s.absolute /\ t.epoch = s.epoch
        /\ t.created = s.created /\ t.current = s.current /\ t.previous = s.previous
        /\ t.until = s.until /\ t.seen = r.now /\ t.rotate = s.rotate
        /\ t.idle = Expires(r.now, r.row.absolute) /\ t.verified = s.verified
    BY <2>1 DEF Session
  <2>. HIDE DEF t, valid
  <2>5. Names(s, r.token)
    BY <2>1 DEF Names
  <2>6. s.absolute = r.row.absolute /\ s.created <= r.now
    BY <1>1, <2>1, <2>5 DEF HandlerOK, DecisionOK, Decided, Agrees
  <2>7. From(s, t, tokens)
    BY <2>1, <2>4 DEF From, Names
  <2>8. RowOK(t)
    <3>1. (t.previous = None <=> t.until = 0) /\ t.until <= t.rotate
      BY <2>1, <2>4 DEF RowOK
    <3>2. t.created <= t.seen /\ t.seen <= t.idle /\ t.idle <= t.absolute
      BY <2>4, <2>6, <1>2, <1>3 DEF Expires, Smaller, KeptRow
    <3>3. t.epoch # 0
      BY <2>1, <2>4 DEF RowOK
    <3>. QED BY <3>1, <3>2, <3>3 DEF RowOK
  <2>9. Known(t, tokens')
    BY <2>1, <2>4, <1>1 DEF Known
  <2>10. lag' \in 0..PreviousGrace /\ lag <= lag' /\ tokens' = tokens /\ tokens' \in Nat
    BY <1>1
  <2>11. lag' < PreviousGrace =>
           /\ t.seen <= clock
           /\ s.previous # None /\ clock < s.until =>
                t.previous = s.previous /\ t.until = s.until
           /\ t.current # s.current => clock + PreviousGrace <= t.until + lag'
    BY <2>4, <1>1, <1>4
  <2>12. (r.age = 0 /\ lag' < PreviousGrace) =>
           t.current = r.token \/ (t.previous = r.token /\ clock < t.until)
    <3>1. s.until \in Nat
      BY <2>1 DEF Session
    <3>2. r.age = 0 /\ lag < PreviousGrace => clock <= r.now
      BY <1>2, <1>4
    <3>. QED BY <3>1, <3>2, <2>1, <2>4, <1>1, <1>2
  <2>13. sessions' = (sessions \ {s}) \cup {t} /\ Proceed(p, r.token)
    BY <1>5 DEF t
  <2>14. /\ tokens' = tokens /\ t.current = s.current /\ t.previous \in {s.previous, None}
         /\ r.token <= tokens' /\ UNCHANGED <<clock, admin, steps>>
    BY <2>4, <1>1, <1>2
  <2>. QED BY <1>1, <1>2, <2>1, <2>3, <2>4, <2>5, <2>7, <2>8, <2>9, <2>10, <2>11,
              <2>12, <2>13, <2>14, StoringStep
<1>6. ASSUME valid = {}, Answer(p, "invalid"), UNCHANGED sessions
      PROVE  Inv'
  <2>1. r.fresh /\ r.csrf # None /\ r.age + lag < PreviousGrace
          => \A s \in sessions : s.csrf # r.csrf
    <3>. SUFFICES ASSUME r.fresh, r.csrf # None, r.age + lag < PreviousGrace,
                         NEW s \in sessions, s.csrf = r.csrf
                  PROVE  s \in valid
      BY <1>6
    <3>1. Covered(r, s, clock, lag)
      BY <1>1 DEF HandlerOK, Holds, Validating, Decided
    <3>2. Names(s, r.token)
      BY <3>1 DEF Covered, Names
    <3>3. s.id = r.row.id
      BY <3>2, <1>1 DEF HandlerOK, DecisionOK, Decided, Agrees
    <3>4. Live(s)
      BY DEF Inv, SessionsAreCurrent
    <3>5. s.current = r.token \/ (s.previous = r.token /\ s.until > r.now)
      <4>1. s.until \in Nat
        BY DEF Session
      <4>2. r.now <= clock
        BY <1>2, <1>4
      <4>. QED BY <3>1, <4>1, <4>2, <1>2 DEF Covered
    <3>. QED BY <3>3, <3>4, <3>5
  <2>. HIDE DEF valid
  <2>2. /\ AnswerRecord(r, "invalid") \in HandlerType
        /\ HandlerOK(AnswerRecord(r, "invalid"), sessions, clock, tokens, lag)
    <3>1. "invalid" \in Answers
      BY DEF Answers
    <3>. QED BY <3>1, <2>1, AnswerOK
  <2>3. proc' = [proc EXCEPT ![p] = AnswerRecord(r, "invalid")]
    BY <1>6 DEF Answer, Go, AnswerRecord
  <2>. QED BY <1>1, <1>6, <2>2, <2>3, QuietStep
<1>. QED BY <1>5, <1>6 DEF TouchSession, Replace

-----------------------------------------------------------------------------
(* The other steps.                                                        *)

\* Logout by the token the request came with: the session still goes by it.
LEMMA ForgetKept ==
    ASSUME Inv, NEW p \in Procs, Forget(p)
    PROVE  Inv'
<1>. USE Context
<1>. DEFINE r == proc[p]
            a == IF r.csrf = None THEN "invalid" ELSE "ok"
<1>1. /\ r.pc = "forget" /\ sessions' = {s \in sessions : ~Names(s, r.raw)}
      /\ UNCHANGED <<clock, admin, tokens, steps, lag>>
      /\ proc' = [proc EXCEPT ![p] = AnswerRecord(r, a)]
  BY DEF Forget, At, Without, Answer, Go, AnswerRecord
<1>2. (a = "ok" /\ r.kind = "signOut" /\ r.age + lag < PreviousGrace
       /\ (r.fresh \/ r.age = 0))
         => \A s \in sessions' : s.csrf # r.csrf
  <2>. SUFFICES ASSUME r.kind = "signOut", r.age + lag < PreviousGrace,
                       r.fresh \/ r.age = 0, NEW s \in sessions, s.csrf = r.csrf
                PROVE  Names(s, r.raw)
    BY <1>1
  <2>1. r.csrf # None /\ r.token = r.raw /\ r.age \in Nat
    BY <1>1 DEF HandlerOK, ForgetOK, RequestOK, HandlerType
  <2>2. CASE r.fresh
    BY <2>1, <2>2, <1>1 DEF HandlerOK, Holds, Covered, Names
  <2>3. CASE r.age = 0
    <3>1. lag < PreviousGrace
      BY <2>3
    <3>. QED BY <2>3, <3>1, <1>1 DEF HandlerOK, HoldsAtOnce, Names
  <2>. QED BY <2>2, <2>3
<1>3. a \in Answers /\ (a = "invalid" => r.csrf = None)
  BY DEF Answers
<1>. HIDE DEF a
<1>4. /\ AnswerRecord(r, a) \in HandlerType
      /\ HandlerOK(AnswerRecord(r, a), sessions', clock, tokens, lag)
  BY <1>2, <1>3, AnswerOK
<1>5. sessions' \in SUBSET sessions
  BY <1>1
<1>. QED BY <1>1, <1>4, <1>5, DeletingStep

LEMMA FinishOK ==
    ASSUME Inv, NEW p \in Procs, Finish(p)
    PROVE  Inv'
<1>1. /\ proc' = [proc EXCEPT ![p] = Idle]
      /\ UNCHANGED <<clock, admin, sessions, tokens, steps, lag>>
  BY DEF Finish, Go
<1>2. Idle \in HandlerType /\ HandlerOK(Idle, sessions, clock, tokens, lag)
  BY Context, IdleOK
<1>. QED BY <1>1, <1>2, QuietStep

\* The age of a request grows with the clock, up to the grace period.
LEMMA OlderOK ==
    ASSUME NEW S \in SUBSET Session, NEW c \in Nat, NEW n \in Nat,
           NEW g \in 0..PreviousGrace, NEW r \in HandlerType,
           HandlerOK(r, S, c, n, g), NEW age \in Nat,
           age = 0 => r.pc = "idle",
           r.pc # "idle" => age = Smaller(r.age + 1, PreviousGrace)
    PROVE  LET q == [r EXCEPT !.age = age]
           IN q \in HandlerType /\ HandlerOK(q, S, c + 1, n, g)
<1>. USE PolicyAssumption
<1>. DEFINE q == [r EXCEPT !.age = age]
<1>1. q \in HandlerType
  BY DEF HandlerType
<1>2. /\ q.pc = r.pc /\ q.now = r.now /\ q.token = r.token /\ q.kind = r.kind
      /\ q.csrf = r.csrf /\ q.raw = r.raw /\ q.fresh = r.fresh /\ q.age = age
      /\ q.row = r.row /\ q.answer = r.answer
      /\ r.now \in Nat /\ r.age \in Nat
  BY DEF HandlerType
<1>. HIDE DEF q
<1>3. r.pc # "idle" /\ age < PreviousGrace => age = r.age + 1
  BY <1>2 DEF Smaller
<1>4. RequestOK(q, n)
  BY <1>2 DEF HandlerOK, RequestOK
<1>5. ReadOK(q, S) /\ DecisionOK(q, S)
  BY <1>2 DEF HandlerOK, ReadOK, DecisionOK, Agrees
<1>6. StampOK(q, c + 1, g)
  <2>1. StampOK(r, c, g)
    BY DEF HandlerOK
  <2>2. r.pc = "check" => r.row.seen \in Nat
    BY DEF HandlerOK, ReadOK, Session
  <2>3. r.pc \in Decided => r.pc # "idle"
    BY DEF Decided
  <2>. QED BY <2>1, <2>2, <2>3, <1>2, <1>3 DEF StampOK
<1>7. Holds(q, S, c + 1, g)
  <2>. SUFFICES ASSUME q.pc \in Validating \/ (q.pc = "forget" /\ q.kind = "signOut"),
                       q.fresh, q.csrf # None, q.age + g < PreviousGrace,
                       NEW s \in S, s.csrf = q.csrf
                PROVE  Covered(q, s, c + 1, g)
    BY DEF Holds
  <2>1. r.pc # "idle"
    BY <1>2 DEF Validating, Decided
  <2>2. age = r.age + 1 /\ r.age + g < PreviousGrace
    BY <1>2, <1>3, <2>1
  <2>3. Covered(r, s, c, g) /\ s.until \in Nat
    BY <1>2, <2>2 DEF HandlerOK, Holds, Session
  <2>. QED BY <1>2, <2>2, <2>3 DEF Covered
<1>8. HoldsAtOnce(q, S, c + 1, g) /\ ForgetOK(q)
  BY <1>2 DEF HandlerOK, HoldsAtOnce, ForgetOK
<1>9. RefusedOK(q, S, g) /\ EndedOK(q, S, g)
  <2>. SUFFICES ASSUME r.pc = "answered", age + g < PreviousGrace
                PROVE  RefusedOK(q, S, g) /\ EndedOK(q, S, g)
    BY <1>2 DEF RefusedOK, EndedOK
  <2>1. age = r.age + 1 /\ r.age + g < PreviousGrace
    BY <1>2, <1>3
  <2>2. RefusedOK(r, S, g) /\ EndedOK(r, S, g)
    BY DEF HandlerOK
  <2>3. RefusedOK(q, S, g)
    BY <2>1, <2>2, <1>2 DEF RefusedOK
  <2>4. EndedOK(q, S, g)
    BY <2>1, <2>2, <1>2 DEF EndedOK
  <2>. QED BY <2>3, <2>4
<1>10. HandlerOK(q, S, c + 1, n, g)
  BY <1>4, <1>5, <1>6, <1>7, <1>8, <1>9 DEF HandlerOK
<1>. QED BY <1>1, <1>10 DEF q

LEMMA TickOK ==
    ASSUME Inv, Tick
    PROVE  Inv'
<1>. USE PolicyAssumption
<1>. DEFINE older(p) == IF At(p, "idle") THEN 0 ELSE Smaller(proc[p].age + 1, PreviousGrace)
<1>1. /\ clock' = clock + 1 /\ UNCHANGED <<admin, sessions, tokens, steps, lag>>
      /\ proc' = [p \in Procs |-> [proc[p] EXCEPT !.age = older(p)]]
  BY DEF Tick
<1>2. /\ clock \in Nat /\ tokens \in Nat /\ lag \in 0..PreviousGrace
      /\ sessions \in SUBSET Session /\ Table(sessions, clock, tokens, lag)
  BY DEF Inv, Types
<1>3. ASSUME NEW p \in Procs
      PROVE  /\ proc'[p] \in HandlerType
             /\ HandlerOK(proc'[p], sessions, clock + 1, tokens, lag)
  <2>1. proc[p] \in HandlerType /\ HandlerOK(proc[p], sessions, clock, tokens, lag)
    BY DEF Inv, Types
  <2>2. proc[p].age \in Nat
    BY <2>1 DEF HandlerType
  <2>3. /\ older(p) \in Nat
        /\ older(p) = 0 => proc[p].pc = "idle"
        /\ proc[p].pc # "idle" => older(p) = Smaller(proc[p].age + 1, PreviousGrace)
    BY <2>2 DEF At, Smaller
  <2>4. proc'[p] = [proc[p] EXCEPT !.age = older(p)]
    BY <1>1
  <2>. HIDE DEF older
  <2>. QED BY <1>2, <2>1, <2>3, <2>4, OlderOK
<1>4. proc' \in [Procs -> HandlerType]
  BY <1>1, <1>3
<1>5. Types'
  BY <1>1, <1>2, <1>4 DEF Inv, Types
<1>6. Table(sessions', clock', tokens', lag')
  <2>1. lag < PreviousGrace => \A s \in sessions : s.seen <= clock + 1
    BY <1>2 DEF Table, Session
  <2>. QED BY <2>1, <1>1, <1>2 DEF Table
<1>7. SessionsAreCurrent'
  BY <1>1 DEF Inv, SessionsAreCurrent, Live
<1>8. \A p \in Procs : HandlerOK(proc'[p], sessions', clock', tokens', lag')
  BY <1>1, <1>3
<1>. QED BY <1>5, <1>6, <1>7, <1>8 DEF Inv

LEMMA ClockBackOK ==
    ASSUME Inv, ClockBack
    PROVE  Inv'
<1>. USE PolicyAssumption
<1>1. /\ clock' \in 0..(clock - 1) /\ lag' = PreviousGrace /\ steps' = steps + 1
      /\ UNCHANGED <<admin, sessions, tokens, proc>>
  BY DEF ClockBack
<1>2. Types'
  BY <1>1 DEF Inv, Types
<1>3. Table(sessions', clock', tokens', lag')
  BY <1>1 DEF Inv, Table
<1>4. SessionsAreCurrent'
  BY <1>1 DEF Inv, SessionsAreCurrent, Live
<1>5. ASSUME NEW p \in Procs
      PROVE  HandlerOK(proc[p], sessions, clock', tokens, PreviousGrace)
  <2>1. proc[p].age \in Nat
    BY DEF Inv, Types, HandlerType
  <2>2. ~(proc[p].age + PreviousGrace < PreviousGrace) /\ ~(PreviousGrace < PreviousGrace)
    BY <2>1
  <2>3. HandlerOK(proc[p], sessions, clock, tokens, lag)
    BY DEF Inv
  <2>4. StampOK(proc[p], clock', PreviousGrace) /\ Holds(proc[p], sessions, clock', PreviousGrace)
    BY <2>2 DEF StampOK, Holds
  <2>5. /\ HoldsAtOnce(proc[p], sessions, clock', PreviousGrace)
        /\ RefusedOK(proc[p], sessions, PreviousGrace)
        /\ EndedOK(proc[p], sessions, PreviousGrace)
    BY <2>2 DEF HoldsAtOnce, RefusedOK, EndedOK
  <2>. QED BY <2>3, <2>4, <2>5 DEF HandlerOK
<1>. QED BY <1>1, <1>2, <1>3, <1>4, <1>5 DEF Inv

\* Bootstrap finds no session to speak of; a reset and a revocation delete all.
LEMMA CommandOK ==
    ASSUME Inv, Command
    PROVE  Inv'
<1>1. CASE Bootstrap
  <2>1. /\ admin' = [epoch |-> 1, weak |-> FALSE]
        /\ UNCHANGED <<clock, sessions, tokens, proc, steps, lag>>
    BY <1>1 DEF Bootstrap
  <2>2. Types'
    BY <2>1 DEF Inv, Types, Administrator
  <2>3. SessionsAreCurrent'
    <3>1. \A s \in sessions : s.epoch # 0 /\ s.epoch = 0
      BY <1>1 DEF Inv, SessionsAreCurrent, Live, Bootstrap, Table, RowOK
    <3>. QED BY <2>1, <3>1 DEF SessionsAreCurrent
  <2>. QED BY <2>1, <2>2, <2>3 DEF Inv
<1>2. ASSUME NEW w \in BOOLEAN, AdvanceEpoch(w) PROVE Inv'
  <2>1. /\ admin' = [epoch |-> admin.epoch + 1, weak |-> w] /\ sessions' = {}
        /\ UNCHANGED <<clock, tokens, proc, steps, lag>>
    BY <1>2 DEF AdvanceEpoch
  <2>2. Types'
    BY <2>1 DEF Inv, Types, Administrator
  <2>3. SessionsAreCurrent'
    BY <2>1 DEF SessionsAreCurrent
  <2>4. /\ sessions \in SUBSET Session /\ clock \in Nat /\ tokens \in Nat /\ lag \in Nat
        /\ {} \in SUBSET sessions /\ {} \in SUBSET Session
        /\ Table(sessions, clock, tokens, lag)
    BY PolicyAssumption DEF Inv, Types
  <2>5. /\ Table({}, clock, tokens, lag) /\ Evolves(sessions, {}, tokens)
        /\ TokensKept(sessions, {}, clock, lag)
    BY <2>4, TableShrinks
  <2>6. ASSUME NEW q \in Procs PROVE HandlerOK(proc[q], {}, clock, tokens, lag)
    <3>1. proc[q] \in HandlerType /\ HandlerOK(proc[q], sessions, clock, tokens, lag)
      BY DEF Inv, Types
    <3>2. tokens <= tokens /\ lag <= lag
      BY <2>4
    <3>. QED BY <3>1, <3>2, <2>4, <2>5, OthersKept
  <2>. QED BY <2>1, <2>2, <2>3, <2>5, <2>6 DEF Inv
<1>3. admin.weak \in BOOLEAN
  BY DEF Inv, Types, Administrator
<1>. QED BY <1>1, <1>2, <1>3 DEF Command, ResetPassword, RevokeSessions

-----------------------------------------------------------------------------
(* The theorems.                                                           *)

LEMMA InitOK == Init => Inv
<1>. SUFFICES ASSUME Init PROVE Inv
  OBVIOUS
<1>. USE PolicyAssumption
<1>1. Types
  <2>1. Idle \in HandlerType
    BY IdleOK
  <2>2. admin \in Administrator
    <3>1. CASE admin = [epoch |-> 0, weak |-> FALSE]
      BY <3>1 DEF Administrator
    <3>2. CASE admin \in [epoch : {1}, weak : BOOLEAN]
      BY <3>2 DEF Administrator
    <3>. QED BY <3>1, <3>2 DEF Init
  <2>3. proc \in [Procs -> HandlerType]
    BY <2>1 DEF Init
  <2>. QED BY <2>2, <2>3 DEF Init, Types
<1>2. SessionsAreCurrent
  BY DEF Init, SessionsAreCurrent
<1>3. Table(sessions, clock, tokens, lag)
  <2>1. Limited({})
    BY FS_EmptySet DEF Limited
  <2>. QED BY <2>1 DEF Init, Table, Distinct
<1>4. \A p \in Procs : HandlerOK(proc[p], sessions, clock, tokens, lag)
  BY IdleOK DEF Init
<1>. QED BY <1>1, <1>2, <1>3, <1>4 DEF Inv

LEMMA HandlerKept ==
    ASSUME Inv, NEW p \in Procs, Handler(p)
    PROVE  Inv'
<1>1. CASE SignIn(p) \/ Derive(p) \/ CreateSession(p) \/ ReplaceCookie(p)
  BY <1>1, SignInOK, DeriveOK, CreateSessionOK, ReplaceCookieOK
<1>2. CASE \E kind \in Kinds \ {"signIn"} : Request(p, kind)
  BY <1>2, RequestKept
<1>3. CASE Validation(p)
  BY <1>3, LoadSessionOK, CheckSessionOK, ExpireSessionOK, DropPreviousOK,
     RotateSessionOK, TouchSessionOK DEF Validation
<1>4. CASE Forget(p) \/ Finish(p)
  BY <1>4, ForgetKept, FinishOK
<1>. QED BY <1>1, <1>2, <1>3, <1>4 DEF Handler

LEMMA StutterOK ==
    ASSUME Inv, UNCHANGED vars
    PROVE  Inv'
<1>1. UNCHANGED <<clock, admin, sessions, tokens, proc, steps, lag>>
  BY DEF vars
<1>. QED BY <1>1 DEF Inv, Types, SessionsAreCurrent, Live

\* The invariant is inductive.
THEOREM Invariance == Spec => []Inv
<1>1. Inv /\ [Next]_vars => Inv'
  <2>. SUFFICES ASSUME Inv, [Next]_vars PROVE Inv'
    OBVIOUS
  <2>1. CASE Command
    BY <2>1, CommandOK
  <2>2. CASE \E p \in Procs : Handler(p)
    BY <2>2, HandlerKept
  <2>3. CASE Tick
    BY <2>3, TickOK
  <2>4. CASE ClockBack
    BY <2>4, ClockBackOK
  <2>5. CASE UNCHANGED vars
    BY <2>5, StutterOK
  <2>. QED BY <2>1, <2>2, <2>3, <2>4, <2>5 DEF Next
<1>. QED BY <1>1, InitOK, PTL DEF Spec

\* No statement on the session table is refused by its CHECK constraints, and
\* createSession keeps it within MaximumSessions rows, for any number of
\* concurrent requests and any steps of the clock.
THEOREM TableTheorem == Spec => []TableOK
<1>1. Inv => TableOK
  <2>. SUFFICES ASSUME Inv PROVE TableOK
    OBVIOUS
  <2>1. /\ clock \in Nat /\ tokens \in Nat /\ steps \in Nat
        /\ admin \in Administrator /\ lag \in 0..PreviousGrace
        /\ sessions \subseteq Session
    BY DEF Inv, Types
  <2>2. Cardinality(sessions) <= MaximumSessions
    BY DEF Inv, Table, Limited
  <2>3. \A s \in sessions :
          /\ s.previous = None <=> s.until = 0
          /\ s.created <= s.seen /\ s.seen <= s.idle /\ s.idle <= s.absolute
    BY DEF Inv, Table, RowOK
  <2>4. \A p \in Procs :
          /\ proc[p].kind \in Kinds /\ proc[p].pc \in Locations
          /\ proc[p].answer \in Answers
    BY DEF Inv, Types, HandlerType
  <2>. QED BY <2>1, <2>2, <2>3, <2>4 DEF TableOK
<1>. QED BY <1>1, Invariance, PTL

\* A sign-in that read the verifier before a reset or a revocation leaves no
\* session behind (createSession against advanceEpoch).
THEOREM CurrentTheorem == Spec => []SessionsAreCurrent
<1>1. Inv => SessionsAreCurrent
  BY DEF Inv
<1>. QED BY <1>1, Invariance, PTL

\* validateSessionHash refuses no timely request that came with a current
\* token, whoever rotates it meanwhile.
THEOREM RotationTheorem == Spec => []RotationKeepsRequests
<1>1. Inv => RotationKeepsRequests
  BY DEF Inv, HandlerOK, RefusedOK, RotationKeepsRequests, At, InTime
<1>. QED BY <1>1, Invariance, PTL

\* A timely sign-out ends its session, whoever rotates its token meanwhile.
THEOREM SignOutTheorem == Spec => []SignOutEnds
<1>1. Inv => SignOutEnds
  BY DEF Inv, HandlerOK, EndedOK, SignOutEnds, At, InTime
<1>. QED BY <1>1, Invariance, PTL

\* A validation changes only the session whose token was presented, although
\* its row was read before and row ids are reused.
THEOREM StrangersTheorem == Spec => StrangersKept
<1>. DEFINE A == \A p \in Procs :
         proc[p].pc \in {"expire", "drop", "rotate", "touch"} /\ proc'[p] # proc[p] =>
           \A s \in sessions : s.csrf # proc[p].row.csrf => s \in sessions'
<1>1. Inv /\ [Next]_vars => [A]_vars
  <2>. SUFFICES ASSUME Inv, Next, NEW p \in Procs, proc[p].pc \in Decided,
                       proc'[p] # proc[p],
                       NEW s \in sessions, s.csrf # proc[p].row.csrf
                PROVE  s \in sessions'
    BY DEF Decided
  <2>1. ~Names(s, proc[p].token)
    BY DEF Inv, HandlerOK, DecisionOK, Agrees
  <2>2. SUFFICES ASSUME sessions' # sessions PROVE s \in sessions'
    OBVIOUS
  <2>3. ~Command /\ ~Tick /\ ~ClockBack
    BY <2>2 DEF Command, Bootstrap, ResetPassword, RevokeSessions, AdvanceEpoch, Tick, ClockBack
  <2>4. PICK q \in Procs : Handler(q)
    BY <2>3 DEF Next
  <2>5. q = p
    <3>1. \E r : proc' = [proc EXCEPT ![q] = r]
      BY <2>4 DEF Handler, Validation, SignIn, Derive, CreateSession, ReplaceCookie, Request,
         LoadSession, CheckSession, ExpireSession, DropPrevious, RotateSession, TouchSession,
         Forget, Finish, Proceed, ValidateAgain, Answer, Go
    <3>. QED BY <3>1 DEF Inv, Types
  <2>6. ExpireSession(p) \/ DropPrevious(p) \/ RotateSession(p) \/ TouchSession(p)
    BY <2>2, <2>4, <2>5 DEF Decided, Handler, Validation, SignIn, Derive, CreateSession,
       ReplaceCookie, Request, LoadSession, CheckSession, Forget, Finish, At
  <2>7. CASE ExpireSession(p)
    BY <2>7, <2>1 DEF ExpireSession
  <2>8. CASE DropPrevious(p)
    <3>1. s.previous # proc[p].token
      BY <2>1 DEF Names
    <3>. QED BY <2>8, <3>1 DEF DropPrevious
  <2>9. CASE RotateSession(p)
    BY <2>9, <2>1 DEF RotateSession, Replace, Names
  <2>10. CASE TouchSession(p)
    BY <2>10, <2>1 DEF TouchSession, Replace, Names
  <2>. QED BY <2>6, <2>7, <2>8, <2>9, <2>10
<1>. QED BY <1>1, Invariance, PTL DEF Spec, StrangersKept
=============================================================================
