-------------------------- MODULE IdentitySessions ---------------------------
(***************************************************************************)
(* The administrator's password and browser sessions (internal/identity)   *)
(* under concurrent requests (internal/httpapi) and the local              *)
(* administrator command (cmd/acmemux/admin.go), which is a process of its *)
(* own on the same database.                                               *)
(*                                                                         *)
(* One SQL statement or transaction is one step: the pool has a single     *)
(* connection and SQLite serialises the processes.  What a request read    *)
(* before, the clock included, is kept in its own record and may be stale. *)
(* A token stands for its hash; the CSRF token, which rotation keeps,      *)
(* identifies the session.                                                 *)
(***************************************************************************)
EXTENDS Integers, FiniteSets

CONSTANTS Procs,             \* request handlers
          IdleLifetime, AbsoluteLifetime, RotationAfter, PreviousGrace,
          MaximumSessions,
          MaxClock,          \* the clock stops here
          MaxTokens,         \* tokens handed out
          MaxEpoch,          \* password resets and revocations
          MaxClockSteps      \* backward steps of the wall clock

ASSUME PolicyAssumption ==
    /\ IdleLifetime \in Nat \ {0} /\ AbsoluteLifetime \in Nat
    /\ RotationAfter \in Nat /\ PreviousGrace \in Nat \ {0}
    /\ IdleLifetime <= AbsoluteLifetime /\ RotationAfter < AbsoluteLifetime
    /\ 2 * PreviousGrace <= RotationAfter
    /\ MaximumSessions \in Nat \ {0}
    /\ MaxClock \in Nat /\ MaxTokens \in Nat /\ MaxEpoch \in Nat /\ MaxClockSteps \in Nat

VARIABLES
    clock,     \* the wall clock, in seconds
    admin,     \* table administrator: at most one row
    sessions,  \* table identity_sessions
    tokens,    \* number of tokens generated so far
    proc,      \* the request in each handler
    steps,     \* backward clock steps so far
    lag        \* history: the longest time from a rotation's reading of the
               \* clock to its storing, at most PreviousGrace; PreviousGrace
               \* once the clock went back

vars == <<clock, admin, sessions, tokens, proc, steps, lag>>

None == 0

Smaller(a, b) == IF a <= b THEN a ELSE b
Larger(a, b) == IF a >= b THEN a ELSE b

-----------------------------------------------------------------------------
(* The rows and the requests.                                              *)

Session ==
    [id : Nat \ {0}, epoch : Nat, current : Nat \ {0}, previous : Nat, until : Nat,
     csrf : Nat \ {0}, created : Nat, seen : Nat, idle : Nat, absolute : Nat,
     rotate : Nat, verified : Nat]

\* epoch 0: no row.  The epoch also stands for the password verifier of its
\* time; weak: one derived with smaller parameters than today's.
Administrator == [epoch : Nat, weak : BOOLEAN]

\* "use": a read, or a mutation that gets as far as its guard.
Kinds == {"use", "signOut", "signIn"}
Locations == {"idle", "load", "check", "expire", "drop", "rotate", "touch", "forget",
              "derive", "create", "replace", "answered"}
Answers == {"none", "ok", "invalid", "expired", "forbidden"}

NoRow == [id |-> 0]

Idle == [kind |-> "use", pc |-> "idle", token |-> None, csrf |-> None,
         raw |-> None, rotating |-> FALSE, guard |-> FALSE, row |-> NoRow,
         now |-> 0, age |-> 0, fresh |-> FALSE, answer |-> "none"]

Live(s) == s.epoch = admin.epoch

Names(s, token) == token \in {s.current, s.previous}

At(p, pc) == proc[p].pc = pc

Go(p, r) == proc' = [proc EXCEPT ![p] = r]

Answer(p, a) ==
    Go(p, [Idle EXCEPT !.kind = proc[p].kind, !.pc = "answered", !.answer = a,
                       !.csrf = proc[p].csrf, !.age = proc[p].age,
                       !.fresh = proc[p].fresh])

Init ==
    /\ clock = 0
    /\ \/ admin = [epoch |-> 0, weak |-> FALSE]
       \/ admin \in [epoch : {1}, weak : BOOLEAN]
    /\ sessions = {} /\ tokens = 0
    /\ proc = [p \in Procs |-> Idle]
    /\ steps = 0 /\ lag = 0

-----------------------------------------------------------------------------
(* The administrator command.                                              *)

Bootstrap ==
    /\ admin.epoch = 0
    /\ admin' = [epoch |-> 1, weak |-> FALSE]
    /\ UNCHANGED <<clock, sessions, tokens, proc, steps, lag>>

\* advanceEpoch: one transaction for the epoch, the verifier and the sessions.
AdvanceEpoch(weak) ==
    /\ admin.epoch \in 1..(MaxEpoch - 1)
    /\ admin' = [epoch |-> admin.epoch + 1, weak |-> weak]
    /\ sessions' = {}
    /\ UNCHANGED <<clock, tokens, proc, steps, lag>>

ResetPassword == AdvanceEpoch(FALSE)

RevokeSessions == AdvanceEpoch(admin.weak)

-----------------------------------------------------------------------------
(* Sign-in.                                                                *)

\* loadAdministrator; the browser may still hold the cookie of a session.  A
\* wrong password ends here.
SignIn(p) ==
    /\ At(p, "idle") /\ admin.epoch > 0
    /\ \/ \E cookie \in {None} \cup {s.current : s \in sessions} :
            Go(p, [Idle EXCEPT !.kind = "signIn", !.pc = "derive", !.raw = cookie,
                               !.row = admin])
       \/ Go(p, [Idle EXCEPT !.kind = "signIn", !.pc = "answered",
                             !.answer = "invalid"])
    /\ UNCHANGED <<clock, admin, sessions, tokens, steps, lag>>

\* The key derivations take time; createSession then reads the clock.
Derive(p) ==
    /\ At(p, "derive")
    /\ Go(p, [proc[p] EXCEPT !.pc = "create", !.now = clock])
    /\ UNCHANGED <<clock, admin, sessions, tokens, steps, lag>>

\* The order by which the limit keeps sessions.
Above(S, s) == {u \in S : u.seen > s.seen \/ (u.seen = s.seen /\ u.id > s.id)}

Newest(S) == {s \in S : Cardinality(Above(S, s)) < MaximumSessions}

\* SQLite reuses the largest row id once its row is gone.
NewId(S) == CHOOSE n \in 1..(MaxTokens + 1) :
              /\ \A s \in S : s.id < n
              /\ n = 1 \/ \E s \in S : s.id = n - 1

Expires(now, absolute) == Smaller(now + IdleLifetime, absolute)

NewSession(p, id) ==
    LET now == proc[p].now
        absolute == now + AbsoluteLifetime
    IN [id |-> id, epoch |-> admin.epoch, current |-> tokens + 1, previous |-> None,
        until |-> 0, csrf |-> tokens + 1, created |-> now, seen |-> now,
        idle |-> Expires(now, absolute), absolute |-> absolute,
        rotate |-> now + RotationAfter, verified |-> proc[p].row.epoch]

\* Mutant: the session gets whatever epoch the administrator has now.
CreateAnyEpoch(p) ==
    /\ At(p, "create") /\ tokens < MaxTokens
    /\ LET now == proc[p].now
           kept == {s \in sessions : s.idle > now /\ s.absolute > now /\ Live(s)}
       IN sessions' = Newest(kept \cup {NewSession(p, NewId(kept))})
    /\ tokens' = tokens + 1
    /\ Answer(p, "ok")
    /\ UNCHANGED <<clock, admin, steps, lag>>

\* A weaker verifier is upgraded unless it changed since it was read.
Upgrade(p) ==
    [admin EXCEPT !.weak = @ /\ ~(proc[p].row.weak /\ admin.epoch = proc[p].row.epoch)]

\* createSession: one transaction, rolled back when the epoch has advanced.
CreateSession(p) ==
    /\ At(p, "create")
    /\ IF admin.epoch = proc[p].row.epoch
       THEN /\ tokens < MaxTokens
            /\ LET now == proc[p].now
                   kept == {s \in sessions :
                              s.idle > now /\ s.absolute > now /\ Live(s)}
               IN sessions' = Newest(kept \cup {NewSession(p, NewId(kept))})
            /\ admin' = Upgrade(p)
            /\ IF proc[p].raw = None
               THEN Answer(p, "ok")
               ELSE Go(p, [proc[p] EXCEPT !.pc = "replace", !.token = tokens + 1,
                                          !.row = NoRow, !.now = 0])
            /\ tokens' = tokens + 1
       ELSE /\ Answer(p, "invalid")
            /\ UNCHANGED <<admin, sessions, tokens>>
    /\ UNCHANGED <<clock, steps, lag>>

\* Mutant: only the current token of a session signs it out.
WithoutCurrent(token) == {s \in sessions : s.current # token}

\* Logout, by either token and whatever the epoch.
Without(token) == {s \in sessions : ~Names(s, token)}

\* The session of the cookie the browser came with is signed out; if that
\* fails the new one is (as far as possible).
ReplaceCookie(p) ==
    /\ At(p, "replace")
    /\ \/ sessions' = Without(proc[p].raw) /\ Answer(p, "ok")
       \/ sessions' = Without(proc[p].token) /\ Go(p, Idle)
    /\ UNCHANGED <<clock, admin, tokens, steps, lag>>

-----------------------------------------------------------------------------
(* ValidateSession.                                                        *)

\* Every other request presents a token of a session, and its CSRF token or
\* not.
Request(p, kind) ==
    /\ At(p, "idle")
    /\ \E s \in sessions : \E token \in {s.current, s.previous} \ {None} :
       \E csrf \in {s.csrf, None} :
         Go(p, [Idle EXCEPT !.kind = kind, !.pc = "load", !.token = token,
                            !.raw = token, !.csrf = csrf, !.rotating = TRUE,
                            !.fresh = (token = s.current)])
    /\ UNCHANGED <<clock, admin, sessions, tokens, steps, lag>>

LoadSession(p) ==
    /\ At(p, "load")
    /\ \/ \E s \in sessions :
            /\ Names(s, proc[p].token) /\ Live(s)
            /\ Go(p, [proc[p] EXCEPT !.pc = "check", !.row = s])
       \/ /\ \A s \in sessions : ~(Names(s, proc[p].token) /\ Live(s))
          /\ Answer(p, "invalid")
    /\ UNCHANGED <<clock, admin, sessions, tokens, steps, lag>>

\* Mutant: the last activity does not bound the clock from below.
ClockAlone(row) == clock

EffectiveNow(row) == Larger(clock, row.seen)

\* What is used of the row after the decision.
Kept(row) == [id |-> row.id, epoch |-> row.epoch, csrf |-> row.csrf,
              absolute |-> row.absolute]

\* The decision on the row that was read; the statement follows.
CheckSession(p) ==
    /\ At(p, "check")
    /\ LET row == proc[p].row
           now == EffectiveNow(row)
           current == proc[p].token = row.current
           next == IF now >= row.idle \/ now >= row.absolute THEN "expire"
                   ELSE IF ~current /\ now >= row.until THEN "drop"
                   ELSE IF proc[p].rotating /\ current /\ now >= row.rotate
                        THEN "rotate"
                   ELSE "touch"
       IN Go(p, [proc[p] EXCEPT !.pc = next, !.now = now, !.row = Kept(row)])
    /\ UNCHANGED <<clock, admin, sessions, tokens, steps, lag>>

\* Mutant: the row is identified by its id alone.
ExpireById(p) ==
    /\ At(p, "expire")
    /\ sessions' = {s \in sessions : s.id # proc[p].row.id}
    /\ Answer(p, "expired")
    /\ UNCHANGED <<clock, admin, tokens, steps, lag>>

\* deleteExpiredSession: bound to the id, the epoch and the token.
ExpireSession(p) ==
    /\ At(p, "expire")
    /\ sessions' = {s \in sessions : ~(/\ s.id = proc[p].row.id
                                       /\ s.epoch = proc[p].row.epoch
                                       /\ Names(s, proc[p].token))}
    /\ Answer(p, "expired")
    /\ UNCHANGED <<clock, admin, tokens, steps, lag>>

Replace(s, t) == sessions' = (sessions \ {s}) \cup {t}

DropPrevious(p) ==
    /\ At(p, "drop")
    /\ sessions' = {IF s.id = proc[p].row.id /\ s.previous = proc[p].token
                    THEN [s EXCEPT !.previous = None, !.until = 0] ELSE s :
                      s \in sessions}
    /\ Answer(p, "invalid")
    /\ UNCHANGED <<clock, admin, tokens, steps, lag>>

\* What the handler does with the session.  The CSRF token is compared: a wrong
\* one ends a first validation with a sign-out, a sign-out or a guard with a
\* refusal.  A mutation goes on to its guard, reauthorizeMutation, with the
\* token in force.  Its own work in between, and the refusal of a request whose
\* CSRF header differs from its cookie, need no step of their own.
Proceed(p, token) ==
    LET r == proc[p]
        valid == r.csrf = r.row.csrf
        forget == [r EXCEPT !.pc = "forget", !.row = NoRow, !.now = 0]
        again == [r EXCEPT !.pc = "load", !.token = token, !.rotating = TRUE,
                           !.guard = TRUE, !.row = NoRow, !.now = 0]
    IN \/ /\ r.kind = "signOut"
          /\ IF valid THEN Go(p, forget) ELSE Answer(p, "forbidden")
       \/ /\ r.kind = "use" /\ ~r.guard
          /\ IF valid THEN Go(p, again) ELSE Go(p, forget)
       \/ /\ r.kind = "use" /\ r.guard
          /\ Answer(p, IF valid THEN "ok" ELSE "forbidden")

\* Mutant: the request that loses the race for the rotation is refused.
RefuseLoser(p) == Answer(p, "invalid")

\* A request that loses the race for the rotation validates again, without
\* rotating.
ValidateAgain(p) ==
    Go(p, [proc[p] EXCEPT !.pc = "load", !.rotating = FALSE, !.row = NoRow, !.now = 0])

\* The rotation is bound to the token and the epoch.
RotateSession(p) ==
    /\ At(p, "rotate")
    /\ LET r == proc[p]
           due == {s \in sessions : /\ s.id = r.row.id /\ s.current = r.token
                                    /\ s.rotate <= r.now /\ Live(s)}
       IN \/ \E s \in due :
               /\ tokens < MaxTokens
               /\ Replace(s, [s EXCEPT !.previous = s.current, !.current = tokens + 1,
                                       !.until = r.now + PreviousGrace, !.seen = r.now,
                                       !.idle = Expires(r.now, r.row.absolute),
                                       !.rotate = r.now + RotationAfter])
               /\ tokens' = tokens + 1
               /\ lag' = Larger(lag, Smaller(clock - r.now, PreviousGrace))
               /\ Proceed(p, tokens + 1)
          \/ /\ due = {}
             /\ ValidateAgain(p)
             /\ UNCHANGED <<sessions, tokens, lag>>
    /\ UNCHANGED <<clock, admin, steps>>

TouchSession(p) ==
    /\ At(p, "touch")
    /\ LET r == proc[p]
           valid == {s \in sessions :
                       /\ s.id = r.row.id /\ Live(s)
                       /\ \/ s.current = r.token
                          \/ s.previous = r.token /\ s.until > r.now}
       IN \/ \E s \in valid :
               /\ Replace(s, [s EXCEPT !.seen = r.now,
                                       !.idle = Expires(r.now, r.row.absolute)])
               /\ Proceed(p, r.token)
          \/ /\ valid = {}
             /\ Answer(p, "invalid")
             /\ UNCHANGED sessions
    /\ UNCHANGED <<clock, admin, tokens, steps, lag>>

-----------------------------------------------------------------------------
(* What the handlers do with a validated session.                          *)

\* Logout of the token the request came with: a sign-out, or a wrong CSRF
\* token.
Forget(p) ==
    /\ At(p, "forget")
    /\ sessions' = Without(proc[p].raw)
    /\ Answer(p, IF proc[p].csrf = None THEN "invalid" ELSE "ok")
    /\ UNCHANGED <<clock, admin, tokens, steps, lag>>

\* The response was sent (a read is done after its first validation), or the
\* client went away or a statement failed first.
Finish(p) ==
    /\ ~At(p, "idle")
    /\ Go(p, Idle)
    /\ UNCHANGED <<clock, admin, sessions, tokens, steps, lag>>

Tick ==
    /\ clock < MaxClock
    /\ clock' = clock + 1
    /\ proc' = [p \in Procs |->
                 [proc[p] EXCEPT !.age = IF At(p, "idle") THEN 0
                                         ELSE Smaller(@ + 1, PreviousGrace)]]
    /\ UNCHANGED <<admin, sessions, tokens, steps, lag>>

ClockBack ==
    /\ steps < MaxClockSteps
    /\ \E t \in 0..(clock - 1) : clock' = t
    /\ steps' = steps + 1 /\ lag' = PreviousGrace
    /\ UNCHANGED <<admin, sessions, tokens, proc>>

-----------------------------------------------------------------------------
Command ==
    Bootstrap \/ ResetPassword \/ RevokeSessions

Validation(p) ==
    \/ LoadSession(p) \/ CheckSession(p) \/ ExpireSession(p) \/ DropPrevious(p)
    \/ RotateSession(p) \/ TouchSession(p)

Handler(p) ==
    \/ SignIn(p) \/ Derive(p) \/ CreateSession(p) \/ ReplaceCookie(p)
    \/ \E kind \in Kinds \ {"signIn"} : Request(p, kind)
    \/ Validation(p)
    \/ Forget(p) \/ Finish(p)

Next == Command \/ (\E p \in Procs : Handler(p)) \/ Tick \/ ClockBack

Spec == Init /\ [][Next]_vars

-----------------------------------------------------------------------------
\* The table stays within its limit and its CHECK constraints, so no statement
\* is refused by them: at most MaximumSessions rows, a grace period only with a
\* previous token, and windows in order whatever the order of the requests and
\* the readings of the clock.
TableOK ==
    /\ clock \in Nat /\ tokens \in Nat /\ steps \in Nat
    /\ admin \in Administrator /\ lag \in 0..PreviousGrace
    /\ sessions \subseteq Session /\ Cardinality(sessions) <= MaximumSessions
    /\ \A s \in sessions :
         /\ s.previous = None <=> s.until = 0
         /\ s.created <= s.seen /\ s.seen <= s.idle /\ s.idle <= s.absolute
    /\ \A p \in Procs :
         /\ proc[p].kind \in Kinds /\ proc[p].pc \in Locations
         /\ proc[p].answer \in Answers

\* A sign-in that read the verifier before a reset or a revocation leaves no
\* session behind: every row was opened with the verifier of the present epoch.
SessionsAreCurrent ==
    \A s \in sessions : Live(s) /\ s.verified = admin.epoch

\* A request within the grace period of its own start, less the time rotations
\* took to be stored: the grace period counts from a rotation's reading of the
\* clock.
InTime(p) == proc[p].age + lag < PreviousGrace

\* Rotation takes nothing away from concurrent requests: one that came with a
\* current token is not refused while its session goes on.
RotationKeepsRequests ==
    \A p \in Procs :
        /\ At(p, "answered") /\ proc[p].answer = "invalid"
        /\ proc[p].fresh /\ proc[p].csrf # None /\ InTime(p)
        => \A s \in sessions : s.csrf # proc[p].csrf

\* A sign-out that was answered has ended its session, also when the request
\* itself or another one rotated the token meanwhile.  (One that came with a
\* previous token can outlive that token's grace period, unless it is answered
\* at once.)
SignOutEnds ==
    \A p \in Procs :
        /\ At(p, "answered") /\ proc[p].answer = "ok"
        /\ proc[p].kind = "signOut" /\ InTime(p) /\ (proc[p].fresh \/ proc[p].age = 0)
        => \A s \in sessions : s.csrf # proc[p].csrf

\* Validation works on a row read earlier, and SQLite reuses row ids: it only
\* ever changes the session whose token was presented, never one of a later
\* sign-in.
StrangersKept ==
    [][\A p \in Procs :
         proc[p].pc \in {"expire", "drop", "rotate", "touch"} /\ proc'[p] # proc[p] =>
           \A s \in sessions : s.csrf # proc[p].row.csrf => s \in sessions']_vars
=============================================================================
