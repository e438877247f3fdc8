--------------------------- MODULE LoginAttempts ---------------------------
(***************************************************************************)
(* The local login (authHandler of rest/auth.go) and the limit on failed   *)
(* logins (rest/login/attempt.go).  CheckTooManyLogins runs before the     *)
(* password is checked and takes no lock, although it writes the list of   *)
(* attempts: the statement that keeps the last three reads and writes the  *)
(* map in steps of their own here.  RecordAttempt and                      *)
(* ClearAttemptsForLogin hold mu and are single steps; they follow         *)
(* Authenticate with nothing to wait for and are part of its step.  What a *)
(* success does to the user is LocalLogin of UserAccounts.  With           *)
(* LocalAuthDisabled the handler answers before any of this.               *)
(*                                                                         *)
(* A time stamp is a tick of the clock, and a tick is one TOTP interval.   *)
(***************************************************************************)
EXTENDS Naturals, Sequences, FiniteSets, SequencesExt, TOTP

CONSTANTS
    Logins,         \* names that are typed in
    Requests,       \* POST requests of the login page in flight
    FactorNames,    \* names of second factors
    Secrets,        \* secrets of second factors
    Undecodable,    \* the secret that is not base32
    Limit,          \* 3 in the code
    Window,         \* 3 minutes in the code
    MaxTime,        \* bound: the clock stops here
    MaxFailures,    \* bound: failures of a login since its last success
    MaxRestarts,    \* bound: crashes
    NoLogin,        \* no login
    NoFactor        \* the request names no second factor

ASSUME Sentinels == NoLogin \notin Logins /\ NoFactor \notin FactorNames

ASSUME Numbers ==
    /\ Limit \in Nat \ {0}
    /\ Window \in Nat /\ MaxTime \in Nat /\ MaxFailures \in Nat /\ MaxRestarts \in Nat

ASSUME FiniteRequests == IsFiniteSet(Requests)

VARIABLES
    clock,
    attempts,   \* Context.LoginAttempts: per login, time stamps
    request,    \* local variables of each request
    restarts,   \* counter
    failed,     \* history: every failure of a login since its last success
    disturbed   \* history: logins two requests wrote to at once, one keeping the last three

vars == <<clock, attempts, request, restarts, failed, disturbed>>

Idle == [pc |-> "idle", login |-> NoLogin, index |-> 0, kept |-> <<>>]

Users == [suspended: BOOLEAN,
          factors: SUBSET [name: FactorNames, secret: Secrets \cup {Undecodable}]]

LoginRequest(t) ==
    [passwordIsRight: BOOLEAN,
     factor: FactorNames \cup {NoFactor},
     code: {GetToken(s, i) : s \in Secrets, i \in {t, t + 1}}]

\* Authenticate of rest/login/auth.go, with AuthUser as "the password is right".
\* Every factor of the name that is given is tried; one that cannot be decoded
\* makes it an error, also after another one has matched.
Authenticate(user, loginReq, t) ==
    LET named == {f \in user.factors : f.name = loginReq.factor} IN
    CASE ~loginReq.passwordIsRight \/ user.suspended -> "denied"
      [] OTHER ->
            CASE user.factors = {} -> "authenticated"
              [] user.factors # {} /\ loginReq.factor = NoFactor -> "mfaRequired"
              [] OTHER ->
                    CASE \E f \in named : f.secret = Undecodable -> "error"
                      [] OTHER ->
                            IF \E f \in named : Verify(f.secret, loginReq.code, t * INTERVAL)
                            THEN "authenticated" ELSE "denied"

-----------------------------------------------------------------------------
(* CheckTooManyLogins                                                      *)

\* The attempts in a list that are not older than the window.
LoginAttemptsSince(stamps, t) ==
    Cardinality({i \in DOMAIN stamps : t - stamps[i] <= Window})

\* Mutant: one more attempt than the limit is needed.
ExceedsLimit(n) == n > Limit

ReachesLimit(n) == n >= Limit

TooMany(l) == ReachesLimit(LoginAttemptsSince(attempts[l], clock))

Goto(r, pc, l) == request' = [request EXCEPT ![r] = [Idle EXCEPT !.pc = pc, !.login = l]]

\* Fewer than three: on to the password.
CheckPasses(r, l) ==
    /\ request[r].pc = "idle"
    /\ Len(failed[l]) < MaxFailures
    /\ ~TooMany(l)
    /\ Goto(r, "admitted", l)
    /\ UNCHANGED <<clock, attempts, restarts, failed, disturbed>>

\* Three or more: 429, and of a longer list the last three are to be kept.
\* The length is read here, the list in the next step.
CheckRefuses(r, l) ==
    /\ request[r].pc = "idle"
    /\ TooMany(l)
    /\ IF Len(attempts[l]) > Limit
       THEN request' = [request EXCEPT ![r] =
                [Idle EXCEPT !.pc = "slice", !.login = l, !.index = Len(attempts[l]) - Limit]]
       ELSE Goto(r, "refused", l)
    /\ UNCHANGED <<clock, attempts, restarts, failed, disturbed>>

\* History: request r writes the list of its login while another request has
\* measured it and not yet stored the last three.
Disturbs(r) ==
    \E q \in Requests \ {r} :
        request[q].pc \in {"slice", "assign"} /\ request[q].login = request[r].login

\* Mutant: the first attempts are kept instead of the last.
KeepFirst(stamps, index) == SubSeq(stamps, 1, Len(stamps) - index)

\* attempts[login][index:]
KeepLast(stamps, index) == SubSeq(stamps, index + 1, Len(stamps))

SliceAttempts(r) ==
    LET stamps == attempts[request[r].login] IN
    /\ request[r].pc = "slice"
    /\ request[r].index <= Len(stamps)
    /\ request' = [request EXCEPT ![r] =
                      [@ EXCEPT !.pc = "assign", !.kept = KeepLast(stamps, request[r].index)]]
    /\ UNCHANGED <<clock, attempts, restarts, failed, disturbed>>

\* The list was cleared in between: a panic, which net/http recovers.
SlicePanics(r) ==
    /\ request[r].pc = "slice"
    /\ request[r].index > Len(attempts[request[r].login])
    /\ request' = [request EXCEPT ![r] = Idle]
    /\ UNCHANGED <<clock, attempts, restarts, failed, disturbed>>

\* The shorter list is stored, and the request answered.
AssignAttempts(r) ==
    /\ request[r].pc = "assign"
    /\ attempts' = [attempts EXCEPT ![request[r].login] = request[r].kept]
    /\ request' = [request EXCEPT ![r] = Idle]
    /\ disturbed' = IF Disturbs(r) THEN disturbed \cup {request[r].login} ELSE disturbed
    /\ UNCHANGED <<clock, restarts, failed>>

AnswerRefusal(r) ==
    /\ request[r].pc = "refused"
    /\ request' = [request EXCEPT ![r] = Idle]
    /\ UNCHANGED <<clock, attempts, restarts, failed, disturbed>>

-----------------------------------------------------------------------------
(* The rest of authHandler, after the password has been hashed.            *)

\* What a user and what is typed in can lead to at time t.
Results(t) == {Authenticate(user, loginReq, t) : user \in Users, loginReq \in LoginRequest(t)}

Authenticates(r, results) ==
    /\ request[r].pc = "admitted"
    /\ Results(clock) \cap results # {}
    /\ request' = [request EXCEPT ![r] = Idle]

\* Mutant: the new attempt goes to the front of the list.
RecordInFront(l) == [attempts EXCEPT ![l] = <<clock>> \o @]

RecordAttempt(l) == [attempts EXCEPT ![l] = Append(@, clock)]

\* A wrong password or code, or a suspended user: 401.
LoginFails(r) ==
    LET l == request[r].login IN
    /\ Authenticates(r, {"denied"})
    /\ attempts' = RecordAttempt(l)
    /\ failed' = [failed EXCEPT ![l] = Append(@, clock)]
    /\ disturbed' = IF Disturbs(r) THEN disturbed \cup {l} ELSE disturbed
    /\ UNCHANGED <<clock, restarts>>

ClearAttemptsForLogin(l) == [attempts EXCEPT ![l] = <<>>]

LoginSucceeds(r) ==
    LET l == request[r].login IN
    /\ Authenticates(r, {"authenticated"})
    /\ attempts' = ClearAttemptsForLogin(l)
    /\ failed' = [failed EXCEPT ![l] = <<>>]
    /\ disturbed' = IF Disturbs(r) THEN disturbed \cup {l} ELSE disturbed \ {l}
    /\ UNCHANGED <<clock, restarts>>

\* The second factor is asked for, or an error is answered: no attempt.
LoginIsUndecided(r) ==
    /\ Authenticates(r, {"mfaRequired", "error"})
    /\ UNCHANGED <<clock, attempts, restarts, failed, disturbed>>

-----------------------------------------------------------------------------
\* A tick is long: no request stands still between two accesses of the list.
Tick ==
    /\ clock < MaxTime
    /\ \A r \in Requests : request[r].pc \notin {"slice", "assign"}
    /\ clock' = clock + 1
    /\ UNCHANGED <<attempts, request, restarts, failed, disturbed>>

\* The process ends and starts again with no attempts.  Apart from crashes and
\* updates this is what the Go runtime does when it sees the unlocked read of
\* the map at the same time as a write ("concurrent map read and map write").
Restart ==
    /\ restarts < MaxRestarts
    /\ restarts' = restarts + 1
    /\ attempts' = [l \in Logins |-> <<>>]
    /\ request' = [r \in Requests |-> Idle]
    /\ failed' = [l \in Logins |-> <<>>]
    /\ disturbed' = {}
    /\ UNCHANGED clock

Init ==
    /\ clock = 0
    /\ attempts = [l \in Logins |-> <<>>]
    /\ request = [r \in Requests |-> Idle]
    /\ restarts = 0
    /\ failed = [l \in Logins |-> <<>>]
    /\ disturbed = {}

Next ==
    \/ \E r \in Requests, l \in Logins : CheckPasses(r, l) \/ CheckRefuses(r, l)
    \/ \E r \in Requests :
          \/ SliceAttempts(r) \/ SlicePanics(r) \/ AssignAttempts(r) \/ AnswerRefusal(r)
          \/ LoginFails(r) \/ LoginSucceeds(r) \/ LoginIsUndecided(r)
    \/ Tick
    \/ Restart

Spec == Init /\ [][Next]_vars

-----------------------------------------------------------------------------
(* Properties                                                              *)

\* A list of attempts is in the order of time, and none is of the future.
InOrder(stamps) ==
    /\ stamps \in Seq(0 .. clock)
    /\ \A i, j \in DOMAIN stamps : i <= j => stamps[i] <= stamps[j]

\* The local variables of a request.
Request ==
    {q \in [pc : {"idle", "admitted", "slice", "assign", "refused"},
            login : Logins \cup {NoLogin}, index : Nat, kept : Seq(Nat)] :
        /\ q.pc = "idle" <=> q.login = NoLogin
        /\ q.pc \in {"slice", "assign"} => q.index > 0}

\* The types of the state, and the order of the lists.
TypeOK ==
    /\ clock \in 0 .. MaxTime
    /\ attempts \in [Logins -> Seq(Nat)] /\ failed \in [Logins -> Seq(Nat)]
    /\ \A l \in Logins : InOrder(attempts[l]) /\ InOrder(failed[l])
    /\ request \in [Requests -> Request]
    /\ \A r \in Requests : InOrder(request[r].kept)
    /\ restarts \in 0 .. MaxRestarts
    /\ disturbed \subseteq Logins

\* How many requests for login l are past the check and before the record.
Admitted(l) == Cardinality({r \in Requests : request[r].pc = "admitted" /\ request[r].login = l})

\* The check is made before the slow comparison of the password and the record
\* after it, so requests sent at once all pass the check.  However they are
\* interleaved, the failures of the last three minutes and the tries still under
\* way are never more than two and one for each request (rest/auth.go:39-68).
TriesAreBounded ==
    \A l \in Logins \ disturbed :
        LoginAttemptsSince(failed[l], clock) + Admitted(l) <= Limit - 1 + Cardinality(Requests)

-----------------------------------------------------------------------------
(* Refinement                                                              *)

Status(pc) ==
    CASE pc = "idle" -> "none"
      [] pc = "admitted" -> "admitted"
      [] OTHER -> "refused"

Promise == INSTANCE LoginLimit WITH
    failures <- failed,
    tries <- [r \in Requests |-> [status |-> Status(request[r].pc), login |-> request[r].login]]

\* The list that is trimmed decides as the full history of failures does: a login
\* is refused if and only if it has failed three times in three minutes since it
\* last succeeded, whatever the check forgets (rest/login/attempt.go:42-46).
KeepsPromise == Promise!Spec

-----------------------------------------------------------------------------
(* What makes the invariants inductive                                     *)

\* A list is the end of the list of all failures, and long enough to decide like it.
IsEndOf(stamps, all) ==
    /\ Len(stamps) <= Len(all)
    /\ Len(stamps) = Len(all) \/ Len(stamps) >= Limit
    /\ \A i \in DOMAIN stamps : stamps[i] = all[i + (Len(all) - Len(stamps))]

\* The attempts that are kept are the last failures.
ListsAgree == \A l \in Logins \ disturbed : IsEndOf(attempts[l], failed[l])

\* What a request has measured, and what it has cut off, is of the list as it is.
IsCurrent(q) ==
    q.pc \in {"slice", "assign"} /\ q.login \notin disturbed =>
        /\ q.index = Len(attempts[q.login]) - Limit
        /\ q.pc = "assign" => q.kept = KeepLast(attempts[q.login], q.index)

MeasuredIsCurrent == \A r \in Requests : IsCurrent(request[r])

Strengthenings == ListsAgree /\ MeasuredIsCurrent
=============================================================================
