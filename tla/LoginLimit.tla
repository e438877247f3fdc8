----------------------------- MODULE LoginLimit -----------------------------
(***************************************************************************)
(* What the limit on failed logins promises, without saying how it is      *)
(* kept: a login is refused if and only if it has failed Limit times in    *)
(* the last Window units of time since it last succeeded.  Requests that   *)
(* are answered neither way (an error, a second factor that is asked for)  *)
(* count neither as a failure nor as a success.                            *)
(*                                                                         *)
(* LoginAttempts implements this.  One weakness of the code is part of the *)
(* promise: a login that fails, succeeds or is refused in the instant in   *)
(* which another request for it is refused may be miscounted (disturbed)   *)
(* until it next succeeds.                                                 *)
(***************************************************************************)
EXTENDS Naturals, Sequences, FiniteSets

CONSTANTS Logins, Requests, Limit, Window, NoLogin

VARIABLES
    clock,
    failures,   \* per login: when it failed since it last succeeded
    tries,      \* per request: "none", "admitted" or "refused", and its login
    disturbed   \* logins that may be miscounted

vars == <<clock, failures, tries, disturbed>>

NoTry == [status |-> "none", login |-> NoLogin]

\* The failures of a list of time stamps that still count at time t.
Recent(stamps, t) == Cardinality({i \in DOMAIN stamps : t - stamps[i] <= Window})

Blocked(l) == Recent(failures[l], clock) >= Limit

Init ==
    /\ clock = 0
    /\ failures = [l \in Logins |-> <<>>]
    /\ tries = [r \in Requests |-> NoTry]
    /\ disturbed = {}

Decide(r, l, status) ==
    /\ tries[r] = NoTry
    /\ tries' = [tries EXCEPT ![r] = [status |-> status, login |-> l]]
    /\ UNCHANGED <<clock, failures, disturbed>>

Admit(r, l) == (~Blocked(l) \/ l \in disturbed) /\ Decide(r, l, "admitted")

Refuse(r, l) == (Blocked(l) \/ l \in disturbed) /\ Decide(r, l, "refused")

Answer(r) == tries' = [tries EXCEPT ![r] = NoTry]

\* A request other than r that is refused for the login of r.
AnotherRefused(r) ==
    \E q \in Requests \ {r} : tries[q] = [status |-> "refused", login |-> tries[r].login]

Fail(r) ==
    LET l == tries[r].login IN
    /\ tries[r].status = "admitted"
    /\ Answer(r)
    /\ failures' = [failures EXCEPT ![l] = Append(@, clock)]
    /\ \/ UNCHANGED disturbed
       \/ AnotherRefused(r) /\ disturbed' = disturbed \cup {l}
    /\ UNCHANGED clock

Succeed(r) ==
    LET l == tries[r].login IN
    /\ tries[r].status = "admitted"
    /\ Answer(r)
    /\ failures' = [failures EXCEPT ![l] = <<>>]
    /\ \/ disturbed' = disturbed \ {l}
       \/ AnotherRefused(r) /\ disturbed' = disturbed \cup {l}
    /\ UNCHANGED clock

\* Refused, or neither a failure nor a success.
Return(r) ==
    /\ tries[r].status # "none"
    /\ Answer(r)
    /\ \/ UNCHANGED disturbed
       \/ /\ tries[r].status = "refused" /\ AnotherRefused(r)
          /\ disturbed' = disturbed \cup {tries[r].login}
    /\ UNCHANGED <<clock, failures>>

Tick ==
    /\ clock' = clock + 1
    /\ UNCHANGED <<failures, tries, disturbed>>

\* The failures are only in memory.
Restart ==
    /\ failures' = [l \in Logins |-> <<>>]
    /\ tries' = [r \in Requests |-> NoTry]
    /\ disturbed' = {}
    /\ UNCHANGED clock

Next ==
    \/ \E r \in Requests, l \in Logins : Admit(r, l) \/ Refuse(r, l)
    \/ \E r \in Requests : Fail(r) \/ Succeed(r) \/ Return(r)
    \/ Tick
    \/ Restart

Spec == Init /\ [][Next]_vars
=============================================================================
