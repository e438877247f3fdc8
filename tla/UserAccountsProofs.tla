------------------------- MODULE UserAccountsProofs -------------------------
(* Theorems about UserAccounts, for any logins, passwords and requests, any   *)
(* licence and any number of users, crashes and failed writes: users keep     *)
(* their identity, their password and their suspension, whatever copies of    *)
(* them are written back late, and an answered deletion is final.             *)
EXTENDS UserAccounts, SequenceTheorems, FiniteSetTheorems, WellFoundedInduction, TLAPS

-----------------------------------------------------------------------------
(* A set of numbers has a least one.  The induction is over a set, the       *)
(* initial segments up to its numbers ordered by inclusion, and not over a   *)
(* formula: the order is one that the library proves well-founded.           *)

\* The least of a set of numbers, which FiniteSetsExt chooses.
LEMMA HasLeast ==
    ASSUME NEW I, I \subseteq Nat, I # {}
    PROVE  Min(I) \in I /\ \A i \in I : Min(I) <= i
<1> DEFINE R == StrictSubsetOrdering(Nat)
           T == {0 .. i : i \in I}
<1>1. T \subseteq FiniteSubsetsOf(Nat)
  <2>1. \A i \in Nat : IsFiniteSet(0 .. i)
    BY FS_Interval
  <2>2. \A i \in Nat : 0 .. i \subseteq Nat
    OBVIOUS
  <2> QED BY <2>1, <2>2 DEF FiniteSubsetsOf
<1>2. T # {}
  OBVIOUS
<1>3. PICK X \in T : \A Y \in T : <<Y, X>> \notin R
  <2> HIDE DEF T, R
  <2>1. IsWellFoundedOn(R, FiniteSubsetsOf(Nat))
    BY FS_StrictSubsetOrderingWellFounded DEF R
  <2> QED BY <1>1, <1>2, <2>1, WFMin
<1>4. PICK x \in I : X = 0 .. x
  BY <1>3
<1>5. \A y \in I : x <= y
  <2> SUFFICES ASSUME NEW y \in I, y < x PROVE FALSE
    BY <1>4
  <2>1. 0 .. y \subseteq 0 .. x /\ 0 .. y # 0 .. x
    <3>1. x \in 0 .. x /\ x \notin 0 .. y
      OBVIOUS
    <3> QED BY <3>1
  <2>2. <<0 .. y, X>> \notin R
    BY <1>3
  <2> QED BY <1>4, <2>1, <2>2 DEF StrictSubsetOrdering
<1> QED BY <1>5 DEF Min

\* SelectInSeq, once its test is a set of positions: the first of them, 0 if there is none.
LEMMA FirstPosition ==
    ASSUME NEW I, I \subseteq Nat
    PROVE  LET k == IF I # {} THEN Min(I) ELSE 0 IN
           \/ k = 0 /\ I = {}
           \/ k \in I /\ \A i \in I : k <= i
BY HasLeast

-----------------------------------------------------------------------------
(* Lists that change.                                                       *)

\* An element taken out: the ones behind it move up.
LEMMA Removed ==
    ASSUME NEW S, NEW s \in Seq(S), NEW k \in 1 .. Len(s)
    PROVE  /\ RemoveAt(s, k) \in Seq(S)
           /\ Len(RemoveAt(s, k)) = Len(s) - 1
           /\ \A i \in 1 .. Len(s) - 1 : RemoveAt(s, k)[i] = IF i < k THEN s[i] ELSE s[i + 1]
<1> DEFINE before == SubSeq(s, 1, k - 1)
           after == SubSeq(s, k + 1, Len(s))
<1>1. /\ before \in Seq(S) /\ Len(before) = k - 1
      /\ \A i \in 1 .. k - 1 : before[i] = s[i]
  BY SubSeqProperties
<1>2. /\ after \in Seq(S) /\ Len(after) = Len(s) - k
      /\ \A i \in 1 .. Len(s) - k : after[i] = s[k + i]
  BY SubSeqProperties
<1>3. RemoveAt(s, k) = before \o after
  BY DEF RemoveAt
<1> HIDE DEF before, after
<1>4. /\ before \o after \in Seq(S) /\ Len(before \o after) = Len(before) + Len(after)
      /\ \A i \in 1 .. Len(before) + Len(after) :
           (before \o after)[i] = IF i <= Len(before) THEN before[i] ELSE after[i - Len(before)]
  BY <1>1, <1>2, ConcatProperties
<1> DEFINE rest == before \o after
<1> HIDE DEF rest
<1>5. rest \in Seq(S) /\ Len(rest) = Len(s) - 1
  BY <1>1, <1>2, <1>4 DEF rest
<1>6. \A i \in 1 .. Len(s) - 1 : rest[i] = IF i < k THEN s[i] ELSE s[i + 1]
  <2> TAKE i \in 1 .. Len(s) - 1
  <2>1. rest[i] = IF i <= k - 1 THEN before[i] ELSE after[i - (k - 1)]
    BY <1>1, <1>2, <1>4 DEF rest
  <2>2. CASE i < k
    BY <1>1, <2>1, <2>2
  <2>3. CASE ~(i < k)
    <3>1. i - (k - 1) \in 1 .. Len(s) - k /\ k + (i - (k - 1)) = i + 1
      BY <2>3
    <3>2. rest[i] = after[i - (k - 1)]
      BY <2>1, <2>3
    <3> QED BY <1>2, <2>3, <3>1, <3>2
  <2> QED BY <2>2, <2>3
<1> QED BY <1>3, <1>5, <1>6 DEF rest

\* An element replaced.
LEMMA Replaced ==
    ASSUME NEW S, NEW s \in Seq(S), NEW k \in 1 .. Len(s), NEW e \in S
    PROVE  /\ ReplaceAt(s, k, e) \in Seq(S)
           /\ Len(ReplaceAt(s, k, e)) = Len(s)
           /\ \A i \in 1 .. Len(s) : ReplaceAt(s, k, e)[i] = IF i = k THEN e ELSE s[i]
BY DEF ReplaceAt

\* An element replaced, in the notation of functions.
LEMMA ReplacedInPlace ==
    ASSUME NEW S, NEW s \in Seq(S), NEW k \in 1 .. Len(s), NEW e \in S
    PROVE  /\ [s EXCEPT ![k] = e] \in Seq(S)
           /\ Len([s EXCEPT ![k] = e]) = Len(s)
           /\ \A i \in 1 .. Len(s) : [s EXCEPT ![k] = e][i] = IF i = k THEN e ELSE s[i]
OBVIOUS

\* An element added.
LEMMA Appended ==
    ASSUME NEW S, NEW s \in Seq(S), NEW e \in S
    PROVE  /\ Append(s, e) \in Seq(S)
           /\ Len(Append(s, e)) = Len(s) + 1
           /\ \A i \in 1 .. Len(s) + 1 : Append(s, e)[i] = IF i = Len(s) + 1 THEN e ELSE s[i]
OBVIOUS

-----------------------------------------------------------------------------
(* Users and requests.                                                     *)

\* The parts of a user.
LEMMA UserParts ==
    ASSUME NEW u \in User
    PROVE  /\ u.id \in IDs /\ u.login \in Logins
           /\ u.password \in Passwords \cup {NoPassword} /\ u.suspended \in BOOLEAN
BY DEF User

\* The parts of a request.
LEMMA RequestParts ==
    ASSUME NEW q \in Request
    PROVE  /\ q.pc \in {"idle", "append", "update", "patch", "put", "delete", "locate",
                        "hash", "save"}
           /\ q.user \in User \cup {NoUser} /\ q.password \in Passwords \cup {NoPassword}
           /\ q.index \in Nat /\ q.deletes \subseteq IDs
           /\ q.pc \notin {"idle", "save"} => q.user \in User
           /\ q.pc = "save" /\ q.password # NoPassword => q.user \in User
           /\ q.pc = "hash" => q.index > 0
           /\ q.pc # "save" => q.deletes = {}
BY DEF Request

\* A request that has not begun or is answered, and one that only has to save.
LEMMA EmptyRequests ==
    /\ Idle \in Request /\ Idle.pc = "idle" /\ Idle.user = NoUser /\ Idle.deletes = {}
    /\ Idle.shifted = FALSE
    /\ Saving \in Request /\ Saving.pc = "save" /\ Saving.user = NoUser /\ Saving.deletes = {}
<1>1. Idle \in Request
  BY DEF Idle, Request
<1>2. Saving \in Request
  BY DEF Idle, Saving, Request
<1> QED BY <1>1, <1>2 DEF Idle, Saving

\* What the types say.
LEMMA TypeFacts ==
    ASSUME TypeOK
    PROVE  /\ users \in Seq(User) /\ Len(users) \in Nat
           /\ \A i \in 1 .. Len(users) : users[i] \in User
           /\ \A r \in Requests : request[r] \in Request
           /\ nextID \in Nat
BY Bounds DEF TypeOK

-----------------------------------------------------------------------------
(* The loops over the slice.                                               *)

\* The first user with a login.
LEMMA LoginIndex ==
    ASSUME TypeOK, NEW l
    PROVE  \/ IndexOfLogin(l) = 0 /\ \A i \in 1 .. Len(users) : users[i].login # l
           \/ IndexOfLogin(l) \in 1 .. Len(users) /\ users[IndexOfLogin(l)].login = l
<1> DEFINE I == {i \in 1 .. Len(users) : users[i].login = l}
<1>1. IndexOfLogin(l) = IF I # {} THEN Min(I) ELSE 0
  BY DEF IndexOfLogin, SelectInSeq
<1>2. I \subseteq Nat /\ I \subseteq 1 .. Len(users) /\ \A i \in I : users[i].login = l
  BY TypeFacts
<1>3. I = {} => \A i \in 1 .. Len(users) : users[i].login # l
  OBVIOUS
<1> HIDE DEF I
<1> QED BY <1>1, <1>2, <1>3, FirstPosition

\* The first user with an id.
LEMMA IDIndex ==
    ASSUME TypeOK, NEW id
    PROVE  \/ IndexOfID(id) = 0 /\ \A i \in 1 .. Len(users) : users[i].id # id
           \/ IndexOfID(id) \in 1 .. Len(users) /\ users[IndexOfID(id)].id = id
<1> DEFINE I == {i \in 1 .. Len(users) : users[i].id = id}
<1>1. IndexOfID(id) = IF I # {} THEN Min(I) ELSE 0
  BY DEF IndexOfID, SelectInSeq
<1>2. I \subseteq Nat /\ I \subseteq 1 .. Len(users) /\ \A i \in I : users[i].id = id
  BY TypeFacts
<1>3. I = {} => \A i \in 1 .. Len(users) : users[i].id # id
  OBVIOUS
<1> HIDE DEF I
<1> QED BY <1>1, <1>2, <1>3, FirstPosition

\* The password of a login in a list: that of its first user.
LEMMA PasswordOfLogin ==
    ASSUME NEW list \in Seq(User), NEW l \in Logins
    PROVE  LET p == PasswordsIn(list)[l] IN
           \/ p = NoPassword /\ \A i \in 1 .. Len(list) : list[i].login # l
           \/ \E i \in 1 .. Len(list) : list[i].login = l /\ p = list[i].password
<1> DEFINE I == {i \in 1 .. Len(list) : list[i].login = l}
           k == IF I # {} THEN Min(I) ELSE 0
           p == PasswordsIn(list)[l]
<1>1. p = IF k = 0 THEN NoPassword ELSE list[k].password
  BY DEF PasswordsIn, SelectInSeq
<1>2. I \subseteq Nat /\ I \subseteq 1 .. Len(list) /\ \A i \in I : list[i].login = l
  OBVIOUS
<1>3. I = {} => \A i \in 1 .. Len(list) : list[i].login # l
  OBVIOUS
<1>4. (k = 0 /\ I = {}) \/ k \in I
  <2> HIDE DEF I
  <2> QED BY <1>2, FirstPosition
<1>5. 0 \notin I
  OBVIOUS
<1> HIDE DEF I, k, p
<1>6. \/ p = NoPassword /\ \A i \in 1 .. Len(list) : list[i].login # l
      \/ \E i \in 1 .. Len(list) : list[i].login = l /\ p = list[i].password
  BY <1>1, <1>2, <1>3, <1>4, <1>5
<1> QED BY <1>6 DEF p

-----------------------------------------------------------------------------
(* What the steps do.                                                      *)

\* A request that keeps a copy of a user.
IsCopy(q, u) ==
    /\ q.pc \in {"update", "patch", "put", "delete", "locate", "hash"} /\ q.deletes = {}
    /\ q.user.id = u.id /\ q.user.login = u.login /\ q.user.suspended = u.suspended

\* A user is copied.
LEMMA CopyStep ==
    ASSUME TypeOK, NEW r \in Requests, NEW i \in 1 .. Len(users),
           \/ LocalLogin(r, i) \/ ChangeFactor(r, i)
           \/ \E pc \in {"patch", "put", "delete"} : BeginEdit(r, i, pc)
           \/ \E p \in Passwords : ChangePassword(r, i, p)
    PROVE  /\ UNCHANGED unchangedByCopy /\ running /\ request[r].pc = "idle"
           /\ \E q \in Request : IsCopy(q, users[i]) /\ request' = [request EXCEPT ![r] = q]
                                 /\ q.pc # "hash"
<1> DEFINE u == users[i]
           Goal == /\ UNCHANGED unchangedByCopy /\ running /\ request[r].pc = "idle"
                   /\ \E q \in Request : IsCopy(q, u) /\ request' = [request EXCEPT ![r] = q]
                                         /\ q.pc # "hash"
<1>0. u \in User
  BY TypeFacts
<1>1. CASE LocalLogin(r, i) \/ ChangeFactor(r, i)
  <2> DEFINE q == [Idle EXCEPT !.pc = "update", !.user = u]
  <2>1. request' = [request EXCEPT ![r] = q]
    BY <1>1 DEF LocalLogin, ChangeFactor, Copy, Continue
  <2>2. q \in Request /\ IsCopy(q, u) /\ q.pc # "hash"
    <3> HIDE DEF u
    <3> QED BY <1>0, Sentinels DEF Idle, Request, IsCopy
  <2>3. UNCHANGED unchangedByCopy /\ running /\ request[r].pc = "idle"
    BY <1>1 DEF LocalLogin, ChangeFactor, CanStart
  <2> HIDE DEF q
  <2> QED BY <2>1, <2>2, <2>3
<1>2. ASSUME NEW pc \in {"patch", "put", "delete"}, BeginEdit(r, i, pc) PROVE Goal
  <2> DEFINE v == [u EXCEPT !.password = NoPassword]
             q == [Idle EXCEPT !.pc = pc, !.user = v]
  <2>1. request' = [request EXCEPT ![r] = q]
    BY <1>2 DEF BeginEdit, Copy, Continue
  <2>2. v \in User /\ v.id = u.id /\ v.login = u.login /\ v.suspended = u.suspended
    BY <1>0 DEF User
  <2>3. q \in Request /\ IsCopy(q, u) /\ q.pc # "hash"
    <3> HIDE DEF u, v
    <3> QED BY <2>2, Sentinels DEF Idle, Request, IsCopy
  <2>4. UNCHANGED unchangedByCopy /\ running /\ request[r].pc = "idle"
    BY <1>2 DEF BeginEdit, CanStart
  <2> HIDE DEF q
  <2> QED BY <2>1, <2>3, <2>4
<1>3. ASSUME NEW p \in Passwords, ChangePassword(r, i, p) PROVE Goal
  <2> DEFINE q == [Idle EXCEPT !.pc = "locate", !.user = u, !.password = p]
  <2>1. request' = [request EXCEPT ![r] = q]
    BY <1>3 DEF ChangePassword, Continue
  <2>2. q \in Request /\ IsCopy(q, u) /\ q.pc # "hash"
    <3> HIDE DEF u
    <3> QED BY <1>0, Sentinels DEF Idle, Request, IsCopy
  <2>3. UNCHANGED unchangedByCopy /\ running /\ request[r].pc = "idle"
    BY <1>3 DEF ChangePassword, CanStart
  <2> HIDE DEF q
  <2> QED BY <2>1, <2>2, <2>3
<1> QED BY <1>1, <1>2, <1>3

\* The user of an external login is copied.
LEMMA ExternalLoginStep ==
    ASSUME TypeOK, NEW r \in Requests, NEW l \in Logins, ExternalLogin(r, l)
    PROVE  /\ UNCHANGED unchangedByCopy /\ running /\ request[r].pc = "idle"
           /\ \E i \in 1 .. Len(users), q \in Request :
                IsCopy(q, users[i]) /\ request' = [request EXCEPT ![r] = q] /\ q.pc # "hash"
<1> DEFINE i == IndexOfLogin(l)
           q == [Idle EXCEPT !.pc = "update", !.user = users[i]]
<1>1. i \in 1 .. Len(users)
  BY LoginIndex DEF ExternalLogin, LoginExists
<1>2. request' = [request EXCEPT ![r] = q]
  BY DEF ExternalLogin, Copy, Continue
<1>3. UNCHANGED unchangedByCopy /\ running /\ request[r].pc = "idle"
  BY DEF ExternalLogin, CanStart
<1>4. users[i] \in User
  BY <1>1, TypeFacts
<1> HIDE DEF i
<1>5. q \in Request /\ IsCopy(q, users[i]) /\ q.pc # "hash"
  BY <1>4, Sentinels DEF Idle, Request, IsCopy
<1> HIDE DEF q
<1> QED BY <1>1, <1>2, <1>3, <1>5

\* The index of the user is found, or the user is gone.
LEMMA LocateStep ==
    ASSUME TypeOK, NEW r \in Requests, LocatePassword(r)
    PROVE  /\ UNCHANGED unchangedByCopy /\ request[r].pc = "locate"
           /\ \/ request' = [request EXCEPT ![r] = Idle]
              \/ \E i \in 1 .. Len(users), q \in Request :
                   /\ IsCopy(q, users[i]) /\ request' = [request EXCEPT ![r] = q]
                   /\ q.pc = "hash" /\ q.index = i
<1> DEFINE i == IndexOfID(request[r].user.id)
           q == [request[r] EXCEPT !.pc = "hash", !.index = i, !.user = users[i]]
<1>1. UNCHANGED unchangedByCopy /\ request[r].pc = "locate" /\ request[r] \in Request
  BY TypeFacts DEF LocatePassword
<1>2. CASE i = 0
  BY <1>1, <1>2 DEF LocatePassword, Return
<1>3. CASE i # 0
  <2>1. request' = [request EXCEPT ![r] = q]
    BY <1>3 DEF LocatePassword, Continue
  <2>2. i \in 1 .. Len(users)
    BY <1>3, IDIndex
  <2>3. users[i] \in User
    BY <2>2, TypeFacts
  <2> HIDE DEF i
  <2>4. q \in Request
    <3>1. i \in Nat /\ i > 0 /\ users[i] \in User /\ users[i] # NoUser
      BY <2>2, <2>3, TypeFacts, Sentinels
    <3> QED BY <1>1, <3>1 DEF Request
  <2>5. /\ q.pc = "hash" /\ q.index = i /\ q.user = users[i] /\ q.deletes = request[r].deletes
        /\ request[r].deletes = {}
    <3>1. request[r].deletes = {}
      BY <1>1, RequestParts
    <3> QED BY <1>1, <3>1 DEF Request
  <2> HIDE DEF q
  <2> QED BY <1>1, <2>1, <2>2, <2>4, <2>5 DEF IsCopy
<1> QED BY <1>2, <1>3

\* A user that is created.
LEMMA NewUserParts ==
    ASSUME TypeOK, NEW r \in Requests, NEW l \in Logins, NEW p \in Passwords \cup {NoPassword},
           CanAdd(r, l)
    PROVE  LET u == NewUser(l, p) IN
           /\ u \in User /\ u.id = nextID /\ u.login = l /\ u.password = p /\ u.suspended = FALSE
           /\ nextID \in IDs /\ running /\ request[r].pc = "idle"
           /\ \A i \in 1 .. Len(users) : users[i].login # l
<1>1. nextID \in IDs /\ running /\ request[r].pc = "idle"
  BY DEF CanAdd, CanStart
<1>2. \A i \in 1 .. Len(users) : users[i].login # l
  BY LoginIndex DEF CanAdd, LoginExists
<1> QED BY <1>1, <1>2 DEF NewUser, User

\* A user that will be appended when its password is hashed.
LEMMA NewUserStep ==
    ASSUME TypeOK, NEW r \in Requests, NEW l \in Logins, NEW p \in Passwords,
           RestAddUser(r, l, p)
    PROVE  \E q \in Request :
             /\ q.pc = "append" /\ q.deletes = {} /\ q.user = NewUser(l, p)
             /\ request' = [request EXCEPT ![r] = q]
<1> DEFINE u == NewUser(l, p)
           q == [Idle EXCEPT !.pc = "append", !.user = u]
<1>1. u \in User
  BY NewUserParts DEF RestAddUser
<1>2. request' = [request EXCEPT ![r] = q]
  BY DEF RestAddUser, Continue
<1> HIDE DEF u
<1>3. q \in Request /\ q.pc = "append" /\ q.deletes = {} /\ q.user = u
  BY <1>1, Sentinels DEF Idle, Request
<1> HIDE DEF q
<1> QED BY <1>2, <1>3 DEF u

\* A user that is replaced in the list.
LEMMA UserReplaced ==
    ASSUME users \in Seq(User), NEW k \in 1 .. Len(users), NEW w \in User,
           users' = ReplaceAt(users, k, w)
    PROVE  /\ Len(users') = Len(users)
           /\ \A i \in 1 .. Len(users) : users'[i] = IF i = k THEN w ELSE users[i]
BY DEF ReplaceAt

\* UpdateUser: nobody has the login, or one who has it gets everything but the password.
LEMMA UpdateStep ==
    ASSUME TypeOK, NEW r \in Requests, NEW user \in User,
           NEW p \in Passwords \cup {NoPassword}, UpdateUser(r, user, p)
    PROVE  \/ /\ request' = [request EXCEPT ![r] = Idle] /\ users' = users
              /\ \A i \in 1 .. Len(users) : users[i].login # user.login
           \/ \E k \in 1 .. Len(users), w \in User, q \in Request :
                /\ users' = ReplaceAt(users, k, w) /\ users[k].login = user.login
                /\ w.id = user.id /\ w.login = user.login /\ w.suspended = user.suspended
                /\ w.password = users[k].password
                /\ request' = [request EXCEPT ![r] = q]
                /\ q.pc = "save" /\ q.deletes = {} /\ q.user \in {user, NoUser}
<1> DEFINE k == IndexOfLogin(user.login)
           w == WrittenBack(user, users[k])
           q == IF p = NoPassword THEN Saving
                ELSE [Saving EXCEPT !.password = p, !.user = user]
<1>1. CASE k = 0
  <2>1. request' = [request EXCEPT ![r] = Idle] /\ users' = users
    BY <1>1 DEF UpdateUser, Return
  <2>2. \A i \in 1 .. Len(users) : users[i].login # user.login
    <3>1. \/ k = 0 /\ \A i \in 1 .. Len(users) : users[i].login # user.login
          \/ k \in 1 .. Len(users)
      BY LoginIndex
    <3> HIDE DEF k
    <3> QED BY <1>1, <3>1
  <2> QED BY <2>1, <2>2
<1>2. CASE k # 0
  <2>1. k \in 1 .. Len(users) /\ users[k].login = user.login
    BY <1>2, LoginIndex
  <2>2. users' = ReplaceAt(users, k, w) /\ request' = [request EXCEPT ![r] = q]
    BY <1>2 DEF UpdateUser, Continue
  <2> HIDE DEF k
  <2>3. users[k] \in User
    BY <2>1, TypeFacts
  <2>4. /\ w \in User /\ w.id = user.id /\ w.login = user.login
        /\ w.suspended = user.suspended /\ w.password = users[k].password
    BY <2>3 DEF WrittenBack, User
  <2>5. q \in Request /\ q.pc = "save" /\ q.deletes = {} /\ q.user \in {user, NoUser}
    <3>1. CASE p = NoPassword
      BY <3>1, EmptyRequests
    <3>2. CASE p # NoPassword
      BY <3>2, Sentinels DEF Saving, Idle, Request
    <3> QED BY <3>1, <3>2
  <2> HIDE DEF w, q
  <2> QED BY <2>1, <2>2, <2>4, <2>5
<1> QED BY <1>1, <1>2

\* DeleteUserByID: nobody has the id, or one who has it is taken out.
LEMMA DeleteStep ==
    ASSUME TypeOK, NEW r \in Requests, NEW id \in IDs, DeleteUserByID(r, id)
    PROVE  \/ request' = [request EXCEPT ![r] = Idle] /\ users' = users
           \/ \E k \in 1 .. Len(users) :
                /\ users' = RemoveAt(users, k) /\ users[k].id = id
                /\ request' \in [Requests -> Request]
                /\ request'[r].pc = "save" /\ request'[r].user = NoUser
                /\ request'[r].deletes = {id}
                /\ \A x \in Requests \ {r} :
                     /\ request'[x].pc = request[x].pc /\ request'[x].user = request[x].user
                     /\ request'[x].index = request[x].index
                     /\ request'[x].deletes = request[x].deletes
                     /\ request[x].pc = "hash" /\ ~request'[x].shifted =>
                          ~request[x].shifted /\ request[x].index < k
<1> DEFINE k == IndexOfID(id)
<1>1. CASE k = 0
  BY <1>1 DEF DeleteUserByID, Return
<1>2. CASE k # 0
  <2> DEFINE s == [Saving EXCEPT !.deletes = {id}]
             moved(x) == request[x].pc = "hash" /\ request[x].index >= k
             other(x) == IF moved(x) THEN [request[x] EXCEPT !.shifted = TRUE] ELSE request[x]
  <2>1. k \in 1 .. Len(users) /\ users[k].id = id
    BY <1>2, IDIndex
  <2>2. users' = RemoveAt(users, k)
    BY <1>2 DEF DeleteUserByID
  <2>3. request' = [x \in Requests |-> IF x = r THEN s ELSE other(x)]
    BY <1>2 DEF DeleteUserByID
  <2>4. s \in Request /\ s.pc = "save" /\ s.user = NoUser /\ s.deletes = {id}
    BY DEF Saving, Idle, Request
  <2>5. ASSUME NEW x \in Requests
        PROVE  /\ other(x) \in Request
               /\ other(x).pc = request[x].pc /\ other(x).user = request[x].user
               /\ other(x).index = request[x].index /\ other(x).deletes = request[x].deletes
               /\ request[x].pc = "hash" /\ ~other(x).shifted =>
                    ~request[x].shifted /\ request[x].index < k
    <3> HIDE DEF k
    <3>1. request[x] \in Request /\ k \in Nat /\ request[x].index \in Nat
      BY <2>1, TypeFacts, RequestParts
    <3>2. CASE moved(x)
      <4> DEFINE m == [request[x] EXCEPT !.shifted = TRUE]
      <4>1. m \in Request /\ m.shifted
        BY <3>1 DEF Request
      <4>2. /\ m.pc = request[x].pc /\ m.user = request[x].user
            /\ m.index = request[x].index /\ m.deletes = request[x].deletes
        BY <3>1 DEF Request
      <4>3. other(x) = m
        BY <3>2
      <4> HIDE DEF other, m
      <4> QED BY <4>1, <4>2, <4>3
    <3>3. CASE ~moved(x)
      <4>1. other(x) = request[x] /\ (request[x].pc = "hash" => request[x].index < k)
        BY <3>1, <3>3
      <4> HIDE DEF other
      <4> QED BY <3>1, <4>1
    <3> QED BY <3>2, <3>3
  <2> HIDE DEF k, s, other
  <2>6. request' \in [Requests -> Request]
    BY <2>3, <2>4, <2>5
  <2> QED BY <2>1, <2>2, <2>3, <2>4, <2>5, <2>6
<1> QED BY <1>1, <1>2

\* UpdatePassword writes the password of the user at its index.
LEMMA WriteStep ==
    ASSUME TypeOK, NEW r \in Requests, WritePassword(r), ~(request[r].index > Len(users))
    PROVE  LET k == request[r].index IN
           /\ k \in 1 .. Len(users) /\ request[r].password \in Passwords \cup {NoPassword}
           /\ request' = [request EXCEPT ![r] = Saving]
           /\ \E w \in User :
                /\ users' = [users EXCEPT ![k] = w]
                /\ w.id = users[k].id /\ w.login = users[k].login
                /\ w.suspended = users[k].suspended /\ w.password = request[r].password
<1> DEFINE k == request[r].index
           p == request[r].password
           w == [users[k] EXCEPT !.password = p]
<1>1. request[r] \in Request /\ request[r].pc = "hash"
  BY TypeFacts DEF WritePassword
<1>2. k \in 1 .. Len(users) /\ p \in Passwords \cup {NoPassword}
  BY <1>1, TypeFacts, RequestParts
<1>3. users' = [users EXCEPT ![k] = w]
  BY DEF WritePassword, PasswordWritten
<1>4. request' = [request EXCEPT ![r] = Saving]
  BY DEF WritePassword, PasswordWritten, Continue
<1>5. users[k] \in User
  BY <1>2, TypeFacts
<1> HIDE DEF p, k
<1>6. /\ w \in User /\ w.id = users[k].id /\ w.login = users[k].login
      /\ w.suspended = users[k].suspended /\ w.password = p
  BY <1>2, <1>5 DEF User
<1> HIDE DEF w
<1>7. \E v \in User :
        /\ users' = [users EXCEPT ![k] = v]
        /\ v.id = users[k].id /\ v.login = users[k].login
        /\ v.suspended = users[k].suspended /\ v.password = p
  BY <1>3, <1>6
<1> QED BY <1>2, <1>4, <1>7 DEF k, p

\* What comes after a save.
LEMMA SaveStep ==
    ASSUME TypeOK, NEW r \in Requests, SaveUsers(r)
    PROVE  \E q \in Request :
             /\ request' = [request EXCEPT ![r] = q]
             /\ q.pc \in {"idle", "locate"} /\ q.deletes = {} /\ q.user \in {request[r].user, NoUser}
<1> DEFINE q == AfterSave(r)
<1>1. request' = [request EXCEPT ![r] = q]
  BY DEF SaveUsers, Continue
<1>2. request[r] \in Request /\ request[r].pc = "save"
  BY TypeFacts DEF SaveUsers
<1>3. /\ q \in Request /\ q.pc \in {"idle", "locate"} /\ q.deletes = {}
      /\ q.user \in {request[r].user, NoUser}
  <2>1. CASE request[r].password = NoPassword
    BY <2>1, EmptyRequests DEF AfterSave
  <2>2. CASE request[r].password # NoPassword
    <3>1. request[r].user \in User /\ request[r].password \in Passwords \cup {NoPassword}
      BY <1>2, <2>2, RequestParts
    <3> QED BY <2>2, <3>1, Sentinels DEF AfterSave, Idle, Request
  <2> QED BY <2>1, <2>2
<1> HIDE DEF q
<1> QED BY <1>1, <1>3

\* An edit that has its copy: it changes no user, or updates one with the id and the login
\* of the copy (a new login is one that nobody has).
LEMMA EditStep ==
    ASSUME TypeOK, NEW r \in Requests,
           \/ WriteCopyBack(r)
           \/ \E suspended \in BOOLEAN :
                \/ \E newRole \in BOOLEAN, p \in Passwords \cup {NoPassword} :
                      ApplyPatch(r, suspended, newRole, p)
                \/ \E l \in Logins : ApplyPut(r, suspended, l)
    PROVE  /\ request[r].pc \in {"update", "patch", "put"} /\ request[r].user \in User
           /\ \/ /\ UNCHANGED unchangedByCopy
                 /\ \E q \in Request :
                      /\ request' = [request EXCEPT ![r] = q] /\ q.pc \in {"idle", "locate"}
                      /\ q.deletes = {} /\ q.user \in {request[r].user, NoUser}
              \/ \E user \in User, p \in Passwords \cup {NoPassword} :
                   /\ UpdateUser(r, user, p)
                   /\ (\E i \in 1 .. Len(users) : users[i].login = user.login) =>
                        user.id = request[r].user.id /\ user.login = request[r].user.login
                   /\ \/ /\ request[r].pc = "update" /\ user = request[r].user
                         /\ UNCHANGED suspensionOf
                      \/ SetsSuspension(r, user.login, user.suspended)
<1> DEFINE copy == request[r].user
           Quiet == /\ UNCHANGED unchangedByCopy
                    /\ \E q \in Request :
                         /\ request' = [request EXCEPT ![r] = q] /\ q.pc \in {"idle", "locate"}
                         /\ q.deletes = {} /\ q.user \in {copy, NoUser}
           Updates == \E user \in User, p \in Passwords \cup {NoPassword} :
                        /\ UpdateUser(r, user, p)
                        /\ (\E i \in 1 .. Len(users) : users[i].login = user.login) =>
                             user.id = copy.id /\ user.login = copy.login
                        /\ \/ /\ request[r].pc = "update" /\ user = copy
                              /\ UNCHANGED suspensionOf
                           \/ SetsSuspension(r, user.login, user.suspended)
           Begins == request[r].pc \in {"update", "patch", "put"} /\ copy \in User
<1>0. request[r].pc \in {"update", "patch", "put"} => Begins
  BY TypeFacts, RequestParts
<1>1. ASSUME WriteCopyBack(r) PROVE Begins /\ Updates
  <2>1. request[r].pc = "update" /\ UpdateUser(r, copy, NoPassword) /\ UNCHANGED suspensionOf
    BY <1>1 DEF WriteCopyBack
  <2>2. copy \in User /\ copy = request[r].user /\ NoPassword \in Passwords \cup {NoPassword}
    BY <1>0, <2>1
  <2> HIDE DEF copy
  <2> QED BY <1>0, <2>1, <2>2
<1>2. ASSUME NEW suspended \in BOOLEAN, NEW newRole \in BOOLEAN,
             NEW p \in Passwords \cup {NoPassword}, ApplyPatch(r, suspended, newRole, p)
      PROVE  Begins /\ (Quiet \/ Updates)
  <2>0. Begins
    BY <1>0, <1>2 DEF ApplyPatch
  <2>1. CASE newRole \/ suspended # copy.suspended
    <3> DEFINE user == [copy EXCEPT !.suspended = suspended]
    <3>1. user \in User /\ user.id = copy.id /\ user.login = copy.login /\ user.suspended = suspended
      BY <2>0 DEF User
    <3>2. UpdateUser(r, user, p) /\ SetsSuspension(r, user.login, user.suspended)
      <4>1. UpdateUser(r, user, p) /\ SetsSuspension(r, copy.login, suspended)
        BY <1>2, <2>1 DEF ApplyPatch
      <4> HIDE DEF user
      <4> QED BY <3>1, <4>1
    <3> HIDE DEF user, copy
    <3> QED BY <2>0, <3>1, <3>2
  <2>2. CASE ~(newRole \/ suspended # copy.suspended)
    <3>1. UNCHANGED unchangedByCopy
      BY <1>2, <2>2 DEF ApplyPatch
    <3>2. CASE p = NoPassword
      <4>1. request' = [request EXCEPT ![r] = Idle]
        BY <1>2, <2>2, <3>2 DEF ApplyPatch, Continue
      <4> QED BY <2>0, <3>1, <4>1, EmptyRequests
    <3>3. CASE p # NoPassword
      <4> DEFINE q == [Idle EXCEPT !.pc = "locate", !.user = copy, !.password = p]
      <4>1. request' = [request EXCEPT ![r] = q]
        BY <1>2, <2>2, <3>3 DEF ApplyPatch, Continue
      <4> HIDE DEF copy
      <4>2. q \in Request /\ q.pc = "locate" /\ q.deletes = {} /\ q.user = copy
        BY <2>0, Sentinels DEF Idle, Request
      <4> HIDE DEF q
      <4> QED BY <2>0, <3>1, <4>1, <4>2
    <3> QED BY <3>2, <3>3
  <2> QED BY <2>1, <2>2
<1>3. ASSUME NEW suspended \in BOOLEAN, NEW l \in Logins, ApplyPut(r, suspended, l)
      PROVE  Begins /\ Updates
  <2> DEFINE edited == [copy EXCEPT !.suspended = suspended]
             user == Renamed(edited, l)
  <2>0. Begins
    BY <1>0, <1>3 DEF ApplyPut
  <2>1. UpdateUser(r, user, NoPassword) /\ SetsSuspension(r, user.login, suspended)
    BY <1>3 DEF ApplyPut
  <2>2. edited \in User /\ edited.id = copy.id /\ edited.login = copy.login
        /\ edited.suspended = suspended
    BY <2>0 DEF User
  <2>3. LoginExists(l) \/ \A i \in 1 .. Len(users) : users[i].login # l
    BY LoginIndex DEF LoginExists
  <2> HIDE DEF edited
  <2>4. /\ user \in User /\ user.suspended = suspended
        /\ (\E i \in 1 .. Len(users) : users[i].login = user.login) =>
             user.id = copy.id /\ user.login = copy.login
    <3>1. CASE LoginExists(l)
      BY <2>2, <3>1 DEF Renamed
    <3>2. CASE ~LoginExists(l)
      <4>1. user \in User /\ user.suspended = suspended /\ user.login = l
        BY <2>2, <3>2 DEF Renamed, User
      <4> HIDE DEF user
      <4> QED BY <2>3, <3>2, <4>1
    <3> QED BY <3>1, <3>2
  <2> HIDE DEF user, copy
  <2>5. SetsSuspension(r, user.login, user.suspended)
    BY <2>1, <2>4
  <2> QED BY <2>0, <2>1, <2>4, <2>5
<1> QED BY <1>1, <1>2, <1>3

-----------------------------------------------------------------------------
(* Types.                                                                  *)

\* The first state.
LEMMA InitTypes == Init => TypeOK
<1> SUFFICES ASSUME Init PROVE TypeOK
  OBVIOUS
<1>1. users \in Seq(User) /\ disk \in Seq(User)
  BY DEF Init
<1>2. request \in [Requests -> Request]
  BY EmptyRequests DEF Init
<1>3. nextID \in 1 .. MaxIDs + 1 /\ faults \in 0 .. MaxFaults
  BY Bounds DEF Init
<1>4. /\ idsOf \in [Logins -> SUBSET IDs] /\ lastSet \in [Logins -> Passwords \cup {NoPassword}]
      /\ suspensionOf \in [Logins -> SUBSET BOOLEAN]
  BY DEF Init
<1> QED BY <1>1, <1>2, <1>3, <1>4 DEF Init, TypeOK

\* The suspensions that are set are suspensions.
LEMMA SuspensionTypes ==
    ASSUME TypeOK, NEW r \in Requests, NEW l \in Logins, NEW suspended \in BOOLEAN,
           SetsSuspension(r, l, suspended)
    PROVE  suspensionOf' \in [Logins -> SUBSET BOOLEAN]
<1> DEFINE copies == {q \in Requests \ {r} : request[q].pc = "update" /\ request[q].user.login = l}
           new == {suspended} \cup {request[q].user.suspended : q \in copies}
<1>1. suspensionOf' = [suspensionOf EXCEPT ![l] = new]
  BY DEF SetsSuspension
<1>2. ASSUME NEW q \in copies PROVE request[q].user.suspended \in BOOLEAN
  <2>1. request[q] \in Request /\ request[q].pc = "update"
    BY TypeFacts
  <2> QED BY <2>1, RequestParts, UserParts
<1>3. new \subseteq BOOLEAN
  BY <1>2
<1> HIDE DEF new
<1> QED BY <1>1, <1>3 DEF TypeOK

\* A user is appended.
LEMMA AppendTypes ==
    ASSUME TypeOK, NEW r \in Requests, NEW user \in User, AppendUser(r, user),
           nextID' \in 1 .. MaxIDs + 1
    PROVE  TypeOK'
<1>1. users' \in Seq(User)
  BY TypeFacts DEF AppendUser
<1>2. request' \in [Requests -> Request]
  BY EmptyRequests DEF AppendUser, Continue, TypeOK
<1>3. suspensionOf' \in [Logins -> SUBSET BOOLEAN]
  BY UserParts, SuspensionTypes DEF AppendUser
<1>4. idsOf' \in [Logins -> SUBSET IDs] /\ lastSet' \in [Logins -> Passwords \cup {NoPassword}]
  BY UserParts DEF AppendUser, TypeOK
<1>5. raced' \subseteq Logins
  BY UserParts DEF AppendUser, TypeOK
<1>6. UNCHANGED <<running, disk, faults, saveFailed, misdirected, deleted>>
  BY DEF AppendUser, saveVars
<1> QED BY <1>1, <1>2, <1>3, <1>4, <1>5, <1>6 DEF TypeOK

\* Only the request changes.
LEMMA CopyTypes ==
    ASSUME TypeOK, NEW r \in Requests, NEW q \in Request,
           request' = [request EXCEPT ![r] = q], UNCHANGED unchangedByCopy
    PROVE  TypeOK'
BY DEF TypeOK, unchangedByCopy, saveVars, passwordHistory, creation

\* The users change.
LEMMA UsersTypes ==
    ASSUME TypeOK, users' \in Seq(User), request' \in [Requests -> Request],
           suspensionOf' \in [Logins -> SUBSET BOOLEAN],
           UNCHANGED <<running, saveVars, passwordHistory, creation, deleted>>
    PROVE  TypeOK'
BY DEF TypeOK, saveVars, passwordHistory, creation

\* An edit that has its copy.
LEMMA EditTypes ==
    ASSUME TypeOK, NEW r \in Requests,
           \/ WriteCopyBack(r)
           \/ \E suspended \in BOOLEAN :
                \/ \E newRole \in BOOLEAN, p \in Passwords \cup {NoPassword} :
                      ApplyPatch(r, suspended, newRole, p)
                \/ \E l \in Logins : ApplyPut(r, suspended, l)
    PROVE  TypeOK'
<1>1. CASE \E q \in Request : request' = [request EXCEPT ![r] = q] /\ UNCHANGED unchangedByCopy
  BY <1>1, CopyTypes
<1>2. ASSUME NEW user \in User, NEW p \in Passwords \cup {NoPassword}, UpdateUser(r, user, p),
             UNCHANGED suspensionOf \/ SetsSuspension(r, user.login, user.suspended)
      PROVE  TypeOK'
  <2>1. users' \in Seq(User) /\ request' \in [Requests -> Request]
    <3>1. CASE users' = users /\ request' = [request EXCEPT ![r] = Idle]
      BY <3>1, TypeFacts, EmptyRequests DEF TypeOK
    <3>2. ASSUME NEW k \in 1 .. Len(users), NEW w \in User, NEW q \in Request,
                 users' = ReplaceAt(users, k, w), request' = [request EXCEPT ![r] = q]
          PROVE  users' \in Seq(User) /\ request' \in [Requests -> Request]
      BY <3>2, TypeFacts, Replaced DEF TypeOK
    <3> QED BY <1>2, <3>1, <3>2, UpdateStep
  <2>2. suspensionOf' \in [Logins -> SUBSET BOOLEAN]
    <3>1. user.login \in Logins /\ user.suspended \in BOOLEAN
      BY UserParts
    <3> QED BY <1>2, <3>1, SuspensionTypes DEF TypeOK
  <2>3. UNCHANGED <<running, saveVars, passwordHistory, creation, deleted>>
    BY <1>2 DEF UpdateUser
  <2> QED BY <2>1, <2>2, <2>3, UsersTypes
<1> QED BY <1>1, <1>2, EditStep

\* A user is deleted.
LEMMA DeleteTypes ==
    ASSUME TypeOK, NEW r \in Requests, NEW id \in IDs, DeleteUserByID(r, id)
    PROVE  TypeOK'
<1>1. users' \in Seq(User) /\ request' \in [Requests -> Request]
  <2>1. CASE users' = users /\ request' = [request EXCEPT ![r] = Idle]
    BY <2>1, TypeFacts, EmptyRequests DEF TypeOK
  <2>2. ASSUME NEW k \in 1 .. Len(users), users' = RemoveAt(users, k) PROVE users' \in Seq(User)
    BY <2>2, TypeFacts, Removed
  <2> QED BY <2>1, <2>2, DeleteStep
<1>2. /\ UNCHANGED <<running, saveVars, passwordHistory, creation, deleted>>
      /\ suspensionOf' \in [Logins -> SUBSET BOOLEAN]
  BY DEF DeleteUserByID, TypeOK
<1> QED BY <1>1, <1>2, UsersTypes

\* A password is written.
LEMMA WriteTypes == ASSUME TypeOK, NEW r \in Requests, WritePassword(r) PROVE TypeOK'
<1> DEFINE k == request[r].index
<1>0. UNCHANGED <<running, saveVars, suspensionOf, creation, deleted>>
  BY DEF WritePassword
<1>1. CASE k > Len(users)
  <2>1. users' = users /\ request' = [request EXCEPT ![r] = Idle] /\ UNCHANGED passwordHistory
    BY <1>1 DEF WritePassword, Return
  <2> QED BY <1>0, <2>1, EmptyRequests DEF TypeOK, saveVars, passwordHistory, creation
<1>2. CASE ~(k > Len(users))
  <2>1. /\ k \in 1 .. Len(users) /\ request[r].password \in Passwords \cup {NoPassword}
        /\ request' = [request EXCEPT ![r] = Saving]
        /\ \E w \in User : users' = [users EXCEPT ![k] = w]
    BY <1>2, WriteStep
  <2>2. users' \in Seq(User) /\ request' \in [Requests -> Request]
    BY <2>1, TypeFacts, EmptyRequests, ReplacedInPlace DEF TypeOK
  <2>3. users[k] \in User /\ users[k].login \in Logins
    BY <2>1, TypeFacts, UserParts
  <2>4. misdirected' \subseteq Logins /\ lastSet' \in [Logins -> Passwords \cup {NoPassword}]
    BY <1>2, <2>1, <2>3 DEF WritePassword, TypeOK
  <2> QED BY <1>0, <2>2, <2>4 DEF TypeOK, saveVars, creation
<1> QED BY <1>1, <1>2

\* The file and the process.
LEMMA FileTypes ==
    ASSUME TypeOK,
           \/ \E r \in Requests : SaveUsers(r) \/ SaveUsersFails(r)
           \/ Crash \/ Restart \/ UNCHANGED vars
    PROVE  TypeOK'
<1>1. ASSUME NEW r \in Requests, SaveUsers(r) PROVE TypeOK'
  <2>1. request' \in [Requests -> Request] /\ deleted' \subseteq IDs
    BY <1>1, SaveStep, TypeFacts, RequestParts DEF TypeOK, SaveUsers
  <2> QED BY <1>1, <2>1 DEF SaveUsers, TypeOK, passwordHistory, creation
<1>2. ASSUME NEW r \in Requests, SaveUsersFails(r) PROVE TypeOK'
  <2>1. request' \in [Requests -> Request]
    BY <1>2, EmptyRequests DEF TypeOK, SaveUsersFails, Return
  <2>2. faults' \in 0 .. MaxFaults
    BY <1>2, Bounds DEF TypeOK, SaveUsersFails
  <2> QED BY <1>2, <2>1, <2>2 DEF SaveUsersFails, TypeOK, passwordHistory, creation
<1>3. CASE Crash
  <2>1. request' \in [Requests -> Request] /\ users' \in Seq(User)
    BY <1>3, EmptyRequests DEF Crash
  <2>2. faults' \in 0 .. MaxFaults
    BY <1>3, Bounds DEF TypeOK, Crash, CountCrash
  <2> QED BY <1>3, <2>1, <2>2 DEF Crash, TypeOK, passwordHistory, creation
<1>4. CASE Restart
  <2>1. users' \in Seq(User) /\ disk \in Seq(User) /\ Len(disk) \in Nat
    BY <1>4 DEF Restart, TypeOK
  <2>2. lastSet' \in [Logins -> Passwords \cup {NoPassword}]
    <3>1. lastSet' = PasswordsIn(disk) /\ DOMAIN PasswordsIn(disk) = Logins
      BY <1>4 DEF Restart, PasswordsIn
    <3>2. \A l \in Logins : PasswordsIn(disk)[l] \in Passwords \cup {NoPassword}
      BY <2>1, PasswordOfLogin, UserParts
    <3>3. lastSet' = [l \in Logins |-> PasswordsIn(disk)[l]]
      BY <3>1 DEF PasswordsIn
    <3> QED BY <3>2, <3>3
  <2>3. suspensionOf' \in [Logins -> SUBSET BOOLEAN]
    <3>1. \A k \in 1 .. Len(disk) : disk[k].suspended \in BOOLEAN
      BY <2>1, UserParts
    <3> QED BY <1>4, <3>1 DEF Restart
  <2> QED BY <1>4, <2>1, <2>2, <2>3 DEF Restart, TypeOK, saveVars, creation
<1>5. CASE UNCHANGED vars
  BY <1>5 DEF vars, TypeOK, saveVars, passwordHistory, creation
<1> QED BY <1>1, <1>2, <1>3, <1>4, <1>5

\* Every step keeps the types.
LEMMA NextTypes == TypeOK /\ [Next]_vars => TypeOK'
<1> SUFFICES ASSUME TypeOK, [Next]_vars PROVE TypeOK'
  OBVIOUS
<1>1. ASSUME NEW r \in Requests, AddRequest(r) PROVE TypeOK'
  <2> PICK l \in Logins : \/ \E p \in Passwords : RestAddUser(r, l, p)
                          \/ ScimAddUser(r, l)
                          \/ ExternalAddUser(r, l)
                          \/ ExternalLogin(r, l)
    BY <1>1 DEF AddRequest
  <2>1. ASSUME NEW p \in Passwords, RestAddUser(r, l, p) PROVE TypeOK'
    <3>1. request' \in [Requests -> Request]
      BY <2>1, NewUserStep DEF TypeOK
    <3>2. nextID' \in 1 .. MaxIDs + 1
      <4>1. nextID \in IDs /\ nextID' = nextID + 1
        BY <2>1 DEF RestAddUser, CanAdd
      <4> QED BY <4>1, Bounds DEF IDs
    <3> QED BY <2>1, <3>1, <3>2 DEF RestAddUser, TypeOK, saveVars, passwordHistory
  <2>2. ASSUME ScimAddUser(r, l) \/ ExternalAddUser(r, l) PROVE TypeOK'
    <3> DEFINE u == NewUser(l, NoPassword)
    <3>1. CanAdd(r, l) /\ nextID' = nextID + 1 /\ AppendUser(r, u)
      BY <2>2 DEF ScimAddUser, ExternalAddUser
    <3>2. u \in User
      BY <3>1, NewUserParts
    <3>3. nextID' \in 1 .. MaxIDs + 1
      BY <3>1, Bounds DEF CanAdd, IDs
    <3> HIDE DEF u
    <3> QED BY <3>1, <3>2, <3>3, AppendTypes
  <2>3. ASSUME ExternalLogin(r, l) PROVE TypeOK'
    BY <2>3, ExternalLoginStep, CopyTypes
  <2> QED BY <2>1, <2>2, <2>3
<1>2. ASSUME NEW r \in Requests, UserRequest(r) PROVE TypeOK'
  <2> PICK i \in 1 .. Len(users) :
        \/ LocalLogin(r, i)
        \/ ChangeFactor(r, i)
        \/ \E pc \in {"patch", "put", "delete"} : BeginEdit(r, i, pc)
        \/ RestDeleteUser(r, i)
        \/ \E p \in Passwords : ChangePassword(r, i, p)
    BY <1>2 DEF UserRequest
  <2>1. CASE RestDeleteUser(r, i)
    <3>1. users[i].id \in IDs
      BY TypeFacts, UserParts
    <3> QED BY <2>1, <3>1, DeleteTypes DEF RestDeleteUser
  <2>2. CASE ~RestDeleteUser(r, i)
    BY <2>2, CopyStep, CopyTypes
  <2> QED BY <2>1, <2>2
<1>3. ASSUME NEW r \in Requests, Apply(r) \/ WriteCopyBack(r) PROVE TypeOK'
  BY <1>3, EditTypes DEF Apply
<1>4. ASSUME NEW r \in Requests, RestAppendUser(r) PROVE TypeOK'
  <2>1. request[r].user \in User
    BY <1>4, TypeFacts, RequestParts DEF RestAppendUser
  <2>2. nextID' \in 1 .. MaxIDs + 1
    BY <1>4 DEF RestAppendUser, TypeOK
  <2> QED BY <1>4, <2>1, <2>2, AppendTypes DEF RestAppendUser
<1>5. ASSUME NEW r \in Requests, EditFails(r) PROVE TypeOK'
  BY <1>5, EmptyRequests, CopyTypes DEF EditFails, Return
<1>6. ASSUME NEW r \in Requests, ScimDeleteUser(r) PROVE TypeOK'
  <2>1. request[r].user.id \in IDs
    BY <1>6, TypeFacts, RequestParts, UserParts DEF ScimDeleteUser
  <2> QED BY <1>6, <2>1, DeleteTypes DEF ScimDeleteUser
<1>7. ASSUME NEW r \in Requests, LocatePassword(r) PROVE TypeOK'
  BY <1>7, LocateStep, EmptyRequests, CopyTypes
<1> QED BY <1>1, <1>2, <1>3, <1>4, <1>5, <1>6, <1>7, WriteTypes, FileTypes DEF Next, Proceed

-----------------------------------------------------------------------------
(* Lists of users.                                                         *)

\* More ids and more races do not harm.
LEMMA StaysWellFormed ==
    ASSUME NEW list \in Seq(User), NEW ids, NEW twice, NEW moreIds, NEW moreTwice,
           \A l \in Logins : ids[l] \subseteq moreIds[l], twice \subseteq moreTwice,
           WellFormed(list, ids, twice)
    PROVE  WellFormed(list, moreIds, moreTwice)
<1>1. \A i \in 1 .. Len(list) : list[i].login \in Logins
  BY UserParts
<1> QED BY <1>1 DEF WellFormed, HasTwo

\* A user is added.
LEMMA WellFormedAppended ==
    ASSUME NEW list \in Seq(User), NEW ids, NEW twice, WellFormed(list, ids, twice),
           NEW u \in User, u.id \in ids[u.login],
           \A i \in 1 .. Len(list) : list[i].login = u.login =>
               u.login \in twice /\ HasTwo(ids[u.login])
    PROVE  WellFormed(Append(list, u), ids, twice)
<1> DEFINE e == Append(list, u)
<1>1. /\ Len(e) = Len(list) + 1 /\ Len(list) \in Nat
      /\ \A i \in 1 .. Len(list) + 1 : e[i] = IF i = Len(list) + 1 THEN u ELSE list[i]
  BY Appended
<1> HIDE DEF e
<1>2. ASSUME NEW i \in 1 .. Len(e) PROVE e[i].id \in ids[e[i].login]
  BY <1>1 DEF WellFormed
<1>3. ASSUME NEW i \in 1 .. Len(e), NEW j \in 1 .. Len(e), e[i].login = e[j].login, i # j
      PROVE  e[i].login \in twice /\ HasTwo(ids[e[i].login])
  <2>1. CASE i \in 1 .. Len(list) /\ j \in 1 .. Len(list)
    BY <1>1, <1>3, <2>1 DEF WellFormed
  <2>2. CASE i = Len(list) + 1 /\ j \in 1 .. Len(list)
    BY <1>1, <1>3, <2>2
  <2>3. CASE j = Len(list) + 1 /\ i \in 1 .. Len(list)
    BY <1>1, <1>3, <2>3
  <2> QED BY <1>1, <1>3, <2>1, <2>2, <2>3
<1>4. WellFormed(e, ids, twice)
  BY <1>2, <1>3 DEF WellFormed
<1> QED BY <1>4 DEF e

\* A user is replaced by one with the same login.
LEMMA WellFormedReplaced ==
    ASSUME NEW list \in Seq(User), NEW ids, NEW twice, WellFormed(list, ids, twice),
           NEW k \in 1 .. Len(list), NEW u, u.login = list[k].login, u.id \in ids[u.login],
           NEW new, Len(new) = Len(list),
           \A i \in 1 .. Len(list) : new[i] = IF i = k THEN u ELSE list[i]
    PROVE  WellFormed(new, ids, twice)
<1>1. \A i \in 1 .. Len(list) : new[i].login = list[i].login
  OBVIOUS
<1>2. \A i \in 1 .. Len(list) : new[i].id \in ids[new[i].login]
  BY <1>1 DEF WellFormed
<1>3. \A i, j \in 1 .. Len(list) : new[i].login = new[j].login /\ i # j =>
        new[i].login \in twice /\ HasTwo(ids[new[i].login])
  BY <1>1 DEF WellFormed
<1> QED BY <1>2, <1>3 DEF WellFormed

\* A user is taken out.
LEMMA WellFormedRemoved ==
    ASSUME NEW list \in Seq(User), NEW ids, NEW twice, WellFormed(list, ids, twice),
           NEW k \in 1 .. Len(list)
    PROVE  WellFormed(RemoveAt(list, k), ids, twice)
<1> DEFINE e == RemoveAt(list, k)
           at(i) == IF i < k THEN i ELSE i + 1
<1>1. Len(e) = Len(list) - 1 /\ \A i \in 1 .. Len(e) : e[i] = list[at(i)]
  BY Removed
<1>2. \A i \in 1 .. Len(e) : at(i) \in 1 .. Len(list)
  BY <1>1
<1>3. \A i, j \in 1 .. Len(e) : i # j => at(i) # at(j)
  BY <1>1
<1> HIDE DEF e, at
<1>4. \A i \in 1 .. Len(e) : e[i].id \in ids[e[i].login]
  BY <1>1, <1>2 DEF WellFormed
<1>5. \A i, j \in 1 .. Len(e) : e[i].login = e[j].login /\ i # j =>
        e[i].login \in twice /\ HasTwo(ids[e[i].login])
  BY <1>1, <1>2, <1>3 DEF WellFormed
<1>6. WellFormed(e, ids, twice)
  BY <1>4, <1>5 DEF WellFormed
<1> QED BY <1>6 DEF e

-----------------------------------------------------------------------------
(* The inductive invariant.                                                *)

IInv == TypeOK /\ UsersOnDisk /\ Strengthenings /\ CopiesKeepUsers

\* All of it but the types.
Rest == UsersOnDisk /\ Strengthenings /\ CopiesKeepUsers

\* PasswordIsLastSet and SuspensionIsLastSet of any list.
PasswordsAre(list, except, set) ==
    \A i \in 1 .. Len(list) : list[i].login \notin except => list[i].password = set[list[i].login]

SuspensionsAre(list, except, sets) ==
    \A i \in 1 .. Len(list) :
        list[i].login \notin except => list[i].suspended \in sets[list[i].login]

\* The part of CopiesKeepUsers that speaks of lists: users and the last file.
LEMMA CopiesKeepLists ==
    /\ CopiesKeepUsers <=> /\ PasswordsAre(users, raced \cup misdirected, lastSet)
                           /\ SuspensionsAre(users, raced, suspensionOf)
    /\ CopiesKeepUsers' <=> /\ PasswordsAre(users', raced' \cup misdirected', lastSet')
                            /\ SuspensionsAre(users', raced', suspensionOf')
BY DEF CopiesKeepUsers, PasswordIsLastSet, SuspensionIsLastSet, PasswordsAre, SuspensionsAre

\* The first state.
LEMMA InitRest == Init => Rest
<1> SUFFICES ASSUME Init PROVE Rest
  OBVIOUS
<1>1. Len(users) = 0 /\ Len(disk) = 0 /\ \A i \in 1 .. 0 : FALSE
  BY DEF Init
<1>2. \A r \in Requests : request[r] = Idle
  BY DEF Init
<1>3. Gone = {}
  BY <1>2, EmptyRequests DEF Gone, Init
<1>4. WellFormed(users, idsOf, raced) /\ Without(users, Gone, idsOf)
  BY <1>1 DEF WellFormed, Without
<1>5. FileIsSound
  BY <1>1 DEF FileIsSound, WellFormed, Without
<1>6. IdsAreNew
  BY <1>2, <1>3, EmptyRequests DEF IdsAreNew, Init
<1>7. RequestsAreSound
  BY <1>2, EmptyRequests DEF RequestsAreSound, AppendIsFree, CopyIsOfUser, IndexPoints
<1>8. CopiesKeepUsers
  BY <1>1, CopiesKeepLists DEF PasswordsAre, SuspensionsAre
<1>9. UsersOnDisk /\ NothingWhenDown
  BY DEF UsersOnDisk, NothingWhenDown, Init
<1> QED BY <1>4, <1>5, <1>6, <1>7, <1>8, <1>9 DEF Rest, Strengthenings

\* A request at work means that the process is up.
LEMMA Working ==
    ASSUME IInv, NEW r \in Requests, request[r].pc # "idle"
    PROVE  running
BY EmptyRequests DEF IInv, Strengthenings, NothingWhenDown

\* No ids are created or deleted.
LEMMA IdsStay ==
    ASSUME IInv, UNCHANGED <<idsOf, nextID>>,
           \A id \in Gone' : id \in Gone \/ \E l \in Logins : id \in idsOf[l],
           \A x \in Requests : request'[x].pc = "append" =>
               request[x].pc = "append" /\ request'[x].user = request[x].user
    PROVE  IdsAreNew'
BY DEF IInv, Strengthenings, IdsAreNew

\* A request goes on, and deletes nobody.
LEMMA GoneStays ==
    ASSUME TypeOK, NEW r \in Requests, NEW q \in Request, request' = [request EXCEPT ![r] = q],
           q.deletes = {}, deleted' \subseteq deleted \cup request[r].deletes
    PROVE  Gone' \subseteq Gone
<1>1. \A x \in Requests : request'[x] = IF x = r THEN q ELSE request[x]
  BY DEF TypeOK
<1>2. \A x \in Requests : request'[x].deletes \subseteq request[x].deletes
  BY <1>1
<1> QED BY <1>2 DEF Gone

\* A request that this step is not of.
LEMMA OtherRequests ==
    ASSUME IInv, NEW x \in Requests,
           request'[x].pc = request[x].pc, request'[x].user = request[x].user,
           request'[x].index = request[x].index,
           \A l \in Logins : idsOf[l] \subseteq idsOf'[l], raced \subseteq raced',
           \A i \in 1 .. Len(users') :
               request[x].pc = "append" /\ users'[i].login = request[x].user.login =>
                   \/ users'[i].login \in raced'
                   \/ \E j \in 1 .. Len(users) : users[j].login = users'[i].login,
           request[x].pc = "update" /\ request[x].user.login \notin raced' =>
               request[x].user.suspended \in suspensionOf'[request[x].user.login],
           request[x].pc = "hash" /\ ~request'[x].shifted =>
               /\ ~request[x].shifted
               /\ request[x].index \in 1 .. Len(users) =>
                    /\ request[x].index \in 1 .. Len(users')
                    /\ users'[request[x].index].login = users[request[x].index].login
    PROVE  /\ AppendIsFree(request'[x], users', raced')
           /\ CopyIsOfUser(request'[x], idsOf', raced', suspensionOf')
           /\ IndexPoints(request'[x], users')
<1>0. request[x] \in Request
  BY TypeFacts DEF IInv
<1>1. /\ AppendIsFree(request[x], users, raced)
      /\ CopyIsOfUser(request[x], idsOf, raced, suspensionOf)
      /\ IndexPoints(request[x], users)
  BY DEF IInv, Strengthenings, RequestsAreSound
<1>2. AppendIsFree(request'[x], users', raced')
  BY <1>1 DEF AppendIsFree
<1>3. CopyIsOfUser(request'[x], idsOf', raced', suspensionOf')
  <2>1. request[x].user # NoUser => request[x].user.login \in Logins
    BY <1>0, RequestParts, UserParts
  <2> QED BY <1>1, <2>1 DEF CopyIsOfUser
<1>4. IndexPoints(request'[x], users')
  BY <1>1 DEF IndexPoints
<1> QED BY <1>2, <1>3, <1>4

\* What setting a suspension means for the copies that others hold.
LEMMA SuspensionSet ==
    ASSUME IInv, NEW r \in Requests, NEW l \in Logins, NEW s, SetsSuspension(r, l, s),
           raced \subseteq raced'
    PROVE  /\ s \in suspensionOf'[l]
           /\ \A m \in Logins \ {l} : suspensionOf'[m] = suspensionOf[m]
           /\ \A x \in Requests \ {r} :
                request[x].pc = "update" /\ request[x].user.login \notin raced' =>
                    request[x].user.suspended \in suspensionOf'[request[x].user.login]
<1> DEFINE copies == {x \in Requests \ {r} : request[x].pc = "update" /\ request[x].user.login = l}
           new == {s} \cup {request[x].user.suspended : x \in copies}
<1>1. suspensionOf' = [suspensionOf EXCEPT ![l] = new]
  BY DEF SetsSuspension
<1>2. s \in new /\ \A x \in copies : request[x].user.suspended \in new
  OBVIOUS
<1> HIDE DEF new
<1>3. suspensionOf'[l] = new /\ \A m \in Logins \ {l} : suspensionOf'[m] = suspensionOf[m]
  BY <1>1 DEF IInv, TypeOK
<1>4. ASSUME NEW x \in Requests \ {r}, request[x].pc = "update", request[x].user.login \notin raced'
      PROVE  request[x].user.suspended \in suspensionOf'[request[x].user.login]
  <2>1. request[x].user.login \in Logins
    BY <1>4, TypeFacts, RequestParts, UserParts DEF IInv
  <2>2. CASE request[x].user.login = l
    <3>1. x \in copies
      BY <1>4, <2>2
    <3> QED BY <1>2, <1>3, <2>2, <3>1
  <2>3. CASE request[x].user.login # l
    <3>1. CopyIsOfUser(request[x], idsOf, raced, suspensionOf)
      BY DEF IInv, Strengthenings, RequestsAreSound
    <3> QED BY <1>3, <1>4, <2>1, <2>3, <3>1 DEF CopyIsOfUser
  <2> QED BY <2>2, <2>3
<1> QED BY <1>2, <1>3, <1>4

\* The copies of others, where no suspension is set.
LEMMA SuspensionNotSet ==
    ASSUME IInv, UNCHANGED suspensionOf, raced \subseteq raced'
    PROVE  \A x \in Requests :
             request[x].pc = "update" /\ request[x].user.login \notin raced' =>
                 request[x].user.suspended \in suspensionOf'[request[x].user.login]
BY DEF IInv, Strengthenings, RequestsAreSound, CopyIsOfUser

-----------------------------------------------------------------------------
(* Steps that leave the logins where they are.                             *)

\* What such a step, of a request r that goes on with q, keeps.
LEMMA LoginsStay ==
    ASSUME IInv, NEW r \in Requests, NEW q \in Request, request' = [request EXCEPT ![r] = q],
           q.pc # "append", q.deletes = {}, running,
           UNCHANGED <<running, creation>>, deleted' \subseteq deleted \cup request[r].deletes,
           Len(users') = Len(users),
           \A i \in 1 .. Len(users) : users'[i].login = users[i].login,
           \A x \in Requests \ {r} :
               request[x].pc = "update" /\ request[x].user.login \notin raced' =>
                   request[x].user.suspended \in suspensionOf'[request[x].user.login],
           CopyIsOfUser(q, idsOf, raced, suspensionOf'), IndexPoints(q, users')
    PROVE  Gone' \subseteq Gone /\ IdsAreNew' /\ NothingWhenDown' /\ RequestsAreSound'
<1>0. /\ UNCHANGED <<idsOf, raced, nextID>>
      /\ \A x \in Requests : request'[x] = IF x = r THEN q ELSE request[x]
  BY DEF creation, IInv, TypeOK
<1>1. Gone' \subseteq Gone
  BY GoneStays DEF IInv
<1>2. IdsAreNew'
  <2>1. \A x \in Requests : request'[x].pc = "append" =>
          request[x].pc = "append" /\ request'[x].user = request[x].user
    BY <1>0
  <2>2. \A id \in Gone' : id \in Gone
    BY <1>1
  <2> HIDE DEF Gone
  <2> QED BY <1>0, <2>1, <2>2, IdsStay
<1>3. NothingWhenDown'
  BY DEF NothingWhenDown
<1>4. ASSUME NEW x \in Requests
      PROVE  /\ AppendIsFree(request'[x], users', raced')
             /\ CopyIsOfUser(request'[x], idsOf', raced', suspensionOf')
             /\ IndexPoints(request'[x], users')
  <2>1. CASE x = r
    BY <1>0, <2>1 DEF AppendIsFree
  <2>2. CASE x # r
    <3>1. request'[x] = request[x]
      BY <1>0, <2>2
    <3>2. \A i \in 1 .. Len(users') : \E j \in 1 .. Len(users) : users[j].login = users'[i].login
      OBVIOUS
    <3>3. request[x].index \in 1 .. Len(users) =>
            /\ request[x].index \in 1 .. Len(users')
            /\ users'[request[x].index].login = users[request[x].index].login
      OBVIOUS
    <3>4. request[x].pc = "update" /\ request[x].user.login \notin raced' =>
            request[x].user.suspended \in suspensionOf'[request[x].user.login]
      BY <2>2
    <3>5. (\A l \in Logins : idsOf[l] \subseteq idsOf'[l]) /\ raced \subseteq raced'
      BY <1>0
    <3> QED BY <3>1, <3>2, <3>3, <3>4, <3>5, OtherRequests
  <2> QED BY <2>1, <2>2
<1>5. RequestsAreSound'
  BY <1>4 DEF RequestsAreSound
<1> QED BY <1>1, <1>2, <1>3, <1>5

\* No user changes: one is copied, looked for in vain, or not saved.
LEMMA QuietStep ==
    ASSUME IInv, NEW r \in Requests, NEW q \in Request, request' = [request EXCEPT ![r] = q],
           q.pc # "append", q.deletes = {}, running,
           UNCHANGED <<users, running, passwordHistory, creation, deleted>>,
           \/ request[r].pc # "save" /\ UNCHANGED <<disk, saveFailed>>
           \/ saveFailed' = TRUE /\ disk' \in {disk, Torn},
           \A x \in Requests \ {r} :
               request[x].pc = "update" /\ request[x].user.login \notin raced' =>
                   request[x].user.suspended \in suspensionOf'[request[x].user.login],
           CopyIsOfUser(q, idsOf, raced, suspensionOf'), IndexPoints(q, users),
           SuspensionsAre(users, raced, suspensionOf')
    PROVE  Rest'
<1>1. Gone' \subseteq Gone /\ IdsAreNew' /\ NothingWhenDown' /\ RequestsAreSound'
  <2>1. IndexPoints(q, users') /\ deleted' \subseteq deleted \cup request[r].deletes
    OBVIOUS
  <2> QED BY <2>1, LoginsStay
<1>2. UNCHANGED <<idsOf, raced, misdirected, lastSet, deleted>>
  BY DEF creation, passwordHistory
<1>3. WellFormed(users', idsOf', raced')
  BY <1>2 DEF IInv, Strengthenings
<1>4. Without(users', Gone', idsOf')
  <2>1. Without(users, Gone, idsOf)
    BY DEF IInv, Strengthenings
  <2> QED BY <1>1, <1>2, <2>1 DEF Without
<1>5. FileIsSound'
  BY <1>2 DEF IInv, Strengthenings, FileIsSound
<1>6. CopiesKeepUsers'
  BY <1>2, CopiesKeepLists DEF IInv
<1>7. UsersOnDisk'
  <2>1. CASE saveFailed'
    BY <2>1 DEF UsersOnDisk
  <2>2. CASE request[r].pc # "save" /\ UNCHANGED <<disk, saveFailed>>
    <3>1. \A x \in Requests : request[x].pc = "save" => request'[x].pc = "save"
      BY <2>2 DEF IInv, TypeOK
    <3> QED BY <2>2, <3>1 DEF IInv, UsersOnDisk
  <2> QED BY <2>1, <2>2
<1> QED BY <1>1, <1>3, <1>4, <1>5, <1>6, <1>7 DEF Rest, Strengthenings

\* A user is copied.
LEMMA CopyRest ==
    ASSUME IInv, NEW r \in Requests, NEW i \in 1 .. Len(users), NEW q \in Request,
           IsCopy(q, users[i]), q.pc = "hash" => q.index = i,
           request' = [request EXCEPT ![r] = q], UNCHANGED unchangedByCopy, running,
           request[r].pc # "save"
    PROVE  Rest'
<1>1. /\ UNCHANGED <<users, running, passwordHistory, creation, deleted, suspensionOf>>
      /\ UNCHANGED <<disk, saveFailed>> /\ raced' = raced
  BY DEF unchangedByCopy, saveVars, creation
<1>2. users[i].id \in idsOf[users[i].login]
  BY DEF IInv, Strengthenings, WellFormed
<1>3. SuspensionsAre(users, raced, suspensionOf)
  BY CopiesKeepLists DEF IInv
<1>4. CopyIsOfUser(q, idsOf, raced, suspensionOf')
  BY <1>1, <1>2, <1>3 DEF CopyIsOfUser, IsCopy, SuspensionsAre
<1>5. IndexPoints(q, users) /\ q.pc # "append" /\ q.deletes = {}
  BY DEF IndexPoints, IsCopy
<1>6. SuspensionsAre(users, raced, suspensionOf')
  BY <1>1, <1>3
<1> QED BY <1>1, <1>4, <1>5, <1>6, SuspensionNotSet, QuietStep

\* A request that is at an end, or goes on with the copy it has.
LEMMA ReturnRest ==
    ASSUME IInv, NEW r \in Requests, NEW q \in Request,
           q.pc \in {"idle", "locate"}, q.deletes = {}, q.user \in {request[r].user, NoUser},
           request' = [request EXCEPT ![r] = q], running,
           request[r].pc \notin {"append", "save"},
           UNCHANGED <<users, running, saveVars, passwordHistory, suspensionOf, creation, deleted>>
    PROVE  Rest'
<1>1. UNCHANGED <<disk, saveFailed>> /\ raced' = raced
  BY DEF saveVars, creation
<1>2. CopyIsOfUser(request[r], idsOf, raced, suspensionOf)
  BY DEF IInv, Strengthenings, RequestsAreSound
<1>3. CopyIsOfUser(q, idsOf, raced, suspensionOf')
  BY <1>2 DEF CopyIsOfUser
<1>4. IndexPoints(q, users) /\ q.pc # "append"
  BY DEF IndexPoints
<1>5. SuspensionsAre(users, raced, suspensionOf')
  BY CopiesKeepLists DEF IInv
<1> QED BY <1>1, <1>3, <1>4, <1>5, SuspensionNotSet, QuietStep

\* UpdateUser, called by an edit that has its copy.
LEMMA UpdateRest ==
    ASSUME IInv, NEW r \in Requests, NEW user \in User, NEW p \in Passwords \cup {NoPassword},
           UpdateUser(r, user, p),
           request[r].pc \in {"update", "patch", "put"}, request[r].user \in User,
           (\E i \in 1 .. Len(users) : users[i].login = user.login) =>
               user.id = request[r].user.id /\ user.login = request[r].user.login,
           \/ request[r].pc = "update" /\ user = request[r].user /\ UNCHANGED suspensionOf
           \/ SetsSuspension(r, user.login, user.suspended)
    PROVE  Rest'
<1> DEFINE l == user.login
<1>0. /\ running /\ l \in Logins
      /\ UNCHANGED <<running, saveVars, passwordHistory, creation, deleted>>
      /\ UNCHANGED <<idsOf, raced, misdirected, lastSet, disk, saveFailed>>
  BY Working, UserParts DEF UpdateUser, saveVars, passwordHistory, creation
<1>1. CopyIsOfUser(request[r], idsOf, raced, suspensionOf)
  BY DEF IInv, Strengthenings, RequestsAreSound
<1>2. /\ l \notin raced => user.suspended \in suspensionOf'[l]
      /\ \A m \in Logins \ {l} : suspensionOf'[m] = suspensionOf[m]
      /\ \A x \in Requests \ {r} :
           request[x].pc = "update" /\ request[x].user.login \notin raced' =>
               request[x].user.suspended \in suspensionOf'[request[x].user.login]
  <2>1. CASE request[r].pc = "update" /\ user = request[r].user /\ UNCHANGED suspensionOf
    BY <1>0, <1>1, <2>1, SuspensionNotSet DEF CopyIsOfUser
  <2>2. CASE SetsSuspension(r, l, user.suspended)
    BY <1>0, <2>2, SuspensionSet
  <2> QED BY <2>1, <2>2
<1>3. SuspensionsAre(users, raced, suspensionOf) /\ PasswordsAre(users, raced \cup misdirected, lastSet)
  BY CopiesKeepLists DEF IInv
<1>4. \A i \in 1 .. Len(users) : users[i].login \in Logins
  BY TypeFacts, UserParts DEF IInv
<1>5. CASE /\ request' = [request EXCEPT ![r] = Idle] /\ users' = users
           /\ \A i \in 1 .. Len(users) : users[i].login # l
  <2>1. SuspensionsAre(users, raced, suspensionOf')
    BY <1>2, <1>3, <1>4, <1>5 DEF SuspensionsAre
  <2>2. CopyIsOfUser(Idle, idsOf, raced, suspensionOf') /\ IndexPoints(Idle, users)
    BY EmptyRequests DEF CopyIsOfUser, IndexPoints
  <2>3. request[r].pc # "save" /\ UNCHANGED <<disk, saveFailed>>
    BY <1>0
  <2> HIDE DEF l
  <2> QED BY <1>0, <1>2, <1>5, <2>1, <2>2, <2>3, EmptyRequests, QuietStep
<1>6. ASSUME NEW k \in 1 .. Len(users), NEW w \in User, NEW q \in Request,
             users' = ReplaceAt(users, k, w), users[k].login = l,
             w.id = user.id, w.login = l, w.suspended = user.suspended,
             w.password = users[k].password,
             request' = [request EXCEPT ![r] = q],
             q.pc = "save", q.deletes = {}, q.user \in {user, NoUser}
      PROVE  Rest'
  <2>1. /\ users \in Seq(User) /\ Len(users') = Len(users)
        /\ \A i \in 1 .. Len(users) : users'[i] = IF i = k THEN w ELSE users[i]
    <3>1. users \in Seq(User)
      BY TypeFacts DEF IInv
    <3>2. users' = ReplaceAt(users, k, w)
      BY <1>6
    <3> HIDE DEF l
    <3> QED BY <3>1, <3>2, UserReplaced
  <2>2. \A i \in 1 .. Len(users) : users'[i].login = users[i].login
    BY <1>6, <2>1
  <2>3. user.id \in idsOf[l]
    <3>1. user.id = request[r].user.id /\ l = request[r].user.login
      BY <1>6
    <3>2. request[r].user # NoUser
      BY Sentinels
    <3> QED BY <1>1, <3>1, <3>2 DEF CopyIsOfUser
  <2>4. CopyIsOfUser(q, idsOf, raced, suspensionOf') /\ IndexPoints(q, users')
    BY <1>6, <2>3 DEF CopyIsOfUser, IndexPoints
  <2>5. Gone' \subseteq Gone /\ IdsAreNew' /\ NothingWhenDown' /\ RequestsAreSound'
    <3>1. deleted' \subseteq deleted \cup request[r].deletes /\ q.pc # "append"
      BY <1>0, <1>6
    <3> HIDE DEF l
    <3> QED BY <1>0, <1>2, <1>6, <2>1, <2>2, <2>4, <3>1, LoginsStay
  <2>6. WellFormed(users', idsOf', raced')
    <3>1. WellFormed(users, idsOf, raced)
      BY DEF IInv, Strengthenings
    <3>2. w.login = users[k].login /\ w.id \in idsOf[w.login]
      BY <1>6, <2>3
    <3>3. WellFormed(users', idsOf, raced)
      BY <2>1, <3>1, <3>2, WellFormedReplaced
    <3> QED BY <1>0, <3>3
  <2>7. Without(users', Gone', idsOf')
    <3> SUFFICES ASSUME NEW i \in 1 .. Len(users), users'[i].id \in Gone
                 PROVE  HasTwo(idsOf[users'[i].login])
      BY <1>0, <2>1, <2>5 DEF Without
    <3>1. Without(users, Gone, idsOf) /\ WellFormed(users, idsOf, raced)
      BY DEF IInv, Strengthenings
    <3>2. CASE users[i].id = users'[i].id
      BY <2>2, <3>1, <3>2 DEF Without
    <3>3. CASE users[i].id # users'[i].id
      <4>1. i = k /\ users'[i].id = user.id /\ users'[i].login = l
        BY <1>6, <2>1, <3>3
      <4>2. users[k].id \in idsOf[l] /\ users[k].id # user.id
        BY <1>6, <3>1, <3>3, <4>1 DEF WellFormed
      <4> QED BY <2>3, <4>1, <4>2 DEF HasTwo
    <3> QED BY <3>2, <3>3
  <2>8. FileIsSound'
    BY <1>0 DEF IInv, Strengthenings, FileIsSound
  <2>9. CopiesKeepUsers'
    <3>1. PasswordsAre(users', raced \cup misdirected, lastSet)
      BY <1>3, <1>6, <2>1 DEF PasswordsAre
    <3>2. SuspensionsAre(users', raced, suspensionOf')
      <4> SUFFICES ASSUME NEW i \in 1 .. Len(users), users'[i].login \notin raced
                   PROVE  users'[i].suspended \in suspensionOf'[users'[i].login]
        BY <2>1 DEF SuspensionsAre
      <4>1. CASE i = k
        BY <1>2, <1>6, <2>1, <4>1
      <4>2. CASE i # k
        <5>1. users'[i] = users[i] /\ users[i].login # l
          <6>1. WellFormed(users, idsOf, raced)
            BY DEF IInv, Strengthenings
          <6> QED BY <1>6, <2>1, <4>2, <6>1 DEF WellFormed
        <5> QED BY <1>2, <1>3, <1>4, <5>1 DEF SuspensionsAre
      <4> QED BY <4>1, <4>2
    <3> QED BY <1>0, <3>1, <3>2, CopiesKeepLists
  <2>10. UsersOnDisk'
    <3>1. request'[r].pc = "save"
      BY <1>6 DEF IInv, TypeOK
    <3> QED BY <3>1 DEF UsersOnDisk
  <2> QED BY <2>5, <2>6, <2>7, <2>8, <2>9, <2>10 DEF Rest, Strengthenings
<1>7. IInv => TypeOK
  BY DEF IInv
<1> QED BY <1>5, <1>6, <1>7, UpdateStep

\* A password is written.
LEMMA WriteRest ==
    ASSUME IInv, NEW r \in Requests, WritePassword(r)
    PROVE  Rest'
<1> DEFINE k == request[r].index
<1>0. /\ TypeOK /\ request[r].pc = "hash" /\ running /\ request[r] \in Request
      /\ UNCHANGED <<running, saveVars, suspensionOf, creation, deleted>>
      /\ UNCHANGED <<idsOf, raced, disk, saveFailed>>
  BY Working, TypeFacts DEF WritePassword, IInv, saveVars, creation
<1>1. SuspensionsAre(users, raced, suspensionOf) /\ PasswordsAre(users, raced \cup misdirected, lastSet)
  BY CopiesKeepLists DEF IInv
<1>2. CASE k > Len(users)
  <2>1. users' = users /\ request' = [request EXCEPT ![r] = Idle] /\ UNCHANGED passwordHistory
    BY <1>2 DEF WritePassword, Return
  <2> QED BY <1>0, <2>1, EmptyRequests, ReturnRest
<1>3. CASE ~(k > Len(users))
  <2>1. /\ k \in 1 .. Len(users) /\ request' = [request EXCEPT ![r] = Saving]
        /\ \E w \in User :
             /\ users' = [users EXCEPT ![k] = w]
             /\ w.id = users[k].id /\ w.login = users[k].login
             /\ w.suspended = users[k].suspended /\ w.password = request[r].password
    BY <1>0, <1>3, WriteStep
  <2>2. PICK w \in User :
          /\ users' = [users EXCEPT ![k] = w]
          /\ w.id = users[k].id /\ w.login = users[k].login
          /\ w.suspended = users[k].suspended /\ w.password = request[r].password
    BY <2>1
  <2> HIDE DEF k
  <2>3. /\ Len(users') = Len(users)
        /\ \A i \in 1 .. Len(users) : users'[i] = IF i = k THEN w ELSE users[i]
    <3>1. users \in Seq(User)
      BY <1>0, TypeFacts
    <3> QED BY <2>1, <2>2, <3>1, ReplacedInPlace
  <2>4. \A i \in 1 .. Len(users) :
          /\ users'[i].login = users[i].login /\ users'[i].id = users[i].id
          /\ users'[i].suspended = users[i].suspended
    BY <2>2, <2>3
  <2>5. Gone' \subseteq Gone /\ IdsAreNew' /\ NothingWhenDown' /\ RequestsAreSound'
    <3>1. CopyIsOfUser(Saving, idsOf, raced, suspensionOf') /\ IndexPoints(Saving, users')
      BY EmptyRequests DEF CopyIsOfUser, IndexPoints
    <3>2. deleted' \subseteq deleted \cup request[r].deletes /\ Saving.pc # "append"
      BY <1>0, EmptyRequests
    <3>3. \A x \in Requests \ {r} :
            request[x].pc = "update" /\ request[x].user.login \notin raced' =>
                request[x].user.suspended \in suspensionOf'[request[x].user.login]
      BY <1>0, SuspensionNotSet
    <3> QED BY <1>0, <2>1, <2>3, <2>4, <3>1, <3>2, <3>3, EmptyRequests, LoginsStay
  <2>6. WellFormed(users', idsOf', raced')
    <3>1. WellFormed(users, idsOf, raced)
      BY DEF IInv, Strengthenings
    <3> QED BY <1>0, <2>3, <2>4, <3>1 DEF WellFormed
  <2>7. Without(users', Gone', idsOf')
    <3>1. Without(users, Gone, idsOf)
      BY DEF IInv, Strengthenings
    <3> QED BY <1>0, <2>3, <2>4, <2>5, <3>1 DEF Without
  <2>8. FileIsSound'
    BY <1>0 DEF IInv, Strengthenings, FileIsSound
  <2>9. CopiesKeepUsers'
    <3>1. SuspensionsAre(users', raced, suspensionOf')
      BY <1>0, <1>1, <2>3, <2>4 DEF SuspensionsAre
    <3>2. PasswordsAre(users', raced \cup misdirected', lastSet')
      <4> SUFFICES ASSUME NEW i \in 1 .. Len(users),
                          users'[i].login \notin raced, users'[i].login \notin misdirected'
                   PROVE  users'[i].password = lastSet'[users'[i].login]
        BY <2>3 DEF PasswordsAre
      <4>0. users[i].login \in Logins
        BY <1>0, TypeFacts, UserParts
      <4>1. CASE request[r].shifted
        <5>1. misdirected' = misdirected \cup {users[k].login} /\ lastSet' = lastSet
          BY <1>3, <4>1 DEF WritePassword, k
        <5>2. i # k
          BY <2>4, <5>1
        <5> QED BY <1>1, <2>3, <5>1, <5>2 DEF PasswordsAre
      <4>2. CASE ~request[r].shifted
        <5>1. /\ misdirected' = misdirected
              /\ lastSet' = [lastSet EXCEPT ![request[r].user.login] = request[r].password]
          BY <1>3, <4>2 DEF WritePassword, k
        <5>2. users[k].login = request[r].user.login
          BY <1>0, <4>2 DEF IInv, Strengthenings, RequestsAreSound, IndexPoints, k
        <5>3. CASE i = k
          BY <1>0, <2>2, <2>3, <4>0, <5>1, <5>2, <5>3 DEF TypeOK
        <5>4. CASE i # k
          <6>1. WellFormed(users, idsOf, raced)
            BY DEF IInv, Strengthenings
          <6>2. users[i].login # users[k].login
            BY <2>1, <2>4, <5>4, <6>1 DEF WellFormed
          <6>3. lastSet'[users[i].login] = lastSet[users[i].login]
            BY <1>0, <4>0, <5>1, <5>2, <6>2 DEF TypeOK
          <6> QED BY <1>1, <2>3, <5>1, <5>4, <6>3 DEF PasswordsAre
        <5> QED BY <5>3, <5>4
      <4> QED BY <4>1, <4>2
    <3> QED BY <1>0, <3>1, <3>2, CopiesKeepLists
  <2>10. UsersOnDisk'
    <3>1. request'[r].pc = "save"
      BY <1>0, <2>1, EmptyRequests DEF TypeOK
    <3> QED BY <3>1 DEF UsersOnDisk
  <2> QED BY <2>5, <2>6, <2>7, <2>8, <2>9, <2>10 DEF Rest, Strengthenings
<1> QED BY <1>2, <1>3

\* The users are saved, and deletions are answered.
LEMMA SaveRest ==
    ASSUME IInv, NEW r \in Requests, SaveUsers(r)
    PROVE  Rest'
<1>0. /\ TypeOK /\ request[r].pc = "save" /\ running
      /\ disk' = users /\ deleted' = deleted \cup request[r].deletes
      /\ UNCHANGED <<users, running, passwordHistory, suspensionOf, creation>>
      /\ UNCHANGED <<idsOf, raced, misdirected, lastSet>>
  BY Working DEF SaveUsers, IInv, passwordHistory, creation
<1>1. PICK q \in Request :
        /\ request' = [request EXCEPT ![r] = q]
        /\ q.pc \in {"idle", "locate"} /\ q.deletes = {} /\ q.user \in {request[r].user, NoUser}
  BY <1>0, SaveStep
<1>2. WellFormed(users, idsOf, raced) /\ Without(users, Gone, idsOf)
  BY DEF IInv, Strengthenings
<1>3. Gone' \subseteq Gone /\ IdsAreNew' /\ NothingWhenDown' /\ RequestsAreSound'
  <2>1. CopyIsOfUser(request[r], idsOf, raced, suspensionOf)
    BY DEF IInv, Strengthenings, RequestsAreSound
  <2>2. CopyIsOfUser(q, idsOf, raced, suspensionOf') /\ IndexPoints(q, users')
    BY <1>0, <1>1, <2>1 DEF CopyIsOfUser, IndexPoints
  <2>3. \A x \in Requests \ {r} :
          request[x].pc = "update" /\ request[x].user.login \notin raced' =>
              request[x].user.suspended \in suspensionOf'[request[x].user.login]
    BY <1>0, SuspensionNotSet
  <2> QED BY <1>0, <1>1, <2>2, <2>3, LoginsStay
<1>4. WellFormed(users', idsOf', raced') /\ Without(users', Gone', idsOf')
  <2>1. Without(users, Gone', idsOf)
    BY <1>2, <1>3 DEF Without
  <2> QED BY <1>0, <1>2, <2>1
<1>5. FileIsSound'
  <2>1. deleted' \subseteq Gone
    BY <1>0 DEF Gone
  <2>2. Without(users, deleted', idsOf)
    BY <1>2, <2>1 DEF Without
  <2> QED BY <1>0, <1>2, <2>2 DEF FileIsSound
<1>6. CopiesKeepUsers'
  BY <1>0, CopiesKeepLists DEF IInv
<1>7. UsersOnDisk'
  BY <1>0 DEF UsersOnDisk
<1> QED BY <1>3, <1>4, <1>5, <1>6, <1>7 DEF Rest, Strengthenings

\* The process ends.
LEMMA CrashRest == ASSUME IInv, Crash PROVE Rest'
<1>0. /\ TypeOK /\ running' = FALSE /\ users' = <<>> /\ request' = [x \in Requests |-> Idle]
      /\ UNCHANGED <<idsOf, raced, nextID, deleted, disk>>
  BY DEF Crash, IInv, creation
<1>1. Gone' \subseteq Gone
  BY <1>0, EmptyRequests DEF Gone
<1>2. IdsAreNew'
  <2>1. \A x \in Requests : request'[x].pc # "append"
    BY <1>0, EmptyRequests
  <2> QED BY <1>0, <1>1, <2>1, IdsStay
<1>3. WellFormed(users', idsOf', raced') /\ Without(users', Gone', idsOf')
  BY <1>0 DEF WellFormed, Without
<1>4. FileIsSound' /\ NothingWhenDown' /\ UsersOnDisk'
  BY <1>0 DEF IInv, Strengthenings, FileIsSound, NothingWhenDown, UsersOnDisk
<1>5. RequestsAreSound'
  BY <1>0, EmptyRequests DEF RequestsAreSound, AppendIsFree, CopyIsOfUser, IndexPoints
<1>6. CopiesKeepUsers'
  BY <1>0, CopiesKeepLists DEF PasswordsAre, SuspensionsAre
<1> QED BY <1>2, <1>3, <1>4, <1>5, <1>6 DEF Rest, Strengthenings

\* The process starts with what is in the file.
LEMMA RestartRest == ASSUME IInv, Restart PROVE Rest'
<1>0. /\ TypeOK /\ ~running /\ running' /\ disk \in Seq(User)
      /\ users' = disk /\ lastSet' = PasswordsIn(disk)
      /\ UNCHANGED <<request, idsOf, raced, nextID, deleted, disk, misdirected>>
  BY DEF Restart, IInv, TypeOK, creation, saveVars
<1>1. \A x \in Requests : request[x] = Idle
  BY <1>0 DEF IInv, Strengthenings, NothingWhenDown
<1>2. WellFormed(disk, idsOf, raced) /\ Without(disk, deleted, idsOf)
  BY DEF IInv, Strengthenings, FileIsSound, Restart
<1>3. Gone = deleted /\ Gone' = Gone
  BY <1>0, <1>1, EmptyRequests DEF Gone
<1>4. IdsAreNew'
  BY <1>0, <1>3, IdsStay
<1>5. WellFormed(users', idsOf', raced') /\ Without(users', Gone', idsOf')
  BY <1>0, <1>2, <1>3
<1>6. FileIsSound' /\ NothingWhenDown' /\ UsersOnDisk'
  BY <1>0, <1>2 DEF FileIsSound, NothingWhenDown, UsersOnDisk
<1>7. RequestsAreSound'
  BY <1>0, <1>1, EmptyRequests DEF RequestsAreSound, AppendIsFree, CopyIsOfUser, IndexPoints
<1>8. \A i \in 1 .. Len(disk) : disk[i].login \in Logins
  BY <1>0, UserParts
<1>9. PasswordsAre(disk, raced \cup misdirected, PasswordsIn(disk))
  <2> SUFFICES ASSUME NEW i \in 1 .. Len(disk), disk[i].login \notin raced
               PROVE  disk[i].password = PasswordsIn(disk)[disk[i].login]
    BY DEF PasswordsAre
  <2>1. PICK j \in 1 .. Len(disk) :
          disk[j].login = disk[i].login /\ PasswordsIn(disk)[disk[i].login] = disk[j].password
    BY <1>0, <1>8, PasswordOfLogin
  <2> QED BY <1>2, <2>1 DEF WellFormed
<1>10. SuspensionsAre(disk, raced, suspensionOf')
  BY <1>8 DEF SuspensionsAre, Restart
<1>11. CopiesKeepUsers'
  BY <1>0, <1>9, <1>10, CopiesKeepLists
<1> QED BY <1>4, <1>5, <1>6, <1>7, <1>11 DEF Rest, Strengthenings

-----------------------------------------------------------------------------
(* Users that come and go.                                                 *)

\* A user that will be appended.
LEMMA NewUserRest ==
    ASSUME IInv, NEW r \in Requests, NEW l \in Logins, NEW p \in Passwords,
           RestAddUser(r, l, p)
    PROVE  Rest'
<1>0. /\ TypeOK /\ nextID' = nextID + 1 /\ nextID \in Nat
      /\ UNCHANGED <<users, running, saveVars, passwordHistory, suspensionOf, idsOf, raced, deleted>>
      /\ UNCHANGED <<disk, saveFailed, misdirected, lastSet>>
  BY TypeFacts DEF RestAddUser, IInv, saveVars, passwordHistory
<1>1. PICK q \in Request :
        /\ q.pc = "append" /\ q.deletes = {} /\ q.user = NewUser(l, p)
        /\ request' = [request EXCEPT ![r] = q]
  BY <1>0, NewUserStep
<1>2. /\ q.user.id = nextID /\ q.user.login = l /\ q.user.suspended = FALSE
      /\ running /\ request[r].pc = "idle" /\ \A i \in 1 .. Len(users) : users[i].login # l
  <2>1. CanAdd(r, l)
    BY DEF RestAddUser
  <2>2. \A i \in 1 .. Len(users) : users[i].login # l
    BY <1>0, <2>1, LoginIndex DEF CanAdd, LoginExists
  <2>3. running /\ request[r].pc = "idle"
    BY <2>1 DEF CanAdd, CanStart
  <2>4. q.user.id = nextID /\ q.user.login = l /\ q.user.suspended = FALSE
    BY <1>1 DEF NewUser
  <2> QED BY <2>2, <2>3, <2>4
<1>3. \A x \in Requests : request'[x] = IF x = r THEN q ELSE request[x]
  BY <1>0, <1>1 DEF TypeOK
<1>4. Gone' \subseteq Gone
  BY <1>0, <1>1, GoneStays
<1>5. IdsAreNew'
  <2>1. IdsAreNew
    BY DEF IInv, Strengthenings
  <2>2. \A m \in Logins : \A id \in idsOf[m] : id \in Nat
    BY <1>0 DEF TypeOK, IDs
  <2>3. \A m \in Logins : \A id \in idsOf'[m] : id < nextID'
    BY <1>0, <2>1, <2>2 DEF IdsAreNew
  <2>4. \A id \in Gone' : \E m \in Logins : id \in idsOf'[m]
    BY <1>0, <1>4, <2>1 DEF IdsAreNew
  <2>5. ASSUME NEW x \in Requests, request'[x].pc = "append"
        PROVE  /\ request'[x].user.id < nextID'
               /\ \A m \in Logins : request'[x].user.id \notin idsOf'[m]
               /\ \A y \in Requests \ {x} :
                    request'[y].pc = "append" => request'[y].user.id # request'[x].user.id
    <3>1. \A m \in Logins : nextID \notin idsOf[m]
      BY <1>0, <2>1, <2>2 DEF IdsAreNew
    <3>2. ASSUME NEW y \in Requests, y # r, request[y].pc = "append"
          PROVE  request[y].user.id \in Nat /\ request[y].user.id < nextID
      <4>1. request[y].user.id \in IDs
        BY <1>0, <3>2, TypeFacts, RequestParts, UserParts
      <4> QED BY <2>1, <3>2, <4>1 DEF IdsAreNew, IDs
    <3>3. CASE x = r
      <4>1. \A y \in Requests \ {x} : request'[y].pc = "append" => request'[y].user.id # nextID
        BY <1>0, <1>3, <3>2, <3>3
      <4> QED BY <1>0, <1>2, <1>3, <3>1, <3>3, <4>1
    <3>4. CASE x # r
      <4>1. request'[x] = request[x] /\ request[x].user.id \in Nat /\ request[x].user.id < nextID
        BY <1>3, <2>5, <3>2, <3>4
      <4>2. request[x].user.id < nextID' /\ \A m \in Logins : request[x].user.id \notin idsOf'[m]
        BY <1>0, <2>1, <2>5, <4>1 DEF IdsAreNew
      <4>3. ASSUME NEW y \in Requests \ {x}, request'[y].pc = "append"
            PROVE  request'[y].user.id # request[x].user.id
        <5>1. CASE y = r
          BY <1>0, <1>2, <1>3, <4>1, <5>1
        <5>2. CASE y # r
          BY <1>3, <2>1, <2>5, <4>1, <4>3, <5>2 DEF IdsAreNew
        <5> QED BY <5>1, <5>2
      <4> QED BY <4>1, <4>2, <4>3
    <3> QED BY <3>3, <3>4
  <2>6. \A m, n \in Logins : m # n => idsOf'[m] \cap idsOf'[n] = {}
    BY <1>0, <2>1 DEF IdsAreNew
  <2> QED BY <2>3, <2>4, <2>5, <2>6 DEF IdsAreNew
<1>6. WellFormed(users', idsOf', raced') /\ Without(users', Gone', idsOf')
  <2>1. WellFormed(users, idsOf, raced) /\ Without(users, Gone, idsOf)
    BY DEF IInv, Strengthenings
  <2>2. Without(users, Gone', idsOf)
    BY <1>4, <2>1 DEF Without
  <2> QED BY <1>0, <2>1, <2>2
<1>7. FileIsSound' /\ NothingWhenDown'
  BY <1>0, <1>2 DEF IInv, Strengthenings, FileIsSound, NothingWhenDown
<1>8. ASSUME NEW x \in Requests
      PROVE  /\ AppendIsFree(request'[x], users', raced')
             /\ CopyIsOfUser(request'[x], idsOf', raced', suspensionOf')
             /\ IndexPoints(request'[x], users')
  <2>1. CASE x = r
    BY <1>0, <1>1, <1>2, <1>3, <2>1 DEF AppendIsFree, CopyIsOfUser, IndexPoints
  <2>2. CASE x # r
    BY <1>0, <1>3, <2>2 DEF IInv, Strengthenings, RequestsAreSound
  <2> QED BY <2>1, <2>2
<1>9. CopiesKeepUsers'
  BY <1>0, CopiesKeepLists DEF IInv
<1>10. UsersOnDisk'
  <2>1. \A x \in Requests : request[x].pc = "save" => request'[x].pc = "save"
    BY <1>2, <1>3
  <2> QED BY <1>0, <2>1 DEF IInv, UsersOnDisk
<1> QED BY <1>5, <1>6, <1>7, <1>8, <1>9, <1>10 DEF Rest, Strengthenings, RequestsAreSound

\* A user is appended, with an id of its own and a login that is free, unless it has been
\* created twice.
LEMMA AppendRest ==
    ASSUME IInv, NEW r \in Requests, NEW u \in User, AppendUser(r, u), running,
           ~u.suspended, u.id < nextID', nextID <= nextID', nextID' \in Nat,
           \A l \in Logins : u.id \notin idsOf[l],
           \A x \in Requests \ {r} : request[x].pc = "append" => request[x].user.id # u.id,
           \A i \in 1 .. Len(users) : users[i].login = u.login => u.login \in raced
    PROVE  Rest'
<1> DEFINE l == u.login
<1>0. /\ TypeOK /\ users \in Seq(User) /\ Len(users) \in Nat /\ nextID \in Nat
      /\ l \in Logins /\ u.id \in IDs
  BY TypeFacts, UserParts DEF IInv
<1>1. /\ users' = Append(users, u) /\ request' = [request EXCEPT ![r] = Saving]
      /\ idsOf' = [idsOf EXCEPT ![l] = idsOf[l] \cup {u.id}]
      /\ lastSet' = [lastSet EXCEPT ![l] = u.password]
      /\ SetsSuspension(r, l, FALSE)
      /\ UNCHANGED <<running, disk, saveFailed, misdirected, deleted>>
  BY DEF AppendUser, Continue, saveVars
<1>2. /\ raced \subseteq raced'
      /\ \A x \in Requests \ {r} :
           request[x].pc = "append" /\ request[x].user.login = l => l \in raced'
  BY DEF AppendUser
<1>3. /\ Len(users') = Len(users) + 1
      /\ \A i \in 1 .. Len(users) + 1 : users'[i] = IF i = Len(users) + 1 THEN u ELSE users[i]
  BY <1>0, <1>1, Appended
<1>4. /\ \A m \in Logins : idsOf'[m] = IF m = l THEN idsOf[l] \cup {u.id} ELSE idsOf[m]
      /\ \A m \in Logins : lastSet'[m] = IF m = l THEN u.password ELSE lastSet[m]
  BY <1>0, <1>1 DEF TypeOK
<1>5. \A m \in Logins : idsOf[m] \subseteq idsOf'[m]
  BY <1>4
<1>6. \A x \in Requests : request'[x] = IF x = r THEN Saving ELSE request[x]
  BY <1>0, <1>1 DEF TypeOK
<1>7. Gone' \subseteq Gone
  BY <1>0, <1>1, EmptyRequests, GoneStays
<1> HIDE DEF l
<1>8. IdsAreNew'
  <2>1. IdsAreNew
    BY DEF IInv, Strengthenings
  <2>2. \A m \in Logins : \A id \in idsOf[m] : id \in Nat /\ id < nextID
    BY <1>0, <2>1 DEF TypeOK, IDs, IdsAreNew
  <2>3. \A m \in Logins : \A id \in idsOf'[m] : id < nextID'
    BY <1>0, <1>4, <2>2
  <2>4. \A m, n \in Logins : m # n => idsOf'[m] \cap idsOf'[n] = {}
    BY <1>4, <2>1 DEF IdsAreNew
  <2>5. \A id \in Gone' : \E m \in Logins : id \in idsOf'[m]
    BY <1>5, <1>7, <2>1 DEF IdsAreNew
  <2>6. ASSUME NEW x \in Requests, request'[x].pc = "append"
        PROVE  /\ request'[x].user.id < nextID'
               /\ \A m \in Logins : request'[x].user.id \notin idsOf'[m]
               /\ \A y \in Requests \ {x} :
                    request'[y].pc = "append" => request'[y].user.id # request'[x].user.id
    <3>1. x # r /\ request'[x] = request[x] /\ request[x].pc = "append"
      BY <1>6, <2>6, EmptyRequests
    <3>2. request[x].user.id < nextID /\ request[x].user.id # u.id
      BY <2>1, <3>1 DEF IdsAreNew
    <3>3. request[x].user.id \in Nat
      BY <1>0, <3>1, TypeFacts, RequestParts, UserParts DEF IDs
    <3>4. \A m \in Logins : request[x].user.id \notin idsOf'[m]
      BY <1>4, <2>1, <3>1, <3>2 DEF IdsAreNew
    <3>5. \A y \in Requests \ {x} :
            request'[y].pc = "append" => request'[y].user.id # request[x].user.id
      BY <1>6, <2>1, <3>1, EmptyRequests DEF IdsAreNew
    <3> QED BY <1>0, <3>1, <3>2, <3>3, <3>4, <3>5
  <2> QED BY <2>3, <2>4, <2>5, <2>6 DEF IdsAreNew
<1>9. WellFormed(users', idsOf', raced')
  <2>1. WellFormed(users, idsOf, raced)
    BY DEF IInv, Strengthenings
  <2>2. WellFormed(users, idsOf', raced')
    BY <1>0, <1>2, <1>5, <2>1, StaysWellFormed
  <2>3. u.id \in idsOf'[u.login]
    BY <1>0, <1>4 DEF l
  <2>4. ASSUME NEW i \in 1 .. Len(users), users[i].login = u.login
        PROVE  u.login \in raced' /\ HasTwo(idsOf'[u.login])
    <3>1. users[i].id \in idsOf[l] /\ users[i].id # u.id
      BY <1>0, <2>1, <2>4 DEF WellFormed, l
    <3> QED BY <1>0, <1>2, <1>5, <2>3, <2>4, <3>1 DEF HasTwo, l
  <2>5. WellFormed(Append(users, u), idsOf', raced')
    BY <1>0, <2>2, <2>3, <2>4, WellFormedAppended
  <2> QED BY <1>1, <2>5
<1>10. Without(users', Gone', idsOf')
  <2> SUFFICES ASSUME NEW i \in 1 .. Len(users) + 1, users'[i].id \in Gone
               PROVE  HasTwo(idsOf'[users'[i].login])
    BY <1>3, <1>7 DEF Without
  <2>1. Without(users, Gone, idsOf) /\ IdsAreNew
    BY DEF IInv, Strengthenings
  <2>2. CASE i = Len(users) + 1
    BY <1>3, <2>1, <2>2 DEF IdsAreNew
  <2>3. CASE i # Len(users) + 1
    <3>1. i \in 1 .. Len(users) /\ users'[i] = users[i] /\ users[i].login \in Logins
      BY <1>0, <1>3, <2>3, UserParts
    <3> QED BY <1>5, <2>1, <3>1 DEF Without, HasTwo
  <2> QED BY <2>2, <2>3
<1>11. FileIsSound'
  <2> SUFFICES ASSUME disk # Torn
               PROVE  WellFormed(disk, idsOf', raced') /\ Without(disk, deleted, idsOf')
    BY <1>1 DEF FileIsSound
  <2>1. disk \in Seq(User) /\ WellFormed(disk, idsOf, raced) /\ Without(disk, deleted, idsOf)
    BY DEF IInv, TypeOK, Strengthenings, FileIsSound
  <2>2. \A i \in 1 .. Len(disk) : disk[i].login \in Logins
    BY <2>1, UserParts
  <2>3. Without(disk, deleted, idsOf')
    BY <1>5, <2>1, <2>2 DEF Without, HasTwo
  <2> QED BY <1>2, <1>5, <2>1, <2>3, StaysWellFormed
<1>12. /\ FALSE \in suspensionOf'[l]
       /\ \A m \in Logins \ {l} : suspensionOf'[m] = suspensionOf[m]
       /\ \A x \in Requests \ {r} :
            request[x].pc = "update" /\ request[x].user.login \notin raced' =>
                request[x].user.suspended \in suspensionOf'[request[x].user.login]
  BY <1>0, <1>1, <1>2, SuspensionSet
<1>13. ASSUME NEW x \in Requests
       PROVE  /\ AppendIsFree(request'[x], users', raced')
              /\ CopyIsOfUser(request'[x], idsOf', raced', suspensionOf')
              /\ IndexPoints(request'[x], users')
  <2>1. CASE x = r
    BY <1>6, <2>1, EmptyRequests DEF AppendIsFree, CopyIsOfUser, IndexPoints
  <2>2. CASE x # r
    <3>1. request'[x] = request[x]
      BY <1>6, <2>2
    <3>2. \A i \in 1 .. Len(users') :
            request[x].pc = "append" /\ users'[i].login = request[x].user.login =>
                \/ users'[i].login \in raced'
                \/ \E j \in 1 .. Len(users) : users[j].login = users'[i].login
      BY <1>0, <1>2, <1>3, <2>2 DEF l
    <3>3. request[x].index \in 1 .. Len(users) =>
            /\ request[x].index \in 1 .. Len(users')
            /\ users'[request[x].index].login = users[request[x].index].login
      BY <1>0, <1>3
    <3> QED BY <1>2, <1>5, <1>12, <2>2, <3>1, <3>2, <3>3, OtherRequests
  <2> QED BY <2>1, <2>2
<1>14. CopiesKeepUsers'
  <2>1. SuspensionsAre(users, raced, suspensionOf) /\ PasswordsAre(users, raced \cup misdirected, lastSet)
    BY CopiesKeepLists DEF IInv
  <2>2. ASSUME NEW i \in 1 .. Len(users) + 1, users'[i].login \notin raced'
        PROVE  /\ users'[i].suspended \in suspensionOf'[users'[i].login]
               /\ users'[i].login \notin misdirected => users'[i].password = lastSet'[users'[i].login]
    <3>1. CASE i = Len(users) + 1
      <4>1. users'[i] = u /\ u.suspended = FALSE
        BY <1>3, <3>1, UserParts
      <4> QED BY <1>0, <1>4, <1>12, <4>1 DEF l
    <3>2. CASE i # Len(users) + 1
      <4>1. i \in 1 .. Len(users) /\ users'[i] = users[i] /\ users[i].login \in Logins
        BY <1>0, <1>3, <3>2, UserParts
      <4>2. users[i].login \notin raced /\ users[i].login # l
        BY <1>2, <2>2, <4>1 DEF l
      <4> QED BY <1>4, <1>12, <2>1, <4>1, <4>2 DEF SuspensionsAre, PasswordsAre
    <3> QED BY <3>1, <3>2
  <2> QED BY <1>1, <1>3, <2>2, CopiesKeepLists DEF SuspensionsAre, PasswordsAre
<1>15. UsersOnDisk' /\ NothingWhenDown'
  <2>1. request'[r].pc = "save"
    BY <1>6, EmptyRequests
  <2> QED BY <1>1, <2>1 DEF UsersOnDisk, NothingWhenDown
<1> QED BY <1>8, <1>9, <1>10, <1>11, <1>13, <1>14, <1>15 DEF Rest, Strengthenings, RequestsAreSound

\* A user is taken out.
LEMMA DeleteRest ==
    ASSUME IInv, NEW r \in Requests, NEW id \in IDs, DeleteUserByID(r, id), running,
           request[r].pc \in {"idle", "delete"}
    PROVE  Rest'
<1>0. /\ TypeOK /\ users \in Seq(User) /\ Len(users) \in Nat
      /\ UNCHANGED <<running, saveVars, passwordHistory, suspensionOf, creation, deleted>>
      /\ UNCHANGED <<idsOf, raced, nextID, disk, saveFailed, misdirected, lastSet>>
  BY TypeFacts DEF DeleteUserByID, IInv, saveVars, passwordHistory, creation
<1>1. CASE request' = [request EXCEPT ![r] = Idle] /\ users' = users
  BY <1>0, <1>1, EmptyRequests, ReturnRest
<1>2. ASSUME NEW k \in 1 .. Len(users),
             users' = RemoveAt(users, k), users[k].id = id,
             request' \in [Requests -> Request],
             request'[r].pc = "save", request'[r].user = NoUser, request'[r].deletes = {id},
             \A x \in Requests \ {r} :
                 /\ request'[x].pc = request[x].pc /\ request'[x].user = request[x].user
                 /\ request'[x].index = request[x].index
                 /\ request'[x].deletes = request[x].deletes
                 /\ request[x].pc = "hash" /\ ~request'[x].shifted =>
                      ~request[x].shifted /\ request[x].index < k
      PROVE  Rest'
  <2> DEFINE at(i) == IF i < k THEN i ELSE i + 1
  <2>1. Len(users') = Len(users) - 1 /\ \A i \in 1 .. Len(users') : users'[i] = users[at(i)]
    <3>1. /\ Len(RemoveAt(users, k)) = Len(users) - 1
          /\ \A i \in 1 .. Len(users) - 1 :
               RemoveAt(users, k)[i] = IF i < k THEN users[i] ELSE users[i + 1]
      BY <1>0, Removed
    <3>2. users' = RemoveAt(users, k)
      BY <1>2
    <3>3. Len(users') = Len(users) - 1
      BY <3>1, <3>2
    <3>4. \A i \in 1 .. Len(users) - 1 : users'[i] = users[at(i)]
      BY <3>1, <3>2
    <3> QED BY <3>3, <3>4
  <2>2. \A i \in 1 .. Len(users') : at(i) \in 1 .. Len(users) /\ at(i) # k
    BY <1>0, <2>1
  <2>3. \A i \in 1 .. Len(users) : i < k => i \in 1 .. Len(users') /\ users'[i] = users[i]
    BY <1>0, <2>1
  <2> HIDE DEF at
  <2>4. WellFormed(users, idsOf, raced) /\ Without(users, Gone, idsOf) /\ IdsAreNew
    BY DEF IInv, Strengthenings
  <2>5. \A i \in 1 .. Len(users) : users[i].login \in Logins
    BY <1>0, UserParts
  <2>6. Gone' \subseteq Gone \cup {id}
    <3>1. \A x \in Requests : request'[x].deletes \subseteq request[x].deletes \cup {id}
      BY <1>2
    <3> QED BY <1>0, <3>1 DEF Gone
  <2>7. IdsAreNew'
    <3>1. \A i \in Gone' : i \in Gone \/ \E l \in Logins : i \in idsOf[l]
      <4>1. id \in idsOf[users[k].login]
        BY <1>2, <2>4 DEF WellFormed
      <4> QED BY <2>5, <2>6, <4>1
    <3>2. \A x \in Requests : request'[x].pc = "append" =>
            request[x].pc = "append" /\ request'[x].user = request[x].user
      BY <1>2
    <3> QED BY <1>0, <3>1, <3>2, IdsStay
  <2>8. WellFormed(users', idsOf', raced')
    <3>1. WellFormed(RemoveAt(users, k), idsOf, raced)
      BY <1>0, <2>4, WellFormedRemoved
    <3> QED BY <1>0, <1>2, <3>1
  <2>9. Without(users', Gone', idsOf')
    <3> SUFFICES ASSUME NEW i \in 1 .. Len(users'), users'[i].id \in Gone'
                 PROVE  HasTwo(idsOf[users'[i].login])
      BY <1>0 DEF Without
    <3>1. PICK j \in 1 .. Len(users) : j = at(i) /\ j # k /\ users'[i] = users[j]
      BY <2>1, <2>2
    <3>2. CASE users[j].id \in Gone
      BY <2>4, <3>1, <3>2 DEF Without
    <3>3. CASE users[j].id = id
      <4>1. id \in idsOf[users[j].login] /\ id \in idsOf[users[k].login]
        BY <1>2, <2>4, <3>3 DEF WellFormed
      <4>2. users[j].login = users[k].login
        BY <2>4, <2>5, <4>1 DEF IdsAreNew
      <4> QED BY <2>4, <3>1, <4>2 DEF WellFormed
    <3> QED BY <2>6, <3>1, <3>2, <3>3
  <2>10. FileIsSound' /\ NothingWhenDown'
    BY <1>0 DEF IInv, Strengthenings, FileIsSound, NothingWhenDown
  <2>11. ASSUME NEW x \in Requests
         PROVE  /\ AppendIsFree(request'[x], users', raced')
                /\ CopyIsOfUser(request'[x], idsOf', raced', suspensionOf')
                /\ IndexPoints(request'[x], users')
    <3>1. CASE x = r
      BY <1>2, <3>1 DEF AppendIsFree, CopyIsOfUser, IndexPoints
    <3>2. CASE x # r
      <4>1. \A i \in 1 .. Len(users') :
              \E j \in 1 .. Len(users) : users[j].login = users'[i].login
        BY <2>1, <2>2
      <4>2. request[x].pc = "hash" /\ ~request'[x].shifted =>
              /\ ~request[x].shifted
              /\ request[x].index \in 1 .. Len(users) =>
                   /\ request[x].index \in 1 .. Len(users')
                   /\ users'[request[x].index].login = users[request[x].index].login
        BY <1>2, <2>3, <3>2
      <4>3. request[x].pc = "update" /\ request[x].user.login \notin raced' =>
              request[x].user.suspended \in suspensionOf'[request[x].user.login]
        BY <1>0, SuspensionNotSet
      <4>4. (\A l \in Logins : idsOf[l] \subseteq idsOf'[l]) /\ raced \subseteq raced'
        BY <1>0
      <4> QED BY <1>2, <3>2, <4>1, <4>2, <4>3, <4>4, OtherRequests
    <3> QED BY <3>1, <3>2
  <2>12. CopiesKeepUsers'
    <3>1. SuspensionsAre(users, raced, suspensionOf) /\ PasswordsAre(users, raced \cup misdirected, lastSet)
      BY CopiesKeepLists DEF IInv
    <3>2. SuspensionsAre(users', raced, suspensionOf) /\ PasswordsAre(users', raced \cup misdirected, lastSet)
      BY <2>1, <2>2, <3>1 DEF SuspensionsAre, PasswordsAre
    <3> QED BY <1>0, <3>2, CopiesKeepLists
  <2>13. UsersOnDisk'
    BY <1>2 DEF UsersOnDisk
  <2> QED BY <2>7, <2>8, <2>9, <2>10, <2>11, <2>12, <2>13 DEF Rest, Strengthenings, RequestsAreSound
<1> QED BY <1>0, <1>1, <1>2, DeleteStep

-----------------------------------------------------------------------------
(* All steps.                                                              *)

\* The requests that create a user or find one.
LEMMA AddRequestRest == ASSUME IInv, NEW r \in Requests, AddRequest(r) PROVE Rest'
<1> PICK l \in Logins : \/ \E p \in Passwords : RestAddUser(r, l, p)
                        \/ ScimAddUser(r, l)
                        \/ ExternalAddUser(r, l)
                        \/ ExternalLogin(r, l)
  BY DEF AddRequest
<1>0. TypeOK /\ IdsAreNew /\ nextID \in Nat
  BY TypeFacts DEF IInv, Strengthenings
<1>1. ASSUME ScimAddUser(r, l) \/ ExternalAddUser(r, l) PROVE Rest'
  <2> DEFINE u == NewUser(l, NoPassword)
  <2>1. CanAdd(r, l) /\ nextID' = nextID + 1 /\ AppendUser(r, u)
    BY <1>1 DEF ScimAddUser, ExternalAddUser
  <2>2. /\ u \in User /\ u.id = nextID /\ u.login = l /\ u.suspended = FALSE /\ running
        /\ \A i \in 1 .. Len(users) : users[i].login # l
    <3>1. NoPassword \in Passwords \cup {NoPassword}
      OBVIOUS
    <3>2. u \in User /\ u.id = nextID /\ u.login = l /\ u.suspended = FALSE
      <4>1. nextID \in IDs
        BY <2>1 DEF CanAdd
      <4> QED BY <3>1, <4>1 DEF NewUser, User
    <3>3. running /\ \A i \in 1 .. Len(users) : users[i].login # l
      BY <1>0, <2>1, <3>1, NewUserParts
    <3> QED BY <3>2, <3>3
  <2> HIDE DEF u
  <2>3. \A m \in Logins : nextID \notin idsOf[m]
    BY <1>0 DEF IdsAreNew
  <2>4. \A x \in Requests \ {r} : request[x].pc = "append" => request[x].user.id # nextID
    BY <1>0 DEF IdsAreNew
  <2>5. u.id < nextID' /\ nextID <= nextID' /\ nextID' \in Nat
    BY <1>0, <2>1, <2>2
  <2> QED BY <2>1, <2>2, <2>3, <2>4, <2>5, AppendRest
<1>2. ASSUME ExternalLogin(r, l) PROVE Rest'
  <2>1. UNCHANGED unchangedByCopy /\ running /\ request[r].pc # "save"
    BY <1>0, <1>2, ExternalLoginStep
  <2>2. PICK i \in 1 .. Len(users), q \in Request :
          IsCopy(q, users[i]) /\ request' = [request EXCEPT ![r] = q] /\ q.pc # "hash"
    BY <1>0, <1>2, ExternalLoginStep
  <2> QED BY <2>1, <2>2, CopyRest
<1> QED BY <1>1, <1>2, NewUserRest

\* The requests about a user that there is.
LEMMA UserRequestRest == ASSUME IInv, NEW r \in Requests, UserRequest(r) PROVE Rest'
<1> PICK i \in 1 .. Len(users) :
      \/ LocalLogin(r, i)
      \/ ChangeFactor(r, i)
      \/ \E pc \in {"patch", "put", "delete"} : BeginEdit(r, i, pc)
      \/ RestDeleteUser(r, i)
      \/ \E p \in Passwords : ChangePassword(r, i, p)
  BY DEF UserRequest
<1>0. TypeOK
  BY DEF IInv
<1>1. CASE RestDeleteUser(r, i)
  <2>1. users[i].id \in IDs /\ running /\ request[r].pc = "idle"
    BY <1>0, <1>1, TypeFacts, UserParts DEF RestDeleteUser, CanStart
  <2> QED BY <1>1, <2>1, DeleteRest DEF RestDeleteUser
<1>2. CASE ~RestDeleteUser(r, i)
  <2>1. UNCHANGED unchangedByCopy /\ running /\ request[r].pc # "save"
    BY <1>0, <1>2, CopyStep
  <2>2. PICK q \in Request :
          IsCopy(q, users[i]) /\ request' = [request EXCEPT ![r] = q] /\ q.pc # "hash"
    BY <1>0, <1>2, CopyStep
  <2> QED BY <2>1, <2>2, CopyRest
<1> QED BY <1>1, <1>2

\* The edits that have their copy.
LEMMA EditRest == ASSUME IInv, NEW r \in Requests, Apply(r) \/ WriteCopyBack(r) PROVE Rest'
<1>0. TypeOK /\ request[r].pc \in {"update", "patch", "put"} /\ request[r].user \in User
  BY EditStep DEF IInv, Apply
<1>1. CASE /\ UNCHANGED unchangedByCopy
           /\ \E q \in Request :
                /\ request' = [request EXCEPT ![r] = q] /\ q.pc \in {"idle", "locate"}
                /\ q.deletes = {} /\ q.user \in {request[r].user, NoUser}
  <2>1. /\ running /\ request[r].pc \notin {"append", "save"}
        /\ UNCHANGED <<users, running, saveVars, passwordHistory, suspensionOf, creation, deleted>>
    BY <1>0, <1>1, Working DEF unchangedByCopy
  <2> QED BY <1>1, <2>1, ReturnRest
<1>2. CASE \E user \in User, p \in Passwords \cup {NoPassword} :
             /\ UpdateUser(r, user, p)
             /\ (\E i \in 1 .. Len(users) : users[i].login = user.login) =>
                  user.id = request[r].user.id /\ user.login = request[r].user.login
             /\ \/ request[r].pc = "update" /\ user = request[r].user /\ UNCHANGED suspensionOf
                \/ SetsSuspension(r, user.login, user.suspended)
  BY <1>0, <1>2, UpdateRest
<1> QED BY <1>0, <1>1, <1>2, EditStep DEF Apply

\* Every step.
LEMMA NextIInv == IInv /\ [Next]_vars => IInv'
<1> SUFFICES ASSUME IInv, [Next]_vars PROVE Rest'
  BY NextTypes DEF IInv, Rest
<1>0. TypeOK /\ IdsAreNew
  BY DEF IInv, Strengthenings
<1>1. ASSUME NEW r \in Requests, RestAppendUser(r) PROVE Rest'
  <2> DEFINE u == request[r].user
  <2>1. request[r].pc = "append" /\ AppendUser(r, u) /\ nextID' = nextID /\ running
    BY <1>1, Working DEF RestAppendUser
  <2>2. u \in User
    BY <1>0, <2>1, TypeFacts, RequestParts
  <2>3. /\ u.id < nextID /\ \A l \in Logins : u.id \notin idsOf[l]
        /\ \A x \in Requests \ {r} : request[x].pc = "append" => request[x].user.id # u.id
    BY <1>0, <2>1 DEF IdsAreNew
  <2>4. ~u.suspended /\ \A i \in 1 .. Len(users) : users[i].login = u.login => u.login \in raced
    BY <2>1 DEF IInv, Strengthenings, RequestsAreSound, AppendIsFree
  <2>5. nextID <= nextID' /\ nextID' \in Nat /\ u.id < nextID'
    BY <1>0, <2>1, <2>3, TypeFacts
  <2> HIDE DEF u
  <2> QED BY <2>1, <2>2, <2>3, <2>4, <2>5, AppendRest
<1>2. ASSUME NEW r \in Requests, EditFails(r) PROVE Rest'
  <2>1. /\ request[r].pc \notin {"append", "save", "idle"} /\ request' = [request EXCEPT ![r] = Idle]
        /\ UNCHANGED <<users, running, saveVars, passwordHistory, suspensionOf, creation, deleted>>
    BY <1>2 DEF EditFails, Return, unchangedByCopy
  <2> QED BY <2>1, Working, EmptyRequests, ReturnRest
<1>3. ASSUME NEW r \in Requests, ScimDeleteUser(r) PROVE Rest'
  <2>1. request[r].user.id \in IDs /\ request[r].pc = "delete" /\ running
    BY <1>0, <1>3, TypeFacts, RequestParts, UserParts, Working DEF ScimDeleteUser
  <2> QED BY <1>3, <2>1, DeleteRest DEF ScimDeleteUser
<1>4. ASSUME NEW r \in Requests, LocatePassword(r) PROVE Rest'
  <2>1. UNCHANGED unchangedByCopy /\ request[r].pc = "locate" /\ running
    BY <1>0, <1>4, LocateStep, Working
  <2>2. CASE request' = [request EXCEPT ![r] = Idle]
    BY <2>1, <2>2, EmptyRequests, ReturnRest DEF unchangedByCopy
  <2>3. ASSUME NEW i \in 1 .. Len(users), NEW q \in Request,
               IsCopy(q, users[i]), request' = [request EXCEPT ![r] = q], q.index = i
        PROVE  Rest'
    BY <2>1, <2>3, CopyRest
  <2> QED BY <1>0, <1>4, <2>2, <2>3, LocateStep
<1>5. ASSUME NEW r \in Requests, SaveUsersFails(r) PROVE Rest'
  <2>1. /\ request' = [request EXCEPT ![r] = Idle] /\ saveFailed' = TRUE /\ disk' \in {disk, Torn}
        /\ UNCHANGED <<users, running, passwordHistory, suspensionOf, creation, deleted>>
        /\ running /\ raced' = raced
    BY <1>5, Working DEF SaveUsersFails, Return, creation
  <2>2. CopyIsOfUser(Idle, idsOf, raced, suspensionOf') /\ IndexPoints(Idle, users)
    BY EmptyRequests DEF CopyIsOfUser, IndexPoints
  <2>3. SuspensionsAre(users, raced, suspensionOf')
    BY <2>1, CopiesKeepLists DEF IInv
  <2> QED BY <2>1, <2>2, <2>3, EmptyRequests, SuspensionNotSet, QuietStep
<1>6. CASE UNCHANGED vars
  <2>1. Gone' = Gone
    BY <1>6 DEF Gone, vars
  <2>2. IdsAreNew'
    BY <1>6, <2>1 DEF IInv, Strengthenings, IdsAreNew, vars, creation
  <2>3. WellFormed(users', idsOf', raced') /\ Without(users', Gone', idsOf')
    BY <1>6, <2>1 DEF IInv, Strengthenings, vars, creation
  <2>4. FileIsSound' /\ NothingWhenDown' /\ UsersOnDisk'
    BY <1>6 DEF IInv, Strengthenings, FileIsSound, NothingWhenDown, UsersOnDisk, vars, saveVars, creation
  <2>5. RequestsAreSound'
    BY <1>6 DEF IInv, Strengthenings, RequestsAreSound, vars, creation
  <2>6. CopiesKeepUsers'
    BY <1>6, CopiesKeepLists DEF IInv, vars, creation, passwordHistory
  <2> QED BY <2>2, <2>3, <2>4, <2>5, <2>6 DEF Rest, Strengthenings
<1> QED BY <1>1, <1>2, <1>3, <1>4, <1>5, <1>6, AddRequestRest, UserRequestRest, EditRest,
           WriteRest, SaveRest, CrashRest, RestartRest DEF Next, Proceed

\* The inductive invariant holds.
LEMMA Inductive == Spec => []IInv
<1>1. Init => IInv
  BY InitTypes, InitRest DEF IInv, Rest
<1>2. IInv /\ [Next]_vars => IInv'
  BY NextIInv
<1> QED BY <1>1, <1>2, PTL DEF Spec

-----------------------------------------------------------------------------
(* What follows.                                                           *)

\* Requests hold users where they need them, and a slice of users is one of users.
THEOREM AccountTypes == Spec => []TypeOK
<1>1. IInv => TypeOK
  BY DEF IInv
<1> QED BY <1>1, Inductive, PTL

\* When nobody is about to write and the last write has not failed, users.json holds what
\* is in memory (users/save.go).
THEOREM FileHoldsUsers == Spec => []UsersOnDisk
<1>1. IInv => UsersOnDisk
  BY DEF IInv
<1> QED BY <1>1, Inductive, PTL

\* A login names one user, the one it was created for, unless two requests created it at
\* the same time: copies of any age that are written back do not change this
\* (users/localusers.go).
THEOREM LoginsNameUsers == Spec => []LoginsIdentifyUsers
<1>1. IInv => LoginsIdentifyUsers
  BY DEF IInv, Strengthenings, WellFormed, LoginsIdentifyUsers, LoginsAreUnique, IdentityIsKept
<1> QED BY <1>1, Inductive, PTL

\* A password or a suspension that was set last is what the user has, whatever copy of the
\* user is written back late (UpdateUser, users/localusers.go:125-139).
THEOREM CopiesDoNotUndo == Spec => []CopiesKeepUsers
<1>1. IInv => CopiesKeepUsers
  BY DEF IInv
<1> QED BY <1>1, Inductive, PTL

\* A deletion that was answered is final, across crashes and whatever copies are left,
\* unless the login was created again.
THEOREM DeletionsAreFinal == Spec => []DeletedStaysDeleted
<1>1. IInv => DeletedStaysDeleted
  <2> SUFFICES ASSUME IInv, NEW i \in 1 .. Len(users), users[i].id \in deleted
               PROVE  Cardinality(idsOf[users[i].login]) > 1
    BY DEF DeletedStaysDeleted
  <2> DEFINE ids == idsOf[users[i].login]
  <2>1. Without(users, Gone, idsOf) /\ deleted \subseteq Gone
    BY DEF IInv, Strengthenings, Gone
  <2>2. HasTwo(ids)
    BY <2>1 DEF Without
  <2>3. ids \subseteq IDs
    <3>1. users[i].login \in Logins
      BY TypeFacts, UserParts DEF IInv
    <3> QED BY <3>1 DEF IInv, TypeOK
  <2>4. IsFiniteSet(IDs)
    BY Bounds, FS_Interval DEF IDs
  <2> HIDE DEF ids
  <2>5. IsFiniteSet(ids) /\ Cardinality(ids) \in Nat
    BY <2>3, <2>4, FS_Subset, FS_CardinalityType
  <2>6. PICK a \in ids, b \in ids : a # b
    BY <2>2 DEF HasTwo
  <2>7. Cardinality(ids \ {a}) = Cardinality(ids) - 1 /\ IsFiniteSet(ids \ {a})
    BY <2>5, <2>6, FS_RemoveElement
  <2>8. Cardinality(ids \ {a}) # 0
    <3>1. b \in ids \ {a}
      BY <2>6
    <3> QED BY <2>7, <3>1, FS_EmptySet
  <2>9. Cardinality(ids) > 1
    <3>1. Cardinality(ids \ {a}) \in Nat
      BY <2>7, FS_CardinalityType
    <3> QED BY <2>5, <2>7, <2>8, <3>1
  <2> QED BY <2>9 DEF ids
<1> QED BY <1>1, Inductive, PTL
=============================================================================
