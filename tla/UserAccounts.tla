---------------------------- MODULE UserAccounts ----------------------------
(***************************************************************************)
(* The user store (users) and the requests that change it: the user pages  *)
(* of the administrators (rest/users.go), the profile pages                *)
(* (rest/profile.go), local and external logins (rest/auth.go) and SCIM    *)
(* provisioning (auth/provisioning/scim).                                  *)
(*                                                                         *)
(* The store is a slice without a lock; UserStoreMu only covers the write  *)
(* of users.json.  A step of a request is what it does between two calls   *)
(* that take time: hashing or comparing a password, reading the body of    *)
(* the request, a hook of the application, writing the file.  A request    *)
(* copies a user in one step and writes the copy back whole in a later one.*)
(*                                                                         *)
(* Of a user the model keeps the identity, the password and the suspension.*)
(* Role, factors, external ids and the last login are in the copies too;   *)
(* they are lost and restored with the suspension.                         *)
(***************************************************************************)
EXTENDS Naturals, FiniteSets, SequencesExt

CONSTANTS
    Logins,            \* login names
    Passwords,         \* hashed passwords
    Requests,          \* requests in flight
    LicenseUserCount,  \* users the licence allows, as the REST handlers see it
    MaxUsers,          \* users the licence allows, as the user store sees it
    MaxIDs,            \* bound: users ever created
    MaxFaults,         \* bound: crashes of the process and writes that fail
    NoPassword,        \* the empty password of external and provisioned users
    NoUser,            \* no copy of a user
    Torn               \* users.json was written in part and does not decode

IDs == 1 .. MaxIDs

User == [id : IDs, login : Logins, password : Passwords \cup {NoPassword},
         suspended : BOOLEAN]

\* The local variables of a request.
Request ==
    {q \in [pc : {"idle", "append", "update", "patch", "put", "delete", "locate", "hash", "save"},
            user : User \cup {NoUser}, password : Passwords \cup {NoPassword},
            index : Nat, shifted : BOOLEAN, deletes : SUBSET IDs] :
        /\ q.pc \notin {"idle", "save"} \/ (q.pc = "save" /\ q.password # NoPassword)
             => q.user # NoUser
        /\ q.pc = "hash" => q.index > 0
        /\ q.pc # "save" => q.deletes = {}}

ASSUME Sentinels ==
    /\ NoPassword \notin Passwords
    /\ NoUser \notin User
    /\ Torn \notin Seq(User)

ASSUME Bounds ==
    /\ LicenseUserCount \in Nat /\ MaxUsers \in Nat
    /\ MaxIDs \in Nat /\ MaxFaults \in Nat

VARIABLES
    users,        \* UserStore.Users
    disk,         \* users.json
    request,      \* local variables of each request
    nextID,       \* the next uuid
    running,      \* the process is up
    faults,       \* crashes and failed writes so far
    saveFailed,   \* history: the last write of users.json failed
    idsOf,        \* history: the ids of the users created under each login
    raced,        \* history: logins created twice at the same time
    lastSet,      \* history: the password last set for each login
    misdirected,  \* history: logins that got the password of another user
    suspensionOf, \* history: the suspension last set for each login, and that of older copies
    deleted       \* history: ids whose deletion was answered

saveVars == <<disk, faults, saveFailed>>
passwordHistory == <<lastSet, misdirected>>
creation == <<nextID, idsOf, raced>>
vars == <<users, request, running, saveVars, passwordHistory, suspensionOf, creation,
          deleted>>

Idle == [pc |-> "idle", user |-> NoUser, password |-> NoPassword,
         index |-> 0, shifted |-> FALSE, deletes |-> {}]

\* The loops over the slice: the first match, 0 if there is none.
IndexOfLogin(l) == SelectInSeq(users, LAMBDA user : user.login = l)
IndexOfID(id)   == SelectInSeq(users, LAMBDA user : user.id = id)
LoginExists(l)  == IndexOfLogin(l) # 0

CanStart(r) == running /\ request[r].pc = "idle"

Return(r) == request' = [request EXCEPT ![r] = Idle]

Continue(r, fields) == request' = [request EXCEPT ![r] = fields]

\* The change is in memory; SaveUsers comes next.
Saving == [Idle EXCEPT !.pc = "save"]

-----------------------------------------------------------------------------
(* New users.                                                              *)

NewUser(l, p) == [id |-> nextID, login |-> l, password |-> p, suspended |-> FALSE]

\* Request r sets the suspension of a login; a copy of the user that another request has
\* taken before does not know of it, and will be written back.
SetsSuspension(r, l, suspended) ==
    LET copies == {q \in Requests \ {r} : request[q].pc = "update" /\ request[q].user.login = l} IN
    suspensionOf' = [suspensionOf EXCEPT ![l] =
                        {suspended} \cup {request[q].user.suspended : q \in copies}]

\* append(u.Users, user).  Two creations of a login race when the second one is
\* between its check and its append.
AppendUser(r, user) ==
    /\ users' = Append(users, user)
    /\ Continue(r, Saving)
    /\ idsOf' = [idsOf EXCEPT ![user.login] = @ \cup {user.id}]
    /\ lastSet' = [lastSet EXCEPT ![user.login] = user.password]
    /\ SetsSuspension(r, user.login, FALSE)
    /\ raced' = IF \E q \in Requests \ {r} : /\ request[q].pc = "append"
                                             /\ request[q].user.login = user.login
                THEN raced \cup {user.login} ELSE raced
    /\ UNCHANGED <<running, saveVars, misdirected, deleted>>

\* Mutant of CanAdd: AddUser does not look for the login.
CanAddAnyLogin(r, l) == CanStart(r) /\ nextID \in IDs

\* The check of AddUser, and of its callers before it.
CanAdd(r, l) == CanStart(r) /\ nextID \in IDs /\ ~LoginExists(l)

\* usersHandler (POST): the licence, AddUser's check and the id; then the
\* password is hashed.
RestAddUser(r, l, p) ==
    /\ CanAdd(r, l)
    /\ Len(users) < LicenseUserCount
    /\ nextID' = nextID + 1
    /\ Continue(r, [Idle EXCEPT !.pc = "append", !.user = NewUser(l, p)])
    /\ UNCHANGED <<users, running, saveVars, passwordHistory, suspensionOf, idsOf, raced,
                   deleted>>

RestAppendUser(r) ==
    /\ request[r].pc = "append"
    /\ AppendUser(r, request[r].user)
    /\ UNCHANGED nextID

\* PostUsersHandler: no password, so AddUser does not wait.
ScimAddUser(r, l) ==
    /\ CanAdd(r, l)
    /\ Len(users) < MaxUsers
    /\ nextID' = nextID + 1
    /\ AppendUser(r, NewUser(l, NoPassword))

\* addOrModifyExternalUser, a login that is not known yet: no licence is asked.
ExternalAddUser(r, l) ==
    /\ CanAdd(r, l)
    /\ nextID' = nextID + 1
    /\ AppendUser(r, NewUser(l, NoPassword))

-----------------------------------------------------------------------------
(* Requests that copy a user and write the copy back.                      *)

unchangedByCopy == <<users, running, saveVars, passwordHistory, suspensionOf, creation,
                     deleted>>

Copy(r, pc, user) == Continue(r, [Idle EXCEPT !.pc = pc, !.user = user])

\* Authenticate: AuthUser copies the user, then compares the passwords.
LocalLogin(r, i) ==
    /\ CanStart(r)
    /\ users[i].password # NoPassword
    /\ ~users[i].suspended
    /\ Copy(r, "update", users[i])
    /\ UNCHANGED unchangedByCopy

\* addOrModifyExternalUser, a known login: the copy waits for ReactivateFunc.
ExternalLogin(r, l) ==
    /\ CanStart(r)
    /\ LoginExists(l)
    /\ Copy(r, "update", users[IndexOfLogin(l)])
    /\ UNCHANGED unchangedByCopy

\* profileFactorsHandler: the user of the request's context, copied by
\* injectUserMiddleware; the body is read and the code verified after that.
ChangeFactor(r, i) ==
    /\ CanStart(r)
    /\ Copy(r, "update", users[i])
    /\ UNCHANGED unchangedByCopy

\* userHandler (PATCH), PutUserHandler and DeleteUserHandler start with
\* GetUserByID, which blanks the password of the copy.
BeginEdit(r, i, pc) ==
    /\ CanStart(r)
    /\ Copy(r, pc, [users[i] EXCEPT !.password = NoPassword])
    /\ UNCHANGED unchangedByCopy

\* The body does not decode or a hook fails.
EditFails(r) ==
    /\ request[r].pc \in {"update", "patch", "put", "delete", "locate"}
    /\ Return(r)
    /\ UNCHANGED unchangedByCopy

\* Mutant of WrittenBack: the password is not kept.
WrittenBackWhole(user, existing) == user

\* What UpdateUser puts in the place of the existing user.
WrittenBack(user, existing) == [user EXCEPT !.password = existing.password]

\* Mutant of UpdateUser: a user that is not found is added.
UpdateOrAddUser(r, user, p) ==
    LET k == IndexOfLogin(user.login) IN
    /\ users' = IF k = 0 THEN Append(users, user)
                ELSE ReplaceAt(users, k, WrittenBack(user, users[k]))
    /\ Continue(r, IF p = NoPassword THEN Saving
                   ELSE [Saving EXCEPT !.password = p, !.user = user])
    /\ UNCHANGED <<running, saveVars, passwordHistory, creation, deleted>>

\* UpdateUser: the user is looked up by login and replaced.  The password p,
\* if there is one, is set after the save.
UpdateUser(r, user, p) ==
    LET k == IndexOfLogin(user.login) IN
    /\ IF k = 0
       THEN Return(r) /\ UNCHANGED users
       ELSE /\ users' = ReplaceAt(users, k, WrittenBack(user, users[k]))
            /\ Continue(r, IF p = NoPassword THEN Saving
                           ELSE [Saving EXCEPT !.password = p, !.user = user])
    /\ UNCHANGED <<running, saveVars, passwordHistory, creation, deleted>>

\* LastLogin, the factors or the link to the external account have changed.
WriteCopyBack(r) ==
    /\ request[r].pc = "update"
    /\ UpdateUser(r, request[r].user, NoPassword)
    /\ UNCHANGED suspensionOf

\* userHandler (PATCH): UpdateUser only if the role or the suspension changes,
\* then UpdatePassword if the body has a password.
ApplyPatch(r, suspended, newRole, p) ==
    LET user == request[r].user IN
    /\ request[r].pc = "patch"
    /\ IF newRole \/ suspended # user.suspended
       THEN /\ UpdateUser(r, [user EXCEPT !.suspended = suspended], p)
            /\ SetsSuspension(r, user.login, suspended)
       ELSE /\ Continue(r, IF p = NoPassword THEN Idle
                           ELSE [Idle EXCEPT !.pc = "locate", !.user = user, !.password = p])
            /\ UNCHANGED unchangedByCopy

\* PutUserHandler takes the new login if nobody has it.
Renamed(user, l) ==
    IF LoginExists(l) THEN user ELSE [user EXCEPT !.login = l]

\* PutUserHandler after the hooks.  UpdateUser looks for the new login, so a
\* request that renames the user fails.
ApplyPut(r, suspended, l) ==
    /\ request[r].pc = "put"
    /\ LET user == Renamed([request[r].user EXCEPT !.suspended = suspended], l) IN
          UpdateUser(r, user, NoPassword) /\ SetsSuspension(r, user.login, suspended)

-----------------------------------------------------------------------------
(* Deletion.                                                               *)

\* DeleteUserByID: the users behind the deleted one move up, under the indexes
\* that UpdatePassword has found.
DeleteUserByID(r, id) ==
    LET k == IndexOfID(id) IN
    /\ IF k = 0
       THEN Return(r) /\ UNCHANGED users
       ELSE /\ users' = RemoveAt(users, k)
            /\ request' =
                  [q \in Requests |->
                      IF q = r THEN [Saving EXCEPT !.deletes = {id}]
                      ELSE IF request[q].pc = "hash" /\ request[q].index >= k
                      THEN [request[q] EXCEPT !.shifted = TRUE]
                      ELSE request[q]]
    /\ UNCHANGED <<running, saveVars, passwordHistory, suspensionOf, creation, deleted>>

\* userHandler (DELETE).
RestDeleteUser(r, i) ==
    /\ CanStart(r)
    /\ DeleteUserByID(r, users[i].id)

\* DeleteUserHandler, after GetUserByID and DeleteFunc.
ScimDeleteUser(r) ==
    /\ request[r].pc = "delete"
    /\ DeleteUserByID(r, request[r].user.id)

-----------------------------------------------------------------------------
(* Passwords.                                                              *)

\* profilePasswordHandler: the user is that of the request's context.
ChangePassword(r, i, p) ==
    /\ CanStart(r)
    /\ Continue(r, [Idle EXCEPT !.pc = "locate", !.user = users[i], !.password = p])
    /\ UNCHANGED unchangedByCopy

\* UpdatePassword finds the index of the user, then hashes the password.
LocatePassword(r) ==
    LET k == IndexOfID(request[r].user.id) IN
    /\ request[r].pc = "locate"
    /\ IF k = 0 THEN Return(r)
       ELSE Continue(r, [request[r] EXCEPT !.pc = "hash", !.index = k, !.user = users[k]])
    /\ UNCHANGED unchangedByCopy

\* Mutant of PasswordWritten: the request does not save.
PasswordWrittenUnsaved(r) ==
    /\ users' = [users EXCEPT ![request[r].index].password = request[r].password]
    /\ Return(r)

PasswordWritten(r) ==
    /\ users' = [users EXCEPT ![request[r].index].password = request[r].password]
    /\ Continue(r, Saving)

\* The hash is written under the index found before; if the slice has become
\* too short the handler panics and net/http recovers.
WritePassword(r) ==
    LET k == request[r].index IN
    /\ request[r].pc = "hash"
    /\ IF k > Len(users)
       THEN Return(r) /\ UNCHANGED <<users, passwordHistory>>
       ELSE /\ PasswordWritten(r)
            /\ IF request[r].shifted
               THEN /\ misdirected' = misdirected \cup {users[k].login}
                    /\ UNCHANGED lastSet
               ELSE /\ lastSet' = [lastSet EXCEPT ![request[r].user.login] =
                                       request[r].password]
                    /\ UNCHANGED misdirected
    /\ UNCHANGED <<running, saveVars, suspensionOf, creation, deleted>>

-----------------------------------------------------------------------------
(* The file and the process.                                               *)

\* A PATCH with a password goes on with UpdatePassword.
AfterSave(r) ==
    IF request[r].password = NoPassword THEN Idle
    ELSE [Idle EXCEPT !.pc = "locate", !.user = request[r].user,
                      !.password = request[r].password]

\* SaveUsers marshals and writes under UserStoreMu.
SaveUsers(r) ==
    /\ request[r].pc = "save"
    /\ disk' = users
    /\ saveFailed' = FALSE
    /\ deleted' = deleted \cup request[r].deletes
    /\ Continue(r, AfterSave(r))
    /\ UNCHANGED <<users, running, faults, passwordHistory, suspensionOf, creation>>

\* The write fails, perhaps after it has truncated the file; the request ends
\* with an error and the users in memory stay as they are.
SaveUsersFails(r) ==
    /\ request[r].pc = "save"
    /\ faults < MaxFaults
    /\ faults' = faults + 1
    /\ disk' \in {disk, Torn}
    /\ saveFailed' = TRUE
    /\ Return(r)
    /\ UNCHANGED <<users, running, passwordHistory, suspensionOf, creation, deleted>>

\* A crash in the middle of a write is one fault, not two.
CountCrash ==
    IF saveFailed THEN UNCHANGED faults
    ELSE faults < MaxFaults /\ faults' = faults + 1

Crash ==
    /\ running
    /\ CountCrash
    /\ running' = FALSE
    /\ users' = <<>>
    /\ saveFailed' = FALSE
    /\ request' = [r \in Requests |-> Idle]
    /\ UNCHANGED <<disk, passwordHistory, suspensionOf, creation, deleted>>

\* The password of each login in a list of users.
PasswordsIn(list) ==
    [l \in Logins |->
        LET k == SelectInSeq(list, LAMBDA user : user.login = l)
        IN IF k = 0 THEN NoPassword ELSE list[k].password]

\* Mutant of Restart: the decode error is ignored.
RestartUnchecked ==
    /\ ~running
    /\ running' = TRUE
    /\ users' = disk
    /\ UNCHANGED <<request, saveVars, passwordHistory, suspensionOf, creation, deleted>>

\* NewUserStore: a file that does not decode keeps the server from starting.
Restart ==
    /\ ~running
    /\ disk # Torn
    /\ running' = TRUE
    /\ users' = disk
    /\ lastSet' = PasswordsIn(disk)
    /\ suspensionOf' = [l \in Logins |->
          {disk[k].suspended : k \in {k \in 1 .. Len(disk) : disk[k].login = l}}]
    /\ UNCHANGED <<request, saveVars, misdirected, creation, deleted>>

Init ==
    /\ users = <<>>
    /\ disk = <<>>
    /\ request = [r \in Requests |-> Idle]
    /\ nextID = 1
    /\ running = TRUE
    /\ faults = 0
    /\ saveFailed = FALSE
    /\ idsOf = [l \in Logins |-> {}]
    /\ raced = {}
    /\ lastSet = [l \in Logins |-> NoPassword]
    /\ misdirected = {}
    /\ suspensionOf = [l \in Logins |-> {}]
    /\ deleted = {}

AddRequest(r) ==
    \E l \in Logins : \/ \E p \in Passwords : RestAddUser(r, l, p)
                      \/ ScimAddUser(r, l)
                      \/ ExternalAddUser(r, l)
                      \/ ExternalLogin(r, l)

UserRequest(r) ==
    \E i \in 1 .. Len(users) :
        \/ LocalLogin(r, i)
        \/ ChangeFactor(r, i)
        \/ \E pc \in {"patch", "put", "delete"} : BeginEdit(r, i, pc)
        \/ RestDeleteUser(r, i)
        \/ \E p \in Passwords : ChangePassword(r, i, p)

Apply(r) ==
    \E suspended \in BOOLEAN :
        \/ \E newRole \in BOOLEAN, p \in Passwords \cup {NoPassword} :
              ApplyPatch(r, suspended, newRole, p)
        \/ \E l \in Logins : ApplyPut(r, suspended, l)

Proceed(r) ==
    \/ RestAppendUser(r)
    \/ EditFails(r)
    \/ WriteCopyBack(r)
    \/ ScimDeleteUser(r)
    \/ LocatePassword(r)
    \/ WritePassword(r)
    \/ SaveUsers(r)
    \/ SaveUsersFails(r)

Next ==
    \/ \E r \in Requests : AddRequest(r) \/ UserRequest(r) \/ Apply(r) \/ Proceed(r)
    \/ Crash
    \/ Restart

Spec == Init /\ [][Next]_vars

-----------------------------------------------------------------------------
(* Properties.                                                             *)

\* The values the variables take.
TypeOK ==
    /\ users \in Seq(User)
    /\ disk \in Seq(User) \cup {Torn}
    /\ request \in [Requests -> Request]
    /\ nextID \in 1 .. MaxIDs + 1
    /\ running \in BOOLEAN
    /\ faults \in 0 .. MaxFaults
    /\ saveFailed \in BOOLEAN
    /\ idsOf \in [Logins -> SUBSET IDs]
    /\ raced \subseteq Logins
    /\ lastSet \in [Logins -> Passwords \cup {NoPassword}]
    /\ misdirected \subseteq Logins
    /\ suspensionOf \in [Logins -> SUBSET BOOLEAN]
    /\ deleted \subseteq IDs

\* A login belongs to one user, unless two requests created it at the same time
\* (AddUser checks the login, hashes, then appends).  Renames, deletions and
\* stale copies written back never lead to a second user with the same login.
LoginsAreUnique ==
    \A i, j \in 1 .. Len(users) :
        users[i].login = users[j].login /\ i # j => users[i].login \in raced

\* A user keeps its identity: a record has an id that was created under its
\* login, although UpdateUser replaces records whole, by login, with copies that
\* may be older than the record.
IdentityIsKept ==
    \A i \in 1 .. Len(users) : users[i].id \in idsOf[users[i].login]

\* When nobody is about to write and the last write has not failed, users.json
\* holds the users in memory, in their order.
UsersOnDisk ==
    running /\ ~saveFailed /\ (\A r \in Requests : request[r].pc # "save")
        => disk = users

\* A user has the password that was set last for its login: a login, a profile
\* change or an edit that has copied the user before does not bring an older
\* one back.  Not so for a login created twice, nor when a deletion has moved
\* the users while a password was hashed (UpdatePassword writes by index).
PasswordIsLastSet ==
    \A i \in 1 .. Len(users) :
        users[i].login \notin raced \cup misdirected =>
            users[i].password = lastSet[users[i].login]

\* A suspension that an administrator or SCIM has set, or taken back, stands, although every
\* login and every change of a factor writes the suspension of its copy too (users.go:166,
\* auth.go:61, localusers.go:130).  Only a request that held a copy from before can undo it,
\* and only to what that copy says.
SuspensionIsLastSet ==
    \A i \in 1 .. Len(users) :
        users[i].login \notin raced => users[i].suspended \in suspensionOf[users[i].login]

\* A login names one user, and the one it was created for.
LoginsIdentifyUsers == LoginsAreUnique /\ IdentityIsKept

\* What was set for a user last is what the user has, whatever copies are written back late
\* (UpdateUser, localusers.go:125-139).
CopiesKeepUsers == PasswordIsLastSet /\ SuspensionIsLastSet

\* A deletion that was answered is final, also across a crash and whatever
\* copies of the user other requests still hold - unless the login was created
\* again, for then UpdateUser finds it and puts the old user in its place.
DeletedStaysDeleted ==
    \A i \in 1 .. Len(users) :
        users[i].id \in deleted => Cardinality(idsOf[users[i].login]) > 1

-----------------------------------------------------------------------------
(* What makes the invariants inductive.                                    *)

HasTwo(ids) == \E a, b \in ids : a # b

\* A list of users, with the ids that were created under each login and the logins that
\* were created twice at once: each user has an id of its login, and a login that occurs
\* twice was created twice.
WellFormed(list, ids, twice) ==
    /\ \A i \in 1 .. Len(list) : list[i].id \in ids[list[i].login]
    /\ \A i, j \in 1 .. Len(list) :
         list[i].login = list[j].login /\ i # j =>
            list[i].login \in twice /\ HasTwo(ids[list[i].login])

\* A list without users that are gone, unless their login was created again.
Without(list, gone, ids) ==
    \A i \in 1 .. Len(list) : list[i].id \in gone => HasTwo(ids[list[i].login])

\* The ids of users that were deleted, or whose deletion is being saved.
Gone == deleted \cup UNION {request[r].deletes : r \in Requests}

IdsAreNew ==
    /\ \A l \in Logins : \A id \in idsOf[l] : id < nextID
    /\ \A l, m \in Logins : l # m => idsOf[l] \cap idsOf[m] = {}
    /\ \A r \in Requests : request[r].pc = "append" =>
         /\ request[r].user.id < nextID
         /\ \A l \in Logins : request[r].user.id \notin idsOf[l]
         /\ \A q \in Requests \ {r} :
              request[q].pc = "append" => request[q].user.id # request[r].user.id
    /\ \A id \in Gone : \E l \in Logins : id \in idsOf[l]

\* A process that is down has nothing in memory.
NothingWhenDown == ~running => users = <<>> /\ \A r \in Requests : request[r] = Idle

\* What is in the file is fit to start from.
FileIsSound ==
    disk # Torn => WellFormed(disk, idsOf, raced) /\ Without(disk, deleted, idsOf)

\* A user about to be appended is not suspended, and its login is free, unless somebody
\* else has created it since.
AppendIsFree(q, list, twice) ==
    q.pc = "append" =>
        /\ ~q.user.suspended
        /\ \A i \in 1 .. Len(list) : list[i].login = q.user.login => list[i].login \in twice

\* A copy is of a user that there was, and if it will be written back, its suspension is one
\* that the login may have.
CopyIsOfUser(q, ids, twice, suspensions) ==
    /\ q.pc # "append" /\ q.user # NoUser => q.user.id \in ids[q.user.login]
    /\ q.pc = "update" /\ q.user.login \notin twice =>
         q.user.suspended \in suspensions[q.user.login]

\* A password is written to its user, unless a deletion has moved it.
IndexPoints(q, list) ==
    q.pc = "hash" /\ ~q.shifted =>
        q.index \in 1 .. Len(list) /\ list[q.index].login = q.user.login

RequestsAreSound ==
    \A r \in Requests :
        /\ AppendIsFree(request[r], users, raced)
        /\ CopyIsOfUser(request[r], idsOf, raced, suspensionOf)
        /\ IndexPoints(request[r], users)

Strengthenings ==
    /\ WellFormed(users, idsOf, raced) /\ Without(users, Gone, idsOf)
    /\ IdsAreNew /\ NothingWhenDown /\ FileIsSound
    /\ RequestsAreSound
=============================================================================
