---------------------------- MODULE OIDCSessions ----------------------------
(***************************************************************************)
(* The OIDC session store (auth/oidc/store), the login handlers that fill  *)
(* it (rest/auth.go) and the renewal worker that refreshes it              *)
(* (auth/oidc/store/renewal).                                              *)
(*                                                                         *)
(* A login has two requests. The first one stores a pending entry under a  *)
(* fresh random state; the identity provider sends the browser back with   *)
(* that state and a code, and the second one, the callback, redeems the    *)
(* code for tokens.  Callbacks run one at a time, under RetrieveTokenLock; *)
(* the store's map is protected by store.Mu per access only, so a renewal  *)
(* and a cleanup interleave with a callback between any two accesses.      *)
(*                                                                         *)
(* A state and the uuid in OAuthData.ID are both fresh in the request that *)
(* creates the entry and never change, so one model value stands for both. *)
(* Subject and UserInfo.Email are one account: an identity provider keeps  *)
(* the email of a subject, so entries with the same subject have the same  *)
(* email and the email test of the cleanup decides alone.                  *)
(***************************************************************************)
EXTENDS Naturals, FiniteSets

CONSTANTS
    States,           \* the random state strings handed out, also the entry IDs
    Accounts,         \* accounts of the identity provider, also the user logins
    Callbacks,        \* callback requests in flight
    Worker,           \* the renewal worker, a goroutine of the renewal package
    Admins,           \* "renew all tokens" requests of administrators in flight
    RENEWAL_RETRIES,  \* refreshes that fail before the entry is given up
    PendingWindow,    \* the ten minutes of the cleanup, in ticks
    MaxTime,          \* bound: the clock stops here
    MaxTokens,        \* bound: tokens the provider issues for one entry
    MaxFaults,        \* bound: crashes of the process and writes that fail
    Suspendable,      \* bound: the accounts administrators suspend and unsuspend
    NoEntry,          \* no value under this key of the map
    NoAccount,        \* the empty subject and email of a pending entry
    NoState,          \* no key, and the empty OIDCID of a user
    NoHolder,         \* RetrieveTokenLock is free
    Torn              \* oidcstore.json was written in part and does not decode

Renewers == {Worker} \cup Admins

Entry == [createdAt : Nat, account : Accounts \cup {NoAccount}, token : Nat,
          suspended : BOOLEAN, retries : Nat, renewalFailed : BOOLEAN]

MaybeEntry == Entry \cup {NoEntry}

User == [exists : BOOLEAN, oidcID : States \cup {NoState},
         suspended : BOOLEAN, disabled : BOOLEAN]

CallbackState ==
    [pc : {"idle", "waiting", "exchange", "store", "save", "cleanup"},
     key : States \cup {NoState}, entry : MaybeEntry]

RenewerState ==
    [pc : {"idle", "cleanup", "visit", "request", "save", "disable"},
     todo : SUBSET States, key : States \cup {NoState}, entry : MaybeEntry,
     deleted : BOOLEAN, disabledUsers : SUBSET [account : Accounts, user : User]]

ASSUME DistinctSentinels ==
    /\ NoEntry \notin Entry
    /\ NoState \notin States
    /\ NoAccount \notin Accounts
    /\ NoHolder \notin Callbacks
    /\ Torn \notin [States -> MaybeEntry]
    /\ Worker \notin Admins
    /\ Suspendable \subseteq Accounts

ASSUME NumericBounds ==
    /\ RENEWAL_RETRIES \in Nat \ {0}
    /\ PendingWindow \in Nat \ {0}
    /\ MaxTime \in Nat /\ MaxTokens \in Nat /\ MaxFaults \in Nat

VARIABLES
    store,       \* Store.OAuth2Data, the map in memory
    disk,        \* oidcstore.json
    users,       \* the fields of the user store that a login writes
    lock,        \* the callback that holds RetrieveTokenLock
    callback,    \* local variables of each callback request
    renewer,     \* local variables of the worker and of each renew-all request
    starting,    \* login requests between StoreEntry and SaveOIDCStore
    used,        \* states already handed out
    now,         \* time.Now()
    running,     \* the process is up
    faults,      \* crashes and failed writes so far
    saveFailed,  \* history: the last write of oidcstore.json failed
    overlapped,  \* history: renewers whose entry another one refreshed meanwhile
    exhausted,   \* history: entries that once failed RENEWAL_RETRIES times
    answered     \* history: the sessions whose token a callback has answered

saveVars  == <<disk, saveFailed, faults>>
storeVars == <<store, saveVars>>
outsideCallback == <<starting, used, renewer, overlapped, exhausted, now, running>>
outsideRenewal  == <<lock, callback, starting, used, now, running, answered>>
vars == <<store, disk, users, lock, callback, renewer, starting, used, now,
          running, faults, saveFailed, overlapped, exhausted, answered>>

EmptyStore == [s \in States |-> NoEntry]

IdleCallback == [pc |-> "idle", key |-> NoState, entry |-> NoEntry]

IdleRenewer == [pc |-> "idle", todo |-> {}, key |-> NoState, entry |-> NoEntry,
                deleted |-> FALSE, disabledUsers |-> {}]

PendingEntry(time) ==
    [createdAt |-> time, account |-> NoAccount, token |-> 0,
     suspended |-> FALSE, retries |-> 0, renewalFailed |-> FALSE]

\* What identifies an answered session: no two entries have one createdAt.
Session(data) == [account |-> data.account, createdAt |-> data.createdAt]

HasToken(s) == store[s] # NoEntry /\ store[s].token > 0
Pending(s)  == store[s] # NoEntry /\ store[s].token = 0

(***************************************************************************)
(* SaveOIDCStore marshals and writes under store.Mu, so a write that       *)
(* succeeds puts the map of that moment on disk.  A write that fails may   *)
(* have truncated the file first (os.WriteFile); a crash in the middle of  *)
(* a write is such a failure followed by Crash.                            *)
(***************************************************************************)
SaveOIDCStore ==
    /\ disk' = store
    /\ saveFailed' = FALSE
    /\ UNCHANGED faults

SaveOIDCStoreFails ==
    /\ faults < MaxFaults
    /\ faults' = faults + 1
    /\ disk' \in {disk, Torn}
    /\ saveFailed' = TRUE

\* Mutant of TrySave: the caller forgets to save.
TrySaveForgotten == UNCHANGED saveVars

TrySave == SaveOIDCStore \/ SaveOIDCStoreFails

(***************************************************************************)
(* What CleanupOAuth2Data(data), with data the entry of key k, leaves of   *)
(* the map: it removes the entries of the same account created before      *)
(* data, and the entries without a token that are young.                   *)
(***************************************************************************)
\* Mutant of SupersededBy: the comparison of the dates is the wrong way round.
SupersededByOlder(s, k, data) ==
    /\ s # k
    /\ data.createdAt < store[s].createdAt
    /\ store[s].account = data.account

SupersededBy(s, k, data) ==
    /\ s # k
    /\ data.createdAt > store[s].createdAt
    /\ store[s].account = data.account

PendingCleaned(s) ==
    /\ store[s].token = 0
    /\ store[s].createdAt + PendingWindow > now

CleanupOAuth2Data(k, data) ==
    [s \in States |->
        IF store[s] # NoEntry /\ (SupersededBy(s, k, data) \/ PendingCleaned(s))
        THEN NoEntry
        ELSE store[s]]

-----------------------------------------------------------------------------
(* The first request of a login: authMethodsByID (GET) and the redirect.   *)

StartLogin(s) ==
    /\ running
    /\ s \notin used
    /\ now < MaxTime
    /\ now' = now + 1
    /\ used' = used \cup {s}
    /\ store' = [store EXCEPT ![s] = PendingEntry(now + 1)]
    /\ starting' = starting \cup {s}
    /\ UNCHANGED <<saveVars, users, lock, callback, renewer, running,
                   overlapped, exhausted, answered>>

SaveLogin(s) ==
    /\ s \in starting
    /\ TrySave
    /\ starting' = starting \ {s}
    /\ UNCHANGED <<store, users, lock, callback, renewer, used, now, running,
                   overlapped, exhausted, answered>>

-----------------------------------------------------------------------------
(* The callback: the OIDC branch of authMethodsByID (POST).                *)

\* A callback for state s arrives and waits for RetrieveTokenLock.  A browser
\* may send the same callback again, also while the first one is served.
ReceiveCallback(c, s) ==
    /\ running
    /\ callback[c].pc = "idle"
    /\ s \in used
    /\ callback' = [callback EXCEPT ![c] = [IdleCallback EXCEPT !.pc = "waiting", !.key = s]]
    /\ UNCHANGED <<storeVars, users, lock, answered, outsideCallback>>

\* Mutant of CanEnter: the handler does not take RetrieveTokenLock.
CanEnterUnlocked(c) == callback[c].pc = "waiting"

CanEnter(c) == callback[c].pc = "waiting" /\ lock = NoHolder

\* The state is unknown: 400, and the deferred Unlock.
RejectUnknownState(c) ==
    /\ CanEnter(c)
    /\ store[callback[c].key] = NoEntry
    /\ callback' = [callback EXCEPT ![c] = IdleCallback]
    /\ UNCHANGED <<storeVars, users, lock, answered, outsideCallback>>

\* The entry has a token already: it is the answer, unless the entry is marked
\* suspended or the licence test refuses (licensed, decided by counts that are
\* not part of this module).  The history variable answered skips an answer
\* given while the last write has failed: nothing is promised for that one.
AnswerFromStore(c, licensed) ==
    LET s == callback[c].key IN
    /\ CanEnter(c)
    /\ HasToken(s)
    /\ answered' = IF licensed /\ ~store[s].suspended /\ ~saveFailed
                   THEN answered \cup {Session(store[s])} ELSE answered
    /\ callback' = [callback EXCEPT ![c] = IdleCallback]
    /\ UNCHANGED <<storeVars, users, lock, outsideCallback>>

\* The entry is pending: the handler keeps a copy of it and the lock.
BeginExchange(c) ==
    LET s == callback[c].key IN
    /\ CanEnter(c)
    /\ Pending(s)
    /\ lock' = c
    /\ callback' = [callback EXCEPT ![c].pc = "exchange", ![c].entry = store[s]]
    /\ UNCHANGED <<storeVars, users, answered, outsideCallback>>

\* Mutant of Return: the Unlock is not deferred and a return path forgets it.
ReturnLocked(c) ==
    /\ callback' = [callback EXCEPT ![c] = IdleCallback]
    /\ UNCHANGED lock

\* The handler returns and its deferred Unlock runs.
Return(c) ==
    /\ callback' = [callback EXCEPT ![c] = IdleCallback]
    /\ lock' = NoHolder

\* Discovery, the keys, the token endpoint, the ID token or ReactivateFunc fail.
ExchangeFails(c) ==
    /\ callback[c].pc = "exchange"
    /\ Return(c)
    /\ UNCHANGED <<storeVars, users, answered, outsideCallback>>

\* addOrModifyExternalUser: a new user, or the existing one with its link set
\* to this session and its connections enabled again.
Linked(a, s) ==
    [users[a] EXCEPT !.exists = TRUE, !.oidcID = s, !.disabled = FALSE]

\* UpdateOAuth2DataWithToken, and the Suspended flag taken from the user.
Redeemed(data, a) == [data EXCEPT !.account = a, !.token = 1,
                                  !.suspended = users[a].suspended]

\* The code is redeemed for the tokens of account a and the user is updated.
ExchangeAndLinkUser(c, a) ==
    /\ callback[c].pc = "exchange"
    /\ users' = [users EXCEPT ![a] = Linked(a, callback[c].key)]
    /\ callback' = [callback EXCEPT ![c].pc = "store",
                                    ![c].entry = Redeemed(@, a)]
    /\ UNCHANGED <<storeVars, lock, answered, outsideCallback>>

\* As above, but the user store cannot write users.json: the user has changed
\* in memory and the handler returns the error.
LinkUserSaveFails(c, a) ==
    /\ callback[c].pc = "exchange"
    /\ users' = [users EXCEPT ![a] = Linked(a, callback[c].key)]
    /\ Return(c)
    /\ UNCHANGED <<storeVars, answered, outsideCallback>>

\* SaveOAuth2Data, first half.
StoreTokens(c) ==
    /\ callback[c].pc = "store"
    /\ store' = [store EXCEPT ![callback[c].key] = callback[c].entry]
    /\ callback' = [callback EXCEPT ![c].pc = "save"]
    /\ UNCHANGED <<saveVars, users, lock, answered, outsideCallback>>

\* SaveOAuth2Data, second half.
SaveTokens(c) ==
    /\ callback[c].pc = "save"
    /\ SaveOIDCStore
    /\ callback' = [callback EXCEPT ![c].pc = "cleanup"]
    /\ UNCHANGED <<store, users, lock, answered, outsideCallback>>

SaveTokensFails(c) ==
    /\ callback[c].pc = "save"
    /\ SaveOIDCStoreFails
    /\ Return(c)
    /\ UNCHANGED <<store, users, answered, outsideCallback>>

\* CleanupOAuth2Data, whose result is not saved; then SaveConfig, whose outcome
\* (saved) only decides the answer; then the answer.
CleanupAndAnswer(c, saved) ==
    LET s == callback[c].key IN
    /\ callback[c].pc = "cleanup"
    /\ store' = CleanupOAuth2Data(s, callback[c].entry)
    /\ answered' = IF saved /\ ~callback[c].entry.suspended
                   THEN answered \cup {Session(callback[c].entry)} ELSE answered
    /\ Return(c)
    /\ UNCHANGED <<saveVars, users, outsideCallback>>

EnterCallback(c) ==
    \/ RejectUnknownState(c)
    \/ \E licensed \in BOOLEAN : AnswerFromStore(c, licensed)
    \/ BeginExchange(c)

ServeCallback(c) ==
    \/ ExchangeFails(c)
    \/ \E a \in Accounts : ExchangeAndLinkUser(c, a) \/ LinkUserSaveFails(c, a)
    \/ StoreTokens(c)
    \/ SaveTokens(c)
    \/ SaveTokensFails(c)
    \/ \E saved \in BOOLEAN : CleanupAndAnswer(c, saved)

-----------------------------------------------------------------------------
(* The renewal worker and the renew-all request.                           *)
(*                                                                         *)
(* Both range over the live map: an entry that is there from the start is  *)
(* visited unless it is deleted first, one added meanwhile may be visited  *)
(* or not.  todo holds the keys the range has not passed.                  *)

\* The worker wakes up and starts CleanupOAuth2DataForAllEntries.
WorkerWakesUp ==
    /\ running
    /\ renewer[Worker].pc = "idle"
    /\ renewer' = [renewer EXCEPT ![Worker] =
                      [@ EXCEPT !.pc = "cleanup", !.todo = States]]
    /\ UNCHANGED <<storeVars, users, overlapped, exhausted, outsideRenewal>>

\* One entry of CleanupOAuth2DataForAllEntries.
WorkerCleanup(s) ==
    /\ renewer[Worker].pc = "cleanup"
    /\ s \in renewer[Worker].todo
    /\ store[s] # NoEntry
    /\ store' = CleanupOAuth2Data(s, store[s])
    /\ renewer' = [renewer EXCEPT ![Worker] =
                      [@ EXCEPT !.todo = renewer[Worker].todo \ {s},
                                !.deleted = renewer[Worker].deleted \/ store' # store]]
    /\ UNCHANGED <<saveVars, users, overlapped, exhausted, outsideRenewal>>

\* The range moves past s: it was deleted, or the renewal has no reason or no
\* way to refresh it (not due, no token, given up, provider or discovery
\* document missing).
Skip(r, s) ==
    /\ s \in renewer[r].todo
    /\ \/ renewer[r].pc = "cleanup" /\ store[s] = NoEntry
       \/ renewer[r].pc = "visit"
    /\ renewer' = [renewer EXCEPT ![r].todo = @ \ {s}]
    /\ UNCHANGED <<storeVars, users, overlapped, exhausted, outsideRenewal>>

\* The cleanup is over; the store is saved if something was deleted.
WorkerSavesCleanup ==
    /\ renewer[Worker].pc = "cleanup"
    /\ renewer[Worker].todo = {}
    /\ IF renewer[Worker].deleted
       THEN TrySave
       ELSE UNCHANGED saveVars
    /\ renewer' = [renewer EXCEPT ![Worker] =
                      [@ EXCEPT !.pc = "visit", !.todo = States, !.deleted = FALSE]]
    /\ UNCHANGED <<store, users, overlapped, exhausted, outsideRenewal>>

\* An administrator asks to renew all tokens (RenewAllOIDCConnections).
StartRenewAll(r) ==
    /\ running
    /\ r \in Admins
    /\ renewer[r].pc = "idle"
    /\ renewer' = [renewer EXCEPT ![r] = [@ EXCEPT !.pc = "visit", !.todo = States]]
    /\ UNCHANGED <<storeVars, users, overlapped, exhausted, outsideRenewal>>

Refreshing(r, s) == renewer[r].pc = "request" /\ renewer[r].key = s

\* renew copies the entry and sends its refresh token to the provider.
BeginRenewal(r, s) ==
    /\ renewer[r].pc = "visit"
    /\ s \in renewer[r].todo
    /\ HasToken(s)
    /\ ~store[s].renewalFailed
    /\ renewer' = [renewer EXCEPT ![r] =
                      [@ EXCEPT !.pc = "request", !.key = s, !.entry = store[s],
                                !.todo = renewer[r].todo \ {s}]]
    /\ LET others == {q \in Renewers : Refreshing(q, s)} IN
       overlapped' = IF others = {} THEN overlapped \ {r}
                     ELSE overlapped \cup others \cup {r}
    /\ UNCHANGED <<storeVars, users, exhausted, outsideRenewal>>

\* Mutant of AfterFailure: the retries are compared before they are counted.
AfterFailureLate(data) ==
    [data EXCEPT !.retries = @ + 1,
                 !.renewalFailed = data.retries >= RENEWAL_RETRIES]

\* The entry after a refresh that failed.
AfterFailure(data) ==
    [data EXCEPT !.retries = @ + 1,
                 !.renewalFailed = data.retries + 1 >= RENEWAL_RETRIES]

\* The refresh fails; the copy, with one more retry, goes back to the map.
RenewalRequestFails(r) ==
    LET s == renewer[r].key
        data == AfterFailure(renewer[r].entry) IN
    /\ renewer[r].pc = "request"
    /\ store' = [store EXCEPT ![s] = data]
    /\ renewer' = [renewer EXCEPT ![r] = [@ EXCEPT !.pc = "save", !.entry = data]]
    /\ exhausted' = IF data.renewalFailed THEN exhausted \cup {s} ELSE exhausted
    /\ UNCHANGED <<saveVars, users, overlapped, outsideRenewal>>

\* The provider issues new tokens; the copy, with them, goes back to the map.
RenewalRequestSucceeds(r) ==
    LET s == renewer[r].key
        data == [renewer[r].entry EXCEPT !.token = @ + 1] IN
    /\ renewer[r].pc = "request"
    /\ renewer[r].entry.token < MaxTokens
    /\ store' = [store EXCEPT ![s] = data]
    /\ renewer' = [renewer EXCEPT ![r] = [@ EXCEPT !.pc = "save", !.entry = data]]
    /\ UNCHANGED <<saveVars, users, overlapped, exhausted, outsideRenewal>>

\* Mutant of DisabledUsersOf: one failure is enough.
UsersOfFailure(r) ==
    LET hits == {[account |-> a, user |-> users[a]] :
                     a \in {b \in Accounts : users[b].oidcID = renewer[r].key}} IN
    IF r \in Admins /\ renewer[r].entry.retries > 0 /\ hits # {}
    THEN {{hit} : hit \in hits}
    ELSE {{}}

\* RenewAllOIDCConnections collects a user linked to an entry it has given up,
\* if there is one; the worker throws the result of renew away.
DisabledUsersOf(r) ==
    LET hits == {[account |-> a, user |-> users[a]] :
                     a \in {b \in Accounts : users[b].oidcID = renewer[r].key}} IN
    IF r \in Admins /\ renewer[r].entry.renewalFailed /\ hits # {}
    THEN {{hit} : hit \in hits}
    ELSE {{}}

FinishRenewal(r) ==
    \E found \in DisabledUsersOf(r) :
        renewer' = [renewer EXCEPT ![r] =
                        [@ EXCEPT !.pc = "visit", !.key = NoState, !.entry = NoEntry,
                                  !.disabledUsers = renewer[r].disabledUsers \cup found]]

\* SaveOIDCStore at the end of renew; its error is logged only.
SaveRenewal(r) ==
    /\ renewer[r].pc = "save"
    /\ TrySave
    /\ FinishRenewal(r)
    /\ UNCHANGED <<store, users, overlapped, exhausted, outsideRenewal>>

\* The range has ended: the worker sleeps, the request disables users.
EndPass(r) ==
    /\ renewer[r].pc = "visit"
    /\ renewer[r].todo = {}
    /\ renewer' = [renewer EXCEPT ![r] =
                      IF r \in Admins /\ @.disabledUsers # {}
                      THEN [@ EXCEPT !.pc = "disable"] ELSE IdleRenewer]
    /\ UNCHANGED <<storeVars, users, overlapped, exhausted, outsideRenewal>>

\* DisableFunc, then UpdateUser with the user as it was when it was collected.
DisableUser(r, hit) ==
    /\ renewer[r].pc = "disable"
    /\ hit \in renewer[r].disabledUsers
    /\ users' = [users EXCEPT ![hit.account] = [hit.user EXCEPT !.disabled = TRUE]]
    /\ renewer' = [renewer EXCEPT ![r] =
                      IF @.disabledUsers = {hit} THEN IdleRenewer
                      ELSE [@ EXCEPT !.disabledUsers = renewer[r].disabledUsers \ {hit}]]
    /\ UNCHANGED <<storeVars, overlapped, exhausted, outsideRenewal>>

\* DisableFunc or UpdateUser fails: the request returns, the rest is left.
DisableUserFails(r) ==
    /\ renewer[r].pc = "disable"
    /\ renewer' = [renewer EXCEPT ![r] = IdleRenewer]
    /\ UNCHANGED <<storeVars, users, overlapped, exhausted, outsideRenewal>>

RunRenewer(r) ==
    \/ \E s \in States : Skip(r, s) \/ BeginRenewal(r, s)
    \/ RenewalRequestFails(r)
    \/ RenewalRequestSucceeds(r)
    \/ SaveRenewal(r)
    \/ EndPass(r)
    \/ \E hit \in renewer[r].disabledUsers : DisableUser(r, hit)
    \/ DisableUserFails(r)

RunWorkerCleanup ==
    \/ \E s \in States : WorkerCleanup(s)
    \/ WorkerSavesCleanup

-----------------------------------------------------------------------------
(* Administrators, time and the process.                                   *)

\* An administrator suspends or unsuspends a user (rest/users.go, scim).
SetSuspended(a, suspended) ==
    /\ running
    /\ a \in Suspendable
    /\ users[a].exists
    /\ users[a].suspended # suspended
    /\ users' = [users EXCEPT ![a].suspended = suspended]
    /\ UNCHANGED <<storeVars, lock, callback, answered, outsideCallback>>

Tick ==
    /\ now < MaxTime
    /\ now' = now + 1
    /\ UNCHANGED <<storeVars, users, lock, callback, renewer, starting,
                   overlapped, used, running, exhausted, answered>>

\* A crash in the middle of a write is one fault, not two.
CountCrash ==
    IF saveFailed THEN UNCHANGED faults
    ELSE faults < MaxFaults /\ faults' = faults + 1

\* The process dies: what it has not written is lost, requests with it.  The
\* users are written by every operation that changes them (users/save.go).
Crash ==
    /\ running
    /\ running' = FALSE
    /\ CountCrash
    /\ store' = EmptyStore
    /\ saveFailed' = FALSE
    /\ lock' = NoHolder
    /\ callback' = [c \in Callbacks |-> IdleCallback]
    /\ renewer' = [r \in Renewers |-> IdleRenewer]
    /\ starting' = {}
    /\ overlapped' = {}
    /\ UNCHANGED <<disk, users, used, now, exhausted, answered>>

\* Mutant of Restart: the decode error is ignored.
RestartUnchecked ==
    /\ ~running
    /\ running' = TRUE
    /\ store' = disk
    /\ UNCHANGED <<saveVars, users, lock, callback, renewer, starting,
                   overlapped, used, now, exhausted, answered>>

\* NewStore: a file that does not decode keeps the server from starting.
Restart ==
    /\ ~running
    /\ disk # Torn
    /\ running' = TRUE
    /\ store' = disk
    /\ UNCHANGED <<saveVars, users, lock, callback, renewer, starting,
                   overlapped, used, now, exhausted, answered>>

Init ==
    /\ store = EmptyStore
    /\ disk = EmptyStore
    /\ users = [a \in Accounts |-> [exists |-> FALSE, oidcID |-> NoState,
                                    suspended |-> FALSE, disabled |-> FALSE]]
    /\ lock = NoHolder
    /\ callback = [c \in Callbacks |-> IdleCallback]
    /\ renewer = [r \in Renewers |-> IdleRenewer]
    /\ starting = {}
    /\ used = {}
    /\ now = 0
    /\ running = TRUE
    /\ faults = 0
    /\ saveFailed = FALSE
    /\ overlapped = {}
    /\ exhausted = {}
    /\ answered = {}

Next ==
    \/ \E s \in States : StartLogin(s) \/ SaveLogin(s)
    \/ \E c \in Callbacks : \/ \E s \in States : ReceiveCallback(c, s)
                            \/ EnterCallback(c)
                            \/ ServeCallback(c)
    \/ WorkerWakesUp
    \/ RunWorkerCleanup
    \/ \E r \in Renewers : StartRenewAll(r) \/ RunRenewer(r)
    \/ \E a \in Accounts, suspended \in BOOLEAN : SetSuspended(a, suspended)
    \/ Tick
    \/ Crash
    \/ Restart

Spec == Init /\ [][Next]_vars

(***************************************************************************)
(* A handler in the middle of a callback goes on: its calls to the         *)
(* provider have a timeout of five seconds.  sync.Mutex hands the lock to  *)
(* a waiter that has starved, hence strong fairness of entering.           *)
(***************************************************************************)
Fairness ==
    \A c \in Callbacks : WF_vars(ServeCallback(c)) /\ SF_vars(EnterCallback(c))

FairSpec == Spec /\ Fairness

-----------------------------------------------------------------------------
(* Properties.                                                             *)

\* The values the variables take.
TypeOK ==
    /\ store \in [States -> MaybeEntry]
    /\ disk \in [States -> MaybeEntry] \cup {Torn}
    /\ users \in [Accounts -> User]
    /\ lock \in Callbacks \cup {NoHolder}
    /\ callback \in [Callbacks -> CallbackState]
    /\ renewer \in [Renewers -> RenewerState]
    /\ starting \subseteq States
    /\ used \subseteq States
    /\ now \in 0 .. MaxTime
    /\ running \in BOOLEAN
    /\ faults \in 0 .. MaxFaults
    /\ saveFailed \in BOOLEAN
    /\ overlapped \subseteq Renewers
    /\ exhausted \subseteq States
    /\ answered \subseteq [account : Accounts \cup {NoAccount}, createdAt : Nat]

\* No lost update between requests: while a callback redeems its code, or a
\* renewal that no other renewal of the same entry overlaps waits for the
\* provider, the entry it has copied is either as it was copied or deleted.
\* The copy is written back whole (store.go StoreEntry), so what another
\* request had written in between would be gone.
CopyIsCurrent ==
    /\ \A c \in Callbacks :
          callback[c].pc = "exchange" =>
              store[callback[c].key] \in {NoEntry, callback[c].entry}
    /\ \A r \in Renewers :
          renewer[r].pc = "request" /\ r \notin overlapped =>
              store[renewer[r].key] \in {NoEntry, renewer[r].entry}

BeingSaved(s) ==
    \/ s \in starting
    \/ \E c \in Callbacks : callback[c].pc = "save" /\ callback[c].key = s
    \/ \E r \in Renewers : renewer[r].pc = "save" /\ renewer[r].key = s

\* Every entry of the map is on disk as it is in memory, unless the request
\* that wrote it has not come to its own SaveOIDCStore or the last write
\* failed (SaveOAuth2Data, renew: each StoreEntry is followed by a save).
DiskFollowsMemory ==
    running /\ ~saveFailed =>
        \A s \in States :
            store[s] # NoEntry /\ ~BeingSaved(s) =>
                disk # Torn /\ disk[s] = store[s]

\* A login that was answered with a token survives a crash: as long as the
\* file decodes it holds that session or a newer one of the same account,
\* whatever cleanups, renewals and other logins have written since.
AnsweredLoginIsDurable ==
    disk # Torn =>
        \A login \in answered : \E s \in States :
            /\ disk[s] # NoEntry
            /\ disk[s].token > 0
            /\ disk[s].account = login.account
            /\ disk[s].createdAt >= login.createdAt

\* A cleanup removes a session with a token only in favour of a newer session
\* of the same account that stays (cleanup.go: "duplicates (same subject & oidc
\* provider, but older tokens)"), although the data it compares with may have
\* been deleted since the request stored it.
NewestSessionSurvives ==
    [][running /\ running' =>
          \A s \in States :
              HasToken(s) /\ store'[s] = NoEntry =>
                  \E t \in States :
                      /\ HasToken(t)
                      /\ store[t].account = store[s].account
                      /\ store[t].createdAt > store[s].createdAt
                      /\ store'[t] # NoEntry]_vars

\* An entry, or a copy of one that is about to be written back, counts at most
\* RENEWAL_RETRIES failures, and is given up exactly when it has counted them
\* all: no order of renewals lets an entry pass the limit unnoticed.
RetriesMatchFailure ==
    \A s \in States :
        store[s] # NoEntry =>
            /\ store[s].retries <= RENEWAL_RETRIES
            /\ store[s].renewalFailed <=> store[s].retries = RENEWAL_RETRIES

\* The connections of a user are disabled only while the user is linked to a
\* session that failed RENEWAL_RETRIES refreshes: a login that links a healthy
\* session enables them, also when a renew-all request that collected the user
\* before the login writes its copy of the user after it (rest/auth.go
\* oidcRenewTokensHandler, rest/users.go addOrModifyExternalUser).
DisabledOnlyAfterRetries ==
    \A a \in Accounts : users[a].disabled => users[a].oidcID \in exhausted

\* Every callback is answered, or the process crashes: no path of the handler
\* keeps RetrieveTokenLock.
CallbackIsAnswered ==
    \A c \in Callbacks : callback[c].pc # "idle" ~> callback[c].pc = "idle"

\* cleanup.go:35: the cleanup after a login removes what "doesn't have a token
\* and is stale".  The code removes the young pending entries instead.
FreshPendingLoginIsKept ==
    [][running /\ running' =>
          \A s \in States :
              Pending(s) /\ store'[s] = NoEntry =>
                  store[s].createdAt + PendingWindow <= now]_vars

\* worker.go:13: "3 retries before we suspend a user".  When the worker has
\* finished its pass, a user linked to an entry it has given up is disabled.
GivenUpUserIsDisabled ==
    renewer[Worker].pc = "idle" =>
        \A a \in Accounts, s \in States :
            users[a].oidcID = s /\ store[s] # NoEntry /\ store[s].renewalFailed
                => users[a].disabled
=============================================================================
