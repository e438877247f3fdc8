----------------------- MODULE OIDCSessionsInvariants -----------------------
(***************************************************************************)
(* The strengthenings that make the invariants of OIDCSessions inductive:  *)
(* what the requests in flight know about the entries they have copied.    *)
(* OIDCSessionsProofs proves them; TLC checks them as Strengthenings.      *)
(***************************************************************************)
EXTENDS OIDCSessions

\* A request that has passed its first test knows its key, and one that has
\* copied an entry keeps the copy until it has finished with it.
RequestsAreWellFormed ==
    /\ \A c \in Callbacks :
          /\ callback[c].pc # "idle" => callback[c].key \in States
          /\ callback[c].pc \notin {"idle", "waiting"} => callback[c].entry \in Entry
    /\ \A r \in Renewers :
          renewer[r].pc \in {"request", "save"} =>
              renewer[r].key \in States /\ renewer[r].entry \in Entry

\* Types and shape together are inductive.
Shape == TypeOK /\ RequestsAreWellFormed

\* Only the callback that holds RetrieveTokenLock is past its first test, and
\* a process that is down serves nobody.
Serving == {"exchange", "store", "save", "cleanup"}

LockIsHeld ==
    /\ \A c \in Callbacks : callback[c].pc \in Serving => lock = c
    /\ ~running =>
          /\ \A c \in Callbacks : callback[c].pc = "idle"
          /\ \A r \in Renewers : renewer[r].pc = "idle"

\* A key that occurs somewhere was handed out before.
KeysAreUsed ==
    /\ \A s \in States : store[s] # NoEntry => s \in used
    /\ disk # Torn => \A s \in States : disk[s] # NoEntry => s \in used
    /\ \A c \in Callbacks : callback[c].pc # "idle" => callback[c].key \in used
    /\ \A r \in Renewers : renewer[r].pc = "request" => renewer[r].key \in used

\* A callback works on an entry that stays pending until it stores the tokens.
CallbackEntryIsPending ==
    \A c \in Callbacks :
        /\ callback[c].pc = "exchange" =>
               /\ store[callback[c].key] \in {NoEntry, callback[c].entry}
               /\ callback[c].entry.token = 0
        /\ callback[c].pc = "store" => ~HasToken(callback[c].key)

\* A renewal works on an entry that has a token, as its copy has, so no
\* callback works on it; two renewals of one entry know that they overlap, and
\* one that overlaps with no other finds the entry as it copied it.
RenewedEntryHasToken ==
    /\ \A r \in Renewers :
          renewer[r].pc = "request" =>
              /\ ~Pending(renewer[r].key)
              /\ renewer[r].entry.token > 0
              /\ \A c \in Callbacks :
                    callback[c].pc \in {"exchange", "store"} =>
                        callback[c].key # renewer[r].key
    /\ \A r, q \in Renewers :
          /\ r # q
          /\ renewer[r].pc = "request"
          /\ renewer[q].pc = "request"
          /\ renewer[r].key = renewer[q].key
          => r \in overlapped
    /\ \A r \in Renewers :
          renewer[r].pc = "request" /\ r \notin overlapped =>
              store[renewer[r].key] \in {NoEntry, renewer[r].entry}

Exclusion ==
    LockIsHeld /\ KeysAreUsed /\ CallbackEntryIsPending /\ RenewedEntryHasToken

\* The entry counts at most RENEWAL_RETRIES failures and is given up with the last.
RetriesCounted(data) ==
    /\ data.retries <= RENEWAL_RETRIES
    /\ data.renewalFailed <=> data.retries = RENEWAL_RETRIES

\* So do the map, the file and every copy that will be written back, and a
\* renewal never refreshes an entry that is given up.
CopiesAreCounted ==
    /\ \A s \in States : store[s] # NoEntry => RetriesCounted(store[s])
    /\ disk # Torn =>
          \A s \in States : disk[s] # NoEntry => RetriesCounted(disk[s])
    /\ \A c \in Callbacks :
          callback[c].pc \in {"exchange", "store"} => RetriesCounted(callback[c].entry)
    /\ \A r \in Renewers :
          renewer[r].pc = "request" =>
              RetriesCounted(renewer[r].entry) /\ ~renewer[r].entry.renewalFailed

\* A user is disabled, or in the list of a renew-all request, only with the
\* link to a session that has been given up.
CollectedAreExhausted ==
    /\ \A a \in Accounts : users[a].disabled => users[a].oidcID \in exhausted
    /\ \A r \in Renewers :
          /\ \A hit \in renewer[r].disabledUsers : hit.user.oidcID \in exhausted
          /\ renewer[r].pc = "save" /\ renewer[r].entry.renewalFailed =>
                renewer[r].key \in exhausted

\* A process that is down has no login under way.
NoLoginWhenDown == ~running => starting = {}

\* A map holds the session, or a newer one of its account.
Holds(map, session) ==
    \E s \in States :
        /\ map[s] # NoEntry /\ map[s].token > 0
        /\ map[s].account = session.account
        /\ map[s].createdAt >= session.createdAt

\* An entry has an account from the moment it has a token.
HasAccount(data) == data.token > 0 <=> data.account \in Accounts

\* Also in the file and in the copies; the copies of one session that renewals hold and the
\* entry they will overwrite are of the same account and date.
CopiesAgree ==
    /\ \A s \in States : store[s] # NoEntry => HasAccount(store[s])
    /\ disk # Torn => \A s \in States : disk[s] # NoEntry => HasAccount(disk[s])
    /\ \A c \in Callbacks :
          callback[c].pc \in {"store", "save", "cleanup"} =>
              callback[c].entry.token > 0 /\ callback[c].entry.account \in Accounts
    /\ \A r \in Renewers : renewer[r].pc = "request" =>
          /\ HasAccount(renewer[r].entry)
          /\ store[renewer[r].key] # NoEntry =>
                Session(store[renewer[r].key]) = Session(renewer[r].entry)
          /\ \A q \in Renewers :
                renewer[q].pc = "request" /\ renewer[q].key = renewer[r].key =>
                    Session(renewer[q].entry) = Session(renewer[r].entry)

\* What was answered, or will be, or is being renewed, is in the map.
SessionsLive ==
    running =>
        /\ \A login \in answered : Holds(store, login)
        /\ \A c \in Callbacks : callback[c].pc \in {"save", "cleanup"} =>
              Holds(store, Session(callback[c].entry))
        /\ \A r \in Renewers : renewer[r].pc = "request" =>
              Holds(store, Session(renewer[r].entry))

\* It is in the file too, but for a session whose callback has still to save it, or after a
\* write that failed for sessions that nobody has been told of.
AwaitsSave(s) == \E c \in Callbacks : callback[c].pc = "save" /\ callback[c].key = s

SessionsSaved ==
    disk # Torn =>
        /\ \A login \in answered : Holds(disk, login)
        /\ \A c \in Callbacks : callback[c].pc = "cleanup" =>
              Holds(disk, Session(callback[c].entry))
        /\ running /\ ~saveFailed =>
              /\ \A s \in States : HasToken(s) /\ ~AwaitsSave(s) =>
                    Holds(disk, Session(store[s]))
              /\ \A r \in Renewers :
                    renewer[r].pc = "request" /\ ~AwaitsSave(renewer[r].key) =>
                        Holds(disk, Session(renewer[r].entry))

\* What the proofs add to the invariants of OIDCSessions, for TLC.
Strengthenings ==
    /\ RequestsAreWellFormed /\ Exclusion /\ CopiesAreCounted /\ CollectedAreExhausted
    /\ NoLoginWhenDown /\ CopiesAgree /\ SessionsLive /\ SessionsSaved
=============================================================================
