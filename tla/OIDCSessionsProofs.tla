------------------------ MODULE OIDCSessionsProofs ------------------------
(***************************************************************************)
(* Proofs about OIDCSessions, for every set of states, accounts, requests  *)
(* and administrators and every value of the bounds.                       *)
(***************************************************************************)
EXTENDS OIDCSessionsInvariants, TLAPS

-----------------------------------------------------------------------------
(* Lemmas about the operators.                                             *)

\* The entry a login starts with is an entry.
LEMMA PendingEntryType ==
    ASSUME NEW time \in Nat
    PROVE  /\ PendingEntry(time) \in Entry
           /\ PendingEntry(time).token = 0
           /\ PendingEntry(time).retries = 0
           /\ PendingEntry(time).renewalFailed = FALSE
BY DEF PendingEntry, Entry

\* A refresh that fails leaves an entry with the same token and date.
LEMMA AfterFailureType ==
    ASSUME NEW data \in Entry
    PROVE  /\ AfterFailure(data) \in Entry
           /\ AfterFailure(data).token = data.token
           /\ AfterFailure(data).retries = data.retries + 1
           /\ AfterFailure(data).renewalFailed <=> data.retries + 1 >= RENEWAL_RETRIES
<1> DEFINE n == data.retries + 1
           f == n >= RENEWAL_RETRIES
<1>1. n \in Nat /\ f \in BOOLEAN
    BY DEF Entry
<1>2. AfterFailure(data) = [data EXCEPT !.retries = n, !.renewalFailed = f]
    BY DEF AfterFailure
<1> HIDE DEF n, f
<1>3. [data EXCEPT !.retries = n, !.renewalFailed = f] \in Entry
    BY <1>1 DEF Entry
<1>4. /\ AfterFailure(data).token = data.token
      /\ AfterFailure(data).retries = n
      /\ AfterFailure(data).renewalFailed = f
    BY <1>1, <1>2 DEF Entry
<1> QED
    BY <1>2, <1>3, <1>4, Zenon DEF n, f

\* A refresh that succeeds leaves an entry with a token, the rest as it was.
LEMMA RenewedType ==
    ASSUME NEW data \in Entry
    PROVE  /\ [data EXCEPT !.token = @ + 1] \in Entry
           /\ [data EXCEPT !.token = @ + 1].token = data.token + 1
           /\ [data EXCEPT !.token = @ + 1].retries = data.retries
           /\ [data EXCEPT !.token = @ + 1].renewalFailed = data.renewalFailed
<1> DEFINE n == data.token + 1
<1>1. n \in Nat
    BY DEF Entry
<1> HIDE DEF n
<1>2. [data EXCEPT !.token = n] \in Entry
    BY <1>1 DEF Entry
<1>3. /\ [data EXCEPT !.token = n].token = n
      /\ [data EXCEPT !.token = n].retries = data.retries
      /\ [data EXCEPT !.token = n].renewalFailed = data.renewalFailed
    BY <1>1 DEF Entry
<1> QED
    BY <1>2, <1>3 DEF n

\* A cleanup leaves every entry as it is or deletes it.
LEMMA CleanupOnlyDeletes ==
    ASSUME NEW k, NEW data, NEW s \in States
    PROVE  CleanupOAuth2Data(k, data)[s] \in {NoEntry, store[s]}
BY DEF CleanupOAuth2Data

\* So a cleanup of a map is a map.
LEMMA CleanupType ==
    ASSUME NEW k, NEW data, store \in [States -> MaybeEntry]
    PROVE  CleanupOAuth2Data(k, data) \in [States -> MaybeEntry]
BY DEF CleanupOAuth2Data, MaybeEntry

\* The entry that a redeemed code leaves is an entry with a token.
LEMMA RedeemedType ==
    ASSUME NEW data \in Entry, NEW a \in Accounts, users \in [Accounts -> User]
    PROVE  /\ Redeemed(data, a) \in Entry
           /\ Redeemed(data, a).retries = data.retries
           /\ Redeemed(data, a).renewalFailed = data.renewalFailed
           /\ Redeemed(data, a).token = 1
<1> DEFINE u == users[a].suspended
<1>1. u \in BOOLEAN
    BY DEF User
<1>2. Redeemed(data, a) = [data EXCEPT !.account = a, !.token = 1, !.suspended = u]
    BY DEF Redeemed
<1> HIDE DEF u
<1>3. [data EXCEPT !.account = a, !.token = 1, !.suspended = u] \in Entry
    BY <1>1 DEF Entry
<1>4. /\ Redeemed(data, a).retries = data.retries
      /\ Redeemed(data, a).renewalFailed = data.renewalFailed
      /\ Redeemed(data, a).token = 1
    BY <1>2 DEF Entry
<1> QED
    BY <1>2, <1>3, <1>4, Zenon

\* So is the user that a login links to a session a user.
LEMMA LinkedType ==
    ASSUME users \in [Accounts -> User], NEW a \in Accounts, NEW s \in States
    PROVE  /\ Linked(a, s) \in User
           /\ Linked(a, s).oidcID = s
           /\ Linked(a, s).disabled = FALSE
<1> DEFINE u == users[a]
<1>1. u \in User
    OBVIOUS
<1>2. Linked(a, s) = [u EXCEPT !.exists = TRUE, !.oidcID = s, !.disabled = FALSE]
    BY DEF Linked
<1> HIDE DEF u
<1>3. [u EXCEPT !.exists = TRUE, !.oidcID = s, !.disabled = FALSE] \in User
    BY <1>1 DEF User
<1>4. Linked(a, s).oidcID = s /\ Linked(a, s).disabled = FALSE
    BY <1>1, <1>2 DEF User
<1> QED
    BY <1>2, <1>3, <1>4, Zenon

-----------------------------------------------------------------------------
(* Type correctness.                                                       *)

LEMMA InitTypeOK == Init => TypeOK
<1> SUFFICES ASSUME Init PROVE TypeOK
    OBVIOUS
<1> USE DEF Init
<1>1. EmptyStore \in [States -> MaybeEntry]
    BY DEF EmptyStore, MaybeEntry
<1>2. users \in [Accounts -> User]
    BY DEF User
<1>3. callback \in [Callbacks -> CallbackState]
    BY DEF CallbackState, IdleCallback, MaybeEntry
<1>4. renewer \in [Renewers -> RenewerState]
    BY DEF RenewerState, IdleRenewer, MaybeEntry
<1>5. /\ now \in 0 .. MaxTime
      /\ faults \in 0 .. MaxFaults
    BY NumericBounds
<1> QED
    BY <1>1, <1>2, <1>3, <1>4, <1>5 DEF TypeOK

\* Requests that do nothing have their types.
LEMMA IdleTypes ==
    /\ IdleCallback \in CallbackState
    /\ IdleRenewer \in RenewerState
BY DEF IdleCallback, IdleRenewer, CallbackState, RenewerState, MaybeEntry

\* What a write of the store, or a write that fails, leaves.
LEMMA SaveType ==
    ASSUME TypeOK, TrySave
    PROVE  /\ disk' \in [States -> MaybeEntry] \cup {Torn}
           /\ saveFailed' \in BOOLEAN
           /\ faults' \in 0 .. MaxFaults
<1> USE DEF TrySave, SaveOIDCStore, SaveOIDCStoreFails, TypeOK
<1>1. disk' \in [States -> MaybeEntry] \cup {Torn}
    OBVIOUS
<1>2. saveFailed' \in BOOLEAN
    OBVIOUS
<1>3. faults' \in 0 .. MaxFaults
    BY NumericBounds
<1> QED
    BY <1>1, <1>2, <1>3

\* Each action keeps the types and the shape of the requests.
LEMMA StartLoginShape ==
    ASSUME Shape, NEW s \in States, StartLogin(s)
    PROVE  Shape'
<1> USE DEF StartLogin, Shape, TypeOK
<1>1. now + 1 \in 0 .. MaxTime /\ now + 1 \in Nat
    BY NumericBounds
<1>2. PendingEntry(now + 1) \in MaybeEntry
    BY <1>1, PendingEntryType DEF MaybeEntry
<1>3. store' \in [States -> MaybeEntry]
    BY <1>2
<1>4. TypeOK'
    BY <1>1, <1>3 DEF saveVars
<1>5. RequestsAreWellFormed'
    BY DEF RequestsAreWellFormed
<1> QED
    BY <1>4, <1>5

\* The types, one group of actions at a time.
LEMMA SaveLoginShape ==
    ASSUME Shape, NEW s \in States, SaveLogin(s)
    PROVE  Shape'
<1> USE DEF SaveLogin, Shape
<1>1. TypeOK'
    BY SaveType DEF TypeOK
<1>2. RequestsAreWellFormed'
    BY DEF RequestsAreWellFormed
<1> QED
    BY <1>1, <1>2

LEMMA ReceiveCallbackShape ==
    ASSUME Shape, NEW c \in Callbacks, NEW s \in States, ReceiveCallback(c, s)
    PROVE  Shape'
<1> USE DEF ReceiveCallback, Shape, IdleCallback
<1>1. callback' \in [Callbacks -> CallbackState]
    BY DEF TypeOK, CallbackState, MaybeEntry
<1>2. TypeOK'
    BY <1>1 DEF TypeOK, storeVars, saveVars, outsideCallback
<1>3. RequestsAreWellFormed'
    BY DEF RequestsAreWellFormed, TypeOK, outsideCallback
<1> QED
    BY <1>2, <1>3

LEMMA EnterCallbackShape ==
    ASSUME Shape, NEW c \in Callbacks, EnterCallback(c)
    PROVE  Shape'
<1> USE DEF Shape
<1>1. CASE RejectUnknownState(c)
    <2> USE <1>1 DEF RejectUnknownState
    <2>1. callback' \in [Callbacks -> CallbackState]
        BY IdleTypes DEF TypeOK
    <2>2. TypeOK'
        BY <2>1 DEF TypeOK, storeVars, saveVars, outsideCallback
    <2>3. RequestsAreWellFormed'
        BY DEF RequestsAreWellFormed, TypeOK, outsideCallback, IdleCallback
    <2> QED
        BY <2>2, <2>3
<1>2. ASSUME NEW licensed \in BOOLEAN, AnswerFromStore(c, licensed)
      PROVE  Shape'
    <2> DEFINE s == callback[c].key
    <2>1. s \in States
        BY <1>2 DEF AnswerFromStore, CanEnter, RequestsAreWellFormed
    <2>2. store[s] \in Entry
        BY <1>2, <2>1 DEF AnswerFromStore, HasToken, TypeOK, MaybeEntry
    <2>3. Session(store[s]) \in [account : Accounts \cup {NoAccount}, createdAt : Nat]
        BY <2>2 DEF Session, Entry
    <2>4. answered' \subseteq [account : Accounts \cup {NoAccount}, createdAt : Nat]
        BY <1>2, <2>3 DEF AnswerFromStore, TypeOK
    <2>5. callback' \in [Callbacks -> CallbackState]
        BY <1>2, IdleTypes DEF AnswerFromStore, TypeOK
    <2>6. TypeOK'
        BY <1>2, <2>4, <2>5
           DEF AnswerFromStore, TypeOK, storeVars, saveVars, outsideCallback
    <2>7. RequestsAreWellFormed'
        BY <1>2 DEF AnswerFromStore, RequestsAreWellFormed, TypeOK,
                    outsideCallback, IdleCallback
    <2> QED
        BY <2>6, <2>7
<1>3. CASE BeginExchange(c)
    <2> USE <1>3 DEF BeginExchange, CanEnter, Pending
    <2>1. callback[c].key \in States
        BY DEF RequestsAreWellFormed
    <2>2. store[callback[c].key] \in Entry
        BY <2>1 DEF TypeOK, MaybeEntry
    <2>3. callback' \in [Callbacks -> CallbackState]
        BY ZenonT(40), <2>1, <2>2 DEF TypeOK, CallbackState, MaybeEntry
    <2>4. TypeOK'
        BY <2>3 DEF TypeOK, storeVars, saveVars, outsideCallback
    <2>5. RequestsAreWellFormed'
        BY <2>1, <2>2 DEF RequestsAreWellFormed, TypeOK, CallbackState, outsideCallback
    <2> QED
        BY <2>4, <2>5
<1> QED
    BY <1>1, <1>2, <1>3 DEF EnterCallback

LEMMA ServeCallbackShape ==
    ASSUME Shape, NEW c \in Callbacks, ServeCallback(c)
    PROVE  Shape'
<1> USE DEF Shape
<1>1. CASE ExchangeFails(c)
    <2> USE <1>1 DEF ExchangeFails, Return
    <2>1. callback' \in [Callbacks -> CallbackState]
        BY IdleTypes DEF TypeOK
    <2>2. TypeOK'
        BY <2>1 DEF TypeOK, storeVars, saveVars, outsideCallback
    <2>3. RequestsAreWellFormed'
        BY DEF RequestsAreWellFormed, TypeOK, outsideCallback, IdleCallback
    <2> QED
        BY <2>2, <2>3
<1>2. ASSUME NEW a \in Accounts, ExchangeAndLinkUser(c, a)
      PROVE  Shape'
    <2> USE <1>2 DEF ExchangeAndLinkUser
    <2>1. callback[c].key \in States /\ callback[c].entry \in Entry
        BY DEF RequestsAreWellFormed
    <2>2. Redeemed(callback[c].entry, a) \in Entry
        BY <2>1, RedeemedType DEF TypeOK
    <2>3. callback' \in [Callbacks -> CallbackState]
        BY ZenonT(40), <2>2 DEF TypeOK, CallbackState, MaybeEntry
    <2>4. users' \in [Accounts -> User]
        BY <2>1, LinkedType DEF TypeOK
    <2>5. TypeOK'
        BY <2>3, <2>4 DEF TypeOK, storeVars, saveVars, outsideCallback
    <2>6. RequestsAreWellFormed'
        BY <2>1, <2>2 DEF RequestsAreWellFormed, TypeOK, CallbackState, outsideCallback
    <2> QED
        BY <2>5, <2>6
<1>3. ASSUME NEW a \in Accounts, LinkUserSaveFails(c, a)
      PROVE  Shape'
    <2> USE <1>3 DEF LinkUserSaveFails, Return
    <2>1. callback[c].key \in States
        BY DEF RequestsAreWellFormed
    <2>2. callback' \in [Callbacks -> CallbackState]
        BY IdleTypes DEF TypeOK
    <2>3. users' \in [Accounts -> User]
        BY <2>1, LinkedType DEF TypeOK
    <2>4. TypeOK'
        BY <2>2, <2>3 DEF TypeOK, storeVars, saveVars, outsideCallback
    <2>5. RequestsAreWellFormed'
        BY DEF RequestsAreWellFormed, TypeOK, outsideCallback, IdleCallback
    <2> QED
        BY <2>4, <2>5
<1>4. CASE StoreTokens(c)
    <2> USE <1>4 DEF StoreTokens
    <2>1. callback[c].key \in States /\ callback[c].entry \in Entry
        BY DEF RequestsAreWellFormed
    <2>2. store' \in [States -> MaybeEntry]
        BY <2>1 DEF TypeOK, MaybeEntry
    <2>3. callback' \in [Callbacks -> CallbackState]
        BY DEF TypeOK, CallbackState
    <2>4. TypeOK'
        BY <2>2, <2>3 DEF TypeOK, saveVars, outsideCallback
    <2>5. RequestsAreWellFormed'
        BY <2>1 DEF RequestsAreWellFormed, TypeOK, CallbackState, outsideCallback
    <2> QED
        BY <2>4, <2>5
<1>5. CASE SaveTokens(c)
    <2> USE <1>5 DEF SaveTokens
    <2>1. callback' \in [Callbacks -> CallbackState]
        BY DEF TypeOK, CallbackState
    <2>2. TypeOK'
        BY <2>1, SaveType DEF TypeOK, TrySave, outsideCallback
    <2>3. RequestsAreWellFormed'
        BY DEF RequestsAreWellFormed, TypeOK, CallbackState, outsideCallback
    <2> QED
        BY <2>2, <2>3
<1>6. CASE SaveTokensFails(c)
    <2> USE <1>6 DEF SaveTokensFails, Return
    <2>1. callback' \in [Callbacks -> CallbackState]
        BY IdleTypes DEF TypeOK
    <2>2. TypeOK'
        BY <2>1, SaveType DEF TypeOK, TrySave, outsideCallback
    <2>3. RequestsAreWellFormed'
        BY DEF RequestsAreWellFormed, TypeOK, outsideCallback, IdleCallback
    <2> QED
        BY <2>2, <2>3
<1>7. ASSUME NEW saved \in BOOLEAN, CleanupAndAnswer(c, saved)
      PROVE  Shape'
    <2> USE <1>7 DEF CleanupAndAnswer, Return
    <2>1. callback[c].entry \in Entry
        BY DEF RequestsAreWellFormed
    <2>2. Session(callback[c].entry) \in
              [account : Accounts \cup {NoAccount}, createdAt : Nat]
        BY <2>1 DEF Session, Entry
    <2>3. answered' \subseteq [account : Accounts \cup {NoAccount}, createdAt : Nat]
        BY <2>2 DEF TypeOK
    <2>4. store' \in [States -> MaybeEntry]
        BY CleanupType DEF TypeOK
    <2>5. callback' \in [Callbacks -> CallbackState]
        BY IdleTypes DEF TypeOK
    <2>6. TypeOK'
        BY <2>3, <2>4, <2>5 DEF TypeOK, saveVars, outsideCallback
    <2>7. RequestsAreWellFormed'
        BY DEF RequestsAreWellFormed, TypeOK, outsideCallback, IdleCallback
    <2> QED
        BY <2>6, <2>7
<1> QED
    BY <1>1, <1>2, <1>3, <1>4, <1>5, <1>6, <1>7 DEF ServeCallback

\* The edits of the local variables of a renewer keep their types.
LEMMA StartPassType ==
    ASSUME NEW q \in RenewerState
    PROVE  [q EXCEPT !.pc = "visit", !.todo = States, !.deleted = FALSE] \in RenewerState
<1> DEFINE T == States
           f == FALSE
<1>1. T \in SUBSET States /\ f \in BOOLEAN
    OBVIOUS
<1> HIDE DEF T, f
<1>2. [q EXCEPT !.pc = "visit", !.todo = T, !.deleted = f] \in RenewerState
    BY <1>1 DEF RenewerState
<1> QED
    BY <1>2 DEF T, f

\* What a step of a renewal makes of its local variables has their type.
LEMMA CleanedType ==
    ASSUME NEW q \in RenewerState, NEW todo \in SUBSET States, NEW b \in BOOLEAN
    PROVE  [q EXCEPT !.todo = todo, !.deleted = b] \in RenewerState
BY DEF RenewerState

LEMMA CopiedType ==
    ASSUME NEW q \in RenewerState, NEW s \in States, NEW data \in Entry,
           NEW todo \in SUBSET States
    PROVE  [q EXCEPT !.pc = "request", !.key = s, !.entry = data, !.todo = todo]
               \in RenewerState
BY DEF RenewerState, MaybeEntry

LEMMA StoredType ==
    ASSUME NEW q \in RenewerState, NEW data \in Entry
    PROVE  [q EXCEPT !.pc = "save", !.entry = data] \in RenewerState
BY DEF RenewerState, MaybeEntry

LEMMA FinishedType ==
    ASSUME NEW q \in RenewerState,
           NEW hits \in SUBSET [account : Accounts, user : User]
    PROVE  [q EXCEPT !.pc = "visit", !.key = NoState, !.entry = NoEntry,
                     !.disabledUsers = hits] \in RenewerState
<1> DEFINE k == NoState
           e == NoEntry
<1>1. k \in States \cup {NoState} /\ e \in MaybeEntry
    BY DEF MaybeEntry
<1> HIDE DEF k, e
<1>2. [q EXCEPT !.pc = "visit", !.key = k, !.entry = e, !.disabledUsers = hits]
          \in RenewerState
    BY <1>1 DEF RenewerState
<1> QED
    BY <1>2 DEF k, e

LEMMA RenewerUpdateType ==
    ASSUME renewer \in [Renewers -> RenewerState], NEW r \in Renewers,
           NEW q \in RenewerState
    PROVE  [renewer EXCEPT ![r] = q] \in [Renewers -> RenewerState]
OBVIOUS

\* A cleanup of the worker keeps the types.
LEMMA WorkerCleanupShape ==
    ASSUME Shape, WorkerWakesUp \/ RunWorkerCleanup
    PROVE  Shape'
<1> USE DEF Shape
<1>w. Worker \in Renewers
    BY DEF Renewers
<1>1. CASE WorkerWakesUp
    <2> USE <1>1, <1>w DEF WorkerWakesUp
    <2>1. renewer' \in [Renewers -> RenewerState]
        BY ZenonT(40) DEF TypeOK, RenewerState
    <2>2. TypeOK'
        BY <2>1 DEF TypeOK, storeVars, saveVars, outsideRenewal
    <2>3. RequestsAreWellFormed'
        BY DEF RequestsAreWellFormed, TypeOK, RenewerState, outsideRenewal
    <2> QED
        BY <2>2, <2>3
<1>2. ASSUME NEW s \in States, WorkerCleanup(s)
      PROVE  Shape'
    <2> USE <1>2, <1>w DEF WorkerCleanup
    <2>1. store' \in [States -> MaybeEntry]
        BY CleanupType DEF TypeOK
    <2>2. PICK b \in BOOLEAN :
              renewer' = [renewer EXCEPT ![Worker] =
                              [@ EXCEPT !.todo = renewer[Worker].todo \ {s}, !.deleted = b]]
        <3>1. (renewer[Worker].deleted \/ store' # store) \in BOOLEAN
            BY DEF TypeOK, RenewerState
        <3> QED
            BY <3>1
    <2>3. renewer' \in [Renewers -> RenewerState]
        <3>1. /\ renewer[Worker] \in RenewerState
              /\ renewer[Worker].todo \ {s} \in SUBSET States
            BY DEF TypeOK, RenewerState
        <3>2. [renewer[Worker] EXCEPT !.todo = @ \ {s}, !.deleted = b] \in RenewerState
            BY <3>1, CleanedType, Zenon
        <3> QED
            BY <2>2, <3>2, RenewerUpdateType, Zenon DEF TypeOK
    <2>4. TypeOK'
        BY <2>1, <2>3 DEF TypeOK, saveVars, outsideRenewal
    <2>5. RequestsAreWellFormed'
        BY <2>2 DEF RequestsAreWellFormed, TypeOK, RenewerState, outsideRenewal
    <2> QED
        BY <2>4, <2>5
<1>3. CASE WorkerSavesCleanup
    <2> USE <1>3, <1>w DEF WorkerSavesCleanup
    <2>1. /\ disk' \in [States -> MaybeEntry] \cup {Torn}
          /\ saveFailed' \in BOOLEAN
          /\ faults' \in 0 .. MaxFaults
        <3>1. CASE renewer[Worker].deleted
            BY <3>1, SaveType
        <3>2. CASE ~renewer[Worker].deleted
            BY <3>2 DEF TypeOK, saveVars
        <3> QED
            BY <3>1, <3>2
    <2>2. renewer' \in [Renewers -> RenewerState]
        <3>1. renewer[Worker] \in RenewerState
            BY DEF TypeOK
        <3>2. [renewer[Worker] EXCEPT !.pc = "visit", !.todo = States, !.deleted = FALSE]
                  \in RenewerState
            BY <3>1, StartPassType, Zenon
        <3> QED
            BY <3>2, RenewerUpdateType, Zenon DEF TypeOK
    <2>3. TypeOK'
        BY <2>1, <2>2 DEF TypeOK, outsideRenewal
    <2>4. RequestsAreWellFormed'
        BY DEF RequestsAreWellFormed, TypeOK, RenewerState, outsideRenewal
    <2> QED
        BY <2>3, <2>4
<1> QED
    BY <1>1, <1>2, <1>3 DEF RunWorkerCleanup

\* The users that a renewal adds to the list of a renew-all request are users.
LEMMA DisabledUsersType ==
    ASSUME TypeOK, NEW r \in Renewers, NEW found \in DisabledUsersOf(r)
    PROVE  /\ found \subseteq [account : Accounts, user : User]
           /\ \A hit \in found : /\ hit.user.oidcID = renewer[r].key
                                 /\ renewer[r].entry.renewalFailed
<1> DEFINE hits == {[account |-> a, user |-> users[a]] :
                       a \in {b \in Accounts : users[b].oidcID = renewer[r].key}}
<1>1. hits \subseteq [account : Accounts, user : User]
    BY DEF TypeOK
<1>2. \A hit \in hits : hit.user.oidcID = renewer[r].key
    OBVIOUS
<1>3. found = {} \/ (renewer[r].entry.renewalFailed /\ \E hit \in hits : found = {hit})
    BY DEF DisabledUsersOf
<1> HIDE DEF hits
<1> QED
    BY <1>1, <1>2, <1>3

LEMMA RunRenewerShape ==
    ASSUME Shape, NEW r \in Renewers, StartRenewAll(r) \/ RunRenewer(r)
    PROVE  Shape'
<1> USE DEF Shape
<1>1. CASE StartRenewAll(r)
    <2> USE <1>1 DEF StartRenewAll
    <2>1. renewer' \in [Renewers -> RenewerState]
        BY ZenonT(40) DEF TypeOK, RenewerState
    <2>2. TypeOK'
        BY <2>1 DEF TypeOK, storeVars, saveVars, outsideRenewal
    <2>3. RequestsAreWellFormed'
        BY DEF RequestsAreWellFormed, TypeOK, RenewerState, outsideRenewal
    <2> QED
        BY <2>2, <2>3
<1>2. ASSUME NEW s \in States, Skip(r, s)
      PROVE  Shape'
    <2> USE <1>2 DEF Skip
    <2>1. renewer' \in [Renewers -> RenewerState]
        BY DEF TypeOK, RenewerState
    <2>2. TypeOK'
        BY <2>1 DEF TypeOK, storeVars, saveVars, outsideRenewal
    <2>3. RequestsAreWellFormed'
        BY DEF RequestsAreWellFormed, TypeOK, RenewerState, outsideRenewal
    <2> QED
        BY <2>2, <2>3
<1>3. ASSUME NEW s \in States, BeginRenewal(r, s)
      PROVE  Shape'
    <2> USE <1>3 DEF BeginRenewal
    <2>1. store[s] \in Entry
        BY DEF HasToken, TypeOK, MaybeEntry
    <2>2. renewer' \in [Renewers -> RenewerState]
        <3>1. /\ renewer[r] \in RenewerState
              /\ renewer[r].todo \ {s} \in SUBSET States
            BY DEF TypeOK, RenewerState
        <3>2. [renewer[r] EXCEPT !.pc = "request", !.key = s, !.entry = store[s],
                                 !.todo = @ \ {s}] \in RenewerState
            BY <2>1, <3>1, CopiedType, Zenon
        <3> QED
            BY <3>2, RenewerUpdateType, Zenon DEF TypeOK
    <2>3. overlapped' \subseteq Renewers
        BY DEF TypeOK
    <2>4. TypeOK'
        BY <2>2, <2>3 DEF TypeOK, storeVars, saveVars, outsideRenewal
    <2>5. RequestsAreWellFormed'
        BY <2>1 DEF RequestsAreWellFormed, TypeOK, RenewerState, outsideRenewal
    <2> QED
        BY <2>4, <2>5
<1>4. ASSUME NEW data \in Entry, renewer[r].pc = "request",
             store' = [store EXCEPT ![renewer[r].key] = data],
             renewer' = [renewer EXCEPT ![r] = [@ EXCEPT !.pc = "save", !.entry = data]],
             exhausted' \subseteq States,
             UNCHANGED <<saveVars, users, overlapped, outsideRenewal>>
      PROVE  Shape'
    <2>1. renewer[r].key \in States
        BY <1>4 DEF RequestsAreWellFormed
    <2>2. store' \in [States -> MaybeEntry]
        BY <1>4, <2>1 DEF TypeOK, MaybeEntry
    <2>3. renewer' \in [Renewers -> RenewerState]
        <3>1. renewer[r] \in RenewerState
            BY DEF TypeOK
        <3>2. [renewer[r] EXCEPT !.pc = "save", !.entry = data] \in RenewerState
            BY <1>4, <3>1, StoredType, Zenon
        <3> QED
            BY <1>4, <3>2, RenewerUpdateType, Zenon DEF TypeOK
    <2>4. TypeOK'
        BY <1>4, <2>2, <2>3 DEF TypeOK, saveVars, outsideRenewal
    <2>5. RequestsAreWellFormed'
        BY <1>4, <2>1 DEF RequestsAreWellFormed, TypeOK, RenewerState, outsideRenewal
    <2> QED
        BY <2>4, <2>5
<1>5. CASE RenewalRequestFails(r)
    <2>1. AfterFailure(renewer[r].entry) \in Entry
        BY <1>5, AfterFailureType DEF RenewalRequestFails, RequestsAreWellFormed
    <2>2. exhausted' \subseteq States
        BY <1>5 DEF RenewalRequestFails, RequestsAreWellFormed, TypeOK
    <2> QED
        BY <1>4, <1>5, <2>1, <2>2 DEF RenewalRequestFails
<1>6. CASE RenewalRequestSucceeds(r)
    <2> DEFINE data == [renewer[r].entry EXCEPT !.token = @ + 1]
    <2>1. data \in Entry
        BY <1>6, RenewedType DEF RenewalRequestSucceeds, RequestsAreWellFormed
    <2>2. exhausted' \subseteq States
        BY <1>6 DEF RenewalRequestSucceeds, TypeOK
    <2> QED
        BY <1>4, <1>6, <2>1, <2>2 DEF RenewalRequestSucceeds
<1>7. CASE SaveRenewal(r)
    <2>1. PICK found \in DisabledUsersOf(r) :
              renewer' = [renewer EXCEPT ![r] =
                  [@ EXCEPT !.pc = "visit", !.key = NoState, !.entry = NoEntry,
                            !.disabledUsers = renewer[r].disabledUsers \cup found]]
        BY <1>7 DEF SaveRenewal, FinishRenewal
    <2>2. found \subseteq [account : Accounts, user : User]
        BY DisabledUsersType
    <2>3. renewer' \in [Renewers -> RenewerState]
        <3>1. /\ renewer[r] \in RenewerState
              /\ renewer[r].disabledUsers \cup found \in
                     SUBSET [account : Accounts, user : User]
            BY <2>2 DEF TypeOK, RenewerState
        <3>2. [renewer[r] EXCEPT !.pc = "visit", !.key = NoState, !.entry = NoEntry,
                                 !.disabledUsers = @ \cup found] \in RenewerState
            BY <3>1, FinishedType, Zenon
        <3> QED
            BY <2>1, <3>2, RenewerUpdateType, Zenon DEF TypeOK
    <2>4. TypeOK'
        BY <1>7, <2>3, SaveType DEF SaveRenewal, TypeOK, outsideRenewal
    <2>5. RequestsAreWellFormed'
        BY <1>7, <2>1 DEF SaveRenewal, RequestsAreWellFormed, TypeOK, RenewerState,
                          outsideRenewal
    <2> QED
        BY <2>4, <2>5
<1>8. CASE EndPass(r)
    <2> USE <1>8 DEF EndPass
    <2>1. renewer' \in [Renewers -> RenewerState]
        BY SMTT(20), IdleTypes DEF TypeOK, RenewerState
    <2>2. TypeOK'
        BY <2>1 DEF TypeOK, storeVars, saveVars, outsideRenewal
    <2>3. RequestsAreWellFormed'
        BY DEF RequestsAreWellFormed, TypeOK, RenewerState, outsideRenewal, IdleRenewer
    <2> QED
        BY <2>2, <2>3
<1>9. ASSUME NEW hit \in renewer[r].disabledUsers, DisableUser(r, hit)
      PROVE  Shape'
    <2> USE <1>9 DEF DisableUser
    <2>1. hit.account \in Accounts /\ hit.user \in User
        BY DEF TypeOK, RenewerState
    <2>2. [hit.user EXCEPT !.disabled = TRUE] \in User
        BY <2>1 DEF User
    <2>3. users' \in [Accounts -> User]
        BY <2>1, <2>2 DEF TypeOK
    <2>4. renewer' \in [Renewers -> RenewerState]
        <3>1. renewer[r] \in RenewerState
            BY DEF TypeOK
        <3>2. [renewer[r] EXCEPT !.disabledUsers = @ \ {hit}] \in RenewerState
            BY <3>1 DEF RenewerState
        <3> QED
            BY <3>2, IdleTypes DEF TypeOK
    <2>5. TypeOK'
        BY <2>3, <2>4 DEF TypeOK, storeVars, saveVars, outsideRenewal
    <2>6. RequestsAreWellFormed'
        BY DEF RequestsAreWellFormed, TypeOK, RenewerState, outsideRenewal, IdleRenewer
    <2> QED
        BY <2>5, <2>6
<1>10. CASE DisableUserFails(r)
    <2> USE <1>10 DEF DisableUserFails
    <2>1. renewer' \in [Renewers -> RenewerState]
        BY IdleTypes DEF TypeOK
    <2>2. TypeOK'
        BY <2>1 DEF TypeOK, storeVars, saveVars, outsideRenewal
    <2>3. RequestsAreWellFormed'
        BY DEF RequestsAreWellFormed, TypeOK, outsideRenewal, IdleRenewer
    <2> QED
        BY <2>2, <2>3
<1> QED
    BY <1>1, <1>2, <1>3, <1>5, <1>6, <1>7, <1>8, <1>9, <1>10 DEF RunRenewer

\* So do administrators, time and the process.
LEMMA EnvironmentShape ==
    ASSUME Shape,
           \/ \E a \in Accounts, suspended \in BOOLEAN : SetSuspended(a, suspended)
           \/ Tick
           \/ Crash
           \/ Restart
    PROVE  Shape'
<1> USE DEF Shape
<1>1. ASSUME NEW a \in Accounts, NEW suspended \in BOOLEAN, SetSuspended(a, suspended)
      PROVE  Shape'
    <2> USE <1>1 DEF SetSuspended
    <2>1. users' \in [Accounts -> User]
        BY DEF TypeOK, User
    <2>2. TypeOK'
        BY <2>1 DEF TypeOK, storeVars, saveVars, outsideCallback
    <2>3. RequestsAreWellFormed'
        BY DEF RequestsAreWellFormed, TypeOK, outsideCallback
    <2> QED
        BY <2>2, <2>3
<1>2. CASE Tick
    <2> USE <1>2 DEF Tick
    <2>1. now' \in 0 .. MaxTime
        BY NumericBounds DEF TypeOK
    <2>2. TypeOK'
        BY <2>1 DEF TypeOK, storeVars, saveVars
    <2>3. RequestsAreWellFormed'
        BY DEF RequestsAreWellFormed
    <2> QED
        BY <2>2, <2>3
<1>3. CASE Crash
    <2> USE <1>3 DEF Crash, CountCrash
    <2>1. faults' \in 0 .. MaxFaults
        BY NumericBounds DEF TypeOK
    <2>2. store' \in [States -> MaybeEntry]
        BY DEF EmptyStore, MaybeEntry
    <2>3. /\ callback' \in [Callbacks -> CallbackState]
          /\ renewer' \in [Renewers -> RenewerState]
        BY IdleTypes
    <2>4. TypeOK'
        BY <2>1, <2>2, <2>3 DEF TypeOK
    <2>5. RequestsAreWellFormed'
        BY DEF RequestsAreWellFormed, IdleCallback, IdleRenewer
    <2> QED
        BY <2>4, <2>5
<1>4. CASE Restart
    <2> USE <1>4 DEF Restart
    <2>1. TypeOK'
        BY DEF TypeOK, saveVars
    <2>2. RequestsAreWellFormed'
        BY DEF RequestsAreWellFormed
    <2> QED
        BY <2>1, <2>2
<1> QED
    BY <1>1, <1>2, <1>3, <1>4

\* The shape is inductive.
LEMMA InitShape == Init => Shape
<1>1. Init => RequestsAreWellFormed
    BY DEF Init, RequestsAreWellFormed, IdleCallback, IdleRenewer
<1> QED
    BY <1>1, InitTypeOK DEF Shape

\* Every step keeps the types.
LEMMA NextShape ==
    ASSUME Shape, [Next]_vars
    PROVE  Shape'
<1>1. CASE UNCHANGED vars
    BY <1>1 DEF Shape, TypeOK, RequestsAreWellFormed, vars
<1>2. CASE Next
    BY <1>2, StartLoginShape, SaveLoginShape, ReceiveCallbackShape,
       EnterCallbackShape, ServeCallbackShape, RunRenewerShape,
       EnvironmentShape, WorkerCleanupShape DEF Next
<1> QED
    BY <1>1, <1>2

\* Every reachable state is well typed and every request knows its entry.
THEOREM TypeCorrect == Spec => [](TypeOK /\ RequestsAreWellFormed)
<1>1. Init => Shape
    BY InitShape
<1>2. Shape /\ [Next]_vars => Shape'
    BY NextShape
<1> QED
    BY <1>1, <1>2, PTL DEF Spec, Shape

-----------------------------------------------------------------------------
(* Retries.                                                                *)

LEMMA InitCounted == Init => CopiesAreCounted /\ CollectedAreExhausted
BY DEF Init, CopiesAreCounted, CollectedAreExhausted, EmptyStore, IdleCallback,
       IdleRenewer

\* A write of the store puts counted entries on disk.
LEMMA SaveCounted ==
    ASSUME CopiesAreCounted, TrySave
    PROVE  disk' # Torn =>
              \A s \in States : disk'[s] # NoEntry => RetriesCounted(disk'[s])
BY DEF CopiesAreCounted, TrySave, SaveOIDCStore, SaveOIDCStoreFails

\* The logins and the callbacks keep the entries counted.
LEMMA LoginCounted ==
    ASSUME Shape, CopiesAreCounted, NEW s \in States,
           StartLogin(s) \/ SaveLogin(s)
    PROVE  CopiesAreCounted'
<1>1. CASE StartLogin(s)
    <2> USE <1>1 DEF StartLogin
    <2>1. now + 1 \in Nat
        BY NumericBounds DEF Shape, TypeOK
    <2>2. RetriesCounted(PendingEntry(now + 1))
        BY <2>1, NumericBounds DEF RetriesCounted, PendingEntry
    <2>3. \A t \in States : store'[t] # NoEntry => RetriesCounted(store'[t])
        BY <2>2 DEF CopiesAreCounted, Shape, TypeOK
    <2> QED
        BY <2>3 DEF CopiesAreCounted, saveVars
<1>2. CASE SaveLogin(s)
    BY <1>2, SaveCounted DEF SaveLogin, CopiesAreCounted
<1> QED
    BY <1>1, <1>2

\* A callback keeps the counter and the mark of what it copies.
LEMMA CallbackCounted ==
    ASSUME Shape, CopiesAreCounted, NEW c \in Callbacks,
           \/ \E s \in States : ReceiveCallback(c, s)
           \/ EnterCallback(c)
           \/ ServeCallback(c)
    PROVE  CopiesAreCounted'
<1> USE DEF CopiesAreCounted, Shape, TypeOK
<1>1. ASSUME NEW s \in States, ReceiveCallback(c, s)
      PROVE  CopiesAreCounted'
    BY <1>1 DEF ReceiveCallback, storeVars, saveVars, outsideCallback, CallbackState,
                IdleCallback
<1>2. CASE RejectUnknownState(c) \/ \E licensed \in BOOLEAN : AnswerFromStore(c, licensed)
    BY <1>2 DEF RejectUnknownState, AnswerFromStore, storeVars, saveVars,
                outsideCallback, IdleCallback
<1>3. CASE BeginExchange(c)
    <2>1. callback[c].key \in States /\ store[callback[c].key] # NoEntry
        BY <1>3 DEF BeginExchange, CanEnter, Pending, RequestsAreWellFormed
    <2> QED
        BY <1>3, <2>1 DEF BeginExchange, storeVars, saveVars, outsideCallback,
                          CallbackState
<1>4. CASE ExchangeFails(c) \/ \E a \in Accounts : LinkUserSaveFails(c, a)
    BY <1>4 DEF ExchangeFails, LinkUserSaveFails, Return, storeVars, saveVars,
                outsideCallback, IdleCallback
<1>5. ASSUME NEW a \in Accounts, ExchangeAndLinkUser(c, a)
      PROVE  CopiesAreCounted'
    <2>1. callback[c].pc = "exchange" /\ callback[c].entry \in Entry
        BY <1>5 DEF ExchangeAndLinkUser, RequestsAreWellFormed
    <2>2. RetriesCounted(Redeemed(callback[c].entry, a))
        <3>1. /\ Redeemed(callback[c].entry, a).retries = callback[c].entry.retries
              /\ Redeemed(callback[c].entry, a).renewalFailed =
                     callback[c].entry.renewalFailed
            BY <2>1, RedeemedType
        <3>2. RetriesCounted(callback[c].entry)
            BY <2>1
        <3> QED
            BY <3>1, <3>2, Zenon DEF RetriesCounted
    <2> QED
        BY <1>5, <2>2 DEF ExchangeAndLinkUser, storeVars, saveVars,
                          outsideCallback, CallbackState
<1>6. CASE StoreTokens(c)
    <2>1. callback[c].key \in States
        BY <1>6 DEF StoreTokens, RequestsAreWellFormed
    <2> QED
        BY <1>6, <2>1 DEF StoreTokens, saveVars, outsideCallback, CallbackState
<1>7. CASE SaveTokens(c) \/ SaveTokensFails(c)
    <2>1. disk' # Torn =>
              \A s \in States : disk'[s] # NoEntry => RetriesCounted(disk'[s])
        BY <1>7, SaveCounted DEF SaveTokens, SaveTokensFails, TrySave
    <2> QED
        BY <1>7, <2>1 DEF SaveTokens, SaveTokensFails, Return, outsideCallback,
                          CallbackState, IdleCallback
<1>8. ASSUME NEW saved \in BOOLEAN, CleanupAndAnswer(c, saved)
      PROVE  CopiesAreCounted'
    <2>1. \A s \in States : store'[s] \in {NoEntry, store[s]}
        BY <1>8, CleanupOnlyDeletes DEF CleanupAndAnswer
    <2> QED
        BY <1>8, <2>1 DEF CleanupAndAnswer, Return, saveVars, outsideCallback,
                          IdleCallback
<1> QED
    BY <1>1, <1>2, <1>3, <1>4, <1>5, <1>6, <1>7, <1>8 DEF EnterCallback, ServeCallback

\* So do the renewals.
LEMMA RenewalCounted ==
    ASSUME Shape, CopiesAreCounted,
           \/ WorkerWakesUp
           \/ RunWorkerCleanup
           \/ \E r \in Renewers : StartRenewAll(r) \/ RunRenewer(r)
    PROVE  CopiesAreCounted'
<1> USE DEF CopiesAreCounted, Shape, TypeOK
<1>w. Worker \in Renewers
    BY DEF Renewers
<1>1. CASE WorkerWakesUp
    BY <1>w, <1>1 DEF WorkerWakesUp, storeVars, saveVars, outsideRenewal, RenewerState
<1>2. ASSUME NEW s \in States, WorkerCleanup(s)
      PROVE  CopiesAreCounted'
    <2>1. \A t \in States : store'[t] \in {NoEntry, store[t]}
        BY <1>2, CleanupOnlyDeletes DEF WorkerCleanup
    <2>2. \A r \in Renewers : /\ renewer'[r].pc = renewer[r].pc
                              /\ renewer'[r].entry = renewer[r].entry
        BY <1>w, <1>2 DEF WorkerCleanup, RenewerState
    <2> QED
        BY <1>2, <2>1, <2>2 DEF WorkerCleanup, saveVars, outsideRenewal
<1>3. CASE WorkerSavesCleanup
    <2>1. disk' # Torn =>
              \A s \in States : disk'[s] # NoEntry => RetriesCounted(disk'[s])
        BY <1>3, SaveCounted DEF WorkerSavesCleanup, saveVars
    <2>2. \A r \in Renewers : renewer'[r].pc = "request" =>
              renewer[r].pc = "request" /\ renewer'[r].entry = renewer[r].entry
        BY <1>w, <1>3 DEF WorkerSavesCleanup, RenewerState
    <2> QED
        BY <1>3, <2>1, <2>2 DEF WorkerSavesCleanup, outsideRenewal
<1>4. ASSUME NEW r \in Renewers, StartRenewAll(r)
      PROVE  CopiesAreCounted'
    BY <1>4 DEF StartRenewAll, storeVars, saveVars, outsideRenewal, RenewerState
<1>5. ASSUME NEW r \in Renewers, NEW s \in States, Skip(r, s)
      PROVE  CopiesAreCounted'
    BY <1>5 DEF Skip, storeVars, saveVars, outsideRenewal, RenewerState
<1>6. ASSUME NEW r \in Renewers, NEW s \in States, BeginRenewal(r, s)
      PROVE  CopiesAreCounted'
    <2>1. RetriesCounted(store[s]) /\ ~store[s].renewalFailed
        BY <1>6 DEF BeginRenewal, HasToken
    <2>2. \A q \in Renewers :
              \/ renewer'[q] = renewer[q]
              \/ renewer'[q].entry = store[s]
        BY <1>6 DEF BeginRenewal, RenewerState
    <2> QED
        BY <1>6, <2>1, <2>2 DEF BeginRenewal, storeVars, saveVars, outsideRenewal
<1>7. ASSUME NEW r \in Renewers, NEW data, RetriesCounted(data),
             renewer[r].pc = "request",
             store' = [store EXCEPT ![renewer[r].key] = data],
             renewer' = [renewer EXCEPT ![r] = [@ EXCEPT !.pc = "save", !.entry = data]],
             UNCHANGED <<saveVars, outsideRenewal>>
      PROVE  CopiesAreCounted'
    <2>1. \A s \in States : store'[s] \in {data, store[s]}
        BY <1>7 DEF RequestsAreWellFormed
    <2>2. \A q \in Renewers : renewer'[q] = renewer[q] \/ renewer'[q].pc = "save"
        BY <1>7 DEF RenewerState
    <2> QED
        BY <1>7, <2>1, <2>2 DEF saveVars, outsideRenewal
<1>8. ASSUME NEW r \in Renewers, RenewalRequestFails(r)
      PROVE  CopiesAreCounted'
    <2> DEFINE data == renewer[r].entry
    <2>1. /\ data \in Entry /\ data.retries \in Nat
          /\ RetriesCounted(data) /\ ~data.renewalFailed
        BY <1>8 DEF RenewalRequestFails, RequestsAreWellFormed, Entry
    <2>2. data.retries < RENEWAL_RETRIES
        BY SMTT(20), <2>1, NumericBounds DEF RetriesCounted
    <2>3. /\ AfterFailure(data).retries = data.retries + 1
          /\ AfterFailure(data).renewalFailed <=> data.retries + 1 >= RENEWAL_RETRIES
        BY <2>1, AfterFailureType
    <2>4. RetriesCounted(AfterFailure(data))
        BY <2>1, <2>2, <2>3, NumericBounds DEF RetriesCounted
    <2> QED
        BY <1>7, <1>8, <2>4 DEF RenewalRequestFails
<1>9. ASSUME NEW r \in Renewers, RenewalRequestSucceeds(r)
      PROVE  CopiesAreCounted'
    <2> DEFINE data == renewer[r].entry
               renewed == [data EXCEPT !.token = @ + 1]
    <2>1. data \in Entry /\ RetriesCounted(data)
        BY <1>9 DEF RenewalRequestSucceeds, RequestsAreWellFormed
    <2>2. renewed.retries = data.retries /\ renewed.renewalFailed = data.renewalFailed
        BY <2>1, RenewedType
    <2>3. RetriesCounted(renewed)
        <3> HIDE DEF data, renewed
        <3> QED
            BY <2>1, <2>2, Zenon DEF RetriesCounted
    <2> QED
        BY <1>7, <1>9, <2>3 DEF RenewalRequestSucceeds
<1>10. ASSUME NEW r \in Renewers, SaveRenewal(r)
       PROVE  CopiesAreCounted'
    <2>1. disk' # Torn =>
              \A s \in States : disk'[s] # NoEntry => RetriesCounted(disk'[s])
        BY <1>10, SaveCounted DEF SaveRenewal
    <2>2. \A q \in Renewers : renewer'[q] = renewer[q] \/ renewer'[q].pc = "visit"
        BY <1>10 DEF SaveRenewal, FinishRenewal, RenewerState
    <2> QED
        BY <1>10, <2>1, <2>2 DEF SaveRenewal, outsideRenewal
<1>11. ASSUME NEW r \in Renewers,
              \/ EndPass(r)
              \/ \E hit \in renewer[r].disabledUsers : DisableUser(r, hit)
              \/ DisableUserFails(r)
       PROVE  CopiesAreCounted'
    <2>1. \A q \in Renewers : renewer'[q] = renewer[q] \/ renewer'[q].pc # "request"
        <3>1. CASE EndPass(r) \/ DisableUserFails(r)
            BY <3>1 DEF EndPass, DisableUserFails, RenewerState, IdleRenewer
        <3>2. ASSUME NEW hit \in renewer[r].disabledUsers, DisableUser(r, hit)
              PROVE  \A q \in Renewers : renewer'[q] = renewer[q] \/ renewer'[q].pc # "request"
            BY <3>2 DEF DisableUser, RenewerState, IdleRenewer
        <3> QED
            BY <1>11, <3>1, <3>2
    <2> QED
        BY <1>11, <2>1 DEF EndPass, DisableUser, DisableUserFails, storeVars, saveVars,
                           outsideRenewal
<1> QED
    BY <1>1, <1>2, <1>3, <1>4, <1>5, <1>6, <1>8, <1>9, <1>10, <1>11
       DEF RunWorkerCleanup, RunRenewer

\* So does every step.
LEMMA NextCounted ==
    ASSUME Shape, CopiesAreCounted, [Next]_vars
    PROVE  CopiesAreCounted'
<1>1. CASE UNCHANGED vars
    BY <1>1 DEF CopiesAreCounted, vars
<1>2. CASE \/ \E a \in Accounts, suspended \in BOOLEAN : SetSuspended(a, suspended)
           \/ Tick
           \/ Crash
           \/ Restart
    BY <1>2 DEF SetSuspended, Tick, Crash, Restart, CopiesAreCounted, storeVars,
       saveVars, outsideCallback, EmptyStore, IdleCallback, IdleRenewer
<1>3. CASE Next
    BY <1>2, <1>3, LoginCounted, CallbackCounted, RenewalCounted DEF Next
<1> QED
    BY <1>1, <1>3

\* For every number of retries and every interleaving of renewals, an entry
\* never counts more failures than RENEWAL_RETRIES, and is given up with the
\* last of them.
THEOREM RetriesAreCounted == Spec => []RetriesMatchFailure
<1>1. Init => Shape /\ CopiesAreCounted
    BY InitShape, InitCounted
<1>2. Shape /\ CopiesAreCounted /\ [Next]_vars => (Shape /\ CopiesAreCounted)'
    BY NextShape, NextCounted
<1>3. CopiesAreCounted => RetriesMatchFailure
    BY DEF CopiesAreCounted, RetriesMatchFailure, RetriesCounted
<1> QED
    BY <1>1, <1>2, <1>3, PTL DEF Spec

-----------------------------------------------------------------------------
(* Disabled users.                                                         *)

\* A step that only adds to the exhausted entries, to no list of users and to
\* no user keeps the invariant.
LEMMA QuietKeepsCollected ==
    ASSUME CollectedAreExhausted,
           \A a \in Accounts : users'[a].disabled =>
               users[a].disabled /\ users'[a].oidcID = users[a].oidcID,
           \A r \in Renewers :
               /\ renewer'[r].disabledUsers \subseteq renewer[r].disabledUsers
               /\ renewer'[r].pc = "save" => renewer'[r] = renewer[r],
           exhausted \subseteq exhausted'
    PROVE  CollectedAreExhausted'
BY DEF CollectedAreExhausted

\* The steps of logins, callbacks, administrators and the process are quiet.
LEMMA LoginKeepsCollected ==
    ASSUME Shape, CollectedAreExhausted,
           \/ \E s \in States : StartLogin(s) \/ SaveLogin(s)
           \/ \E c \in Callbacks : \/ \E s \in States : ReceiveCallback(c, s)
                                   \/ EnterCallback(c)
                                   \/ ServeCallback(c)
           \/ \E a \in Accounts, suspended \in BOOLEAN : SetSuspended(a, suspended)
           \/ Tick \/ Crash \/ Restart
    PROVE  CollectedAreExhausted'
<1> DEFINE UsersQuiet == \A a \in Accounts : users'[a].disabled =>
                             users[a].disabled /\ users'[a].oidcID = users[a].oidcID
<1>1. CASE UNCHANGED <<users, renewer, exhausted>>
    BY <1>1, QuietKeepsCollected
<1>2. ASSUME NEW a \in Accounts, NEW c \in Callbacks,
             callback[c].pc = "exchange",
             users' = [users EXCEPT ![a] = Linked(a, callback[c].key)],
             UNCHANGED <<renewer, exhausted>>
      PROVE  CollectedAreExhausted'
    <2>1. Linked(a, callback[c].key).disabled = FALSE
        BY <1>2, LinkedType DEF Shape, TypeOK, RequestsAreWellFormed
    <2>2. UsersQuiet
        BY <1>2, <2>1 DEF Shape, TypeOK
    <2> QED
        BY <1>2, <2>2, QuietKeepsCollected
<1>3. ASSUME NEW a \in Accounts, NEW suspended \in BOOLEAN, SetSuspended(a, suspended)
      PROVE  CollectedAreExhausted'
    <2>1. UsersQuiet
        BY <1>3 DEF SetSuspended, Shape, TypeOK, User
    <2> QED
        BY <1>3, <2>1, QuietKeepsCollected DEF SetSuspended, outsideCallback
<1>4. CASE Crash
    BY <1>4, QuietKeepsCollected DEF Crash, IdleRenewer
<1>5. CASE \/ \E s \in States : StartLogin(s) \/ SaveLogin(s)
           \/ Tick \/ Restart
    BY <1>1, <1>5 DEF StartLogin, SaveLogin, Tick, Restart
<1>6. ASSUME NEW c \in Callbacks,
             \/ \E s \in States : ReceiveCallback(c, s)
             \/ EnterCallback(c)
             \/ ServeCallback(c)
      PROVE  CollectedAreExhausted'
    <2>1. CASE \/ \E s \in States : ReceiveCallback(c, s)
               \/ EnterCallback(c)
        BY <1>1, <2>1 DEF ReceiveCallback, EnterCallback, RejectUnknownState,
                          AnswerFromStore, BeginExchange, outsideCallback
    <2>2. CASE \/ ExchangeFails(c)
               \/ StoreTokens(c)
               \/ SaveTokens(c)
               \/ SaveTokensFails(c)
               \/ \E saved \in BOOLEAN : CleanupAndAnswer(c, saved)
        BY <1>1, <2>2 DEF ExchangeFails, StoreTokens, SaveTokens, SaveTokensFails,
                          CleanupAndAnswer, outsideCallback
    <2>3. CASE \E a \in Accounts : ExchangeAndLinkUser(c, a) \/ LinkUserSaveFails(c, a)
        BY <1>2, <2>3 DEF ExchangeAndLinkUser, LinkUserSaveFails, outsideCallback
    <2> QED
        BY <1>6, <2>1, <2>2, <2>3 DEF ServeCallback
<1> QED
    BY <1>3, <1>4, <1>5, <1>6

\* The renewals: an entry that is given up is recorded before its users are
\* collected, and users are collected with their link.
LEMMA RenewalKeepsCollected ==
    ASSUME Shape, CopiesAreCounted, CollectedAreExhausted,
           \/ WorkerWakesUp
           \/ RunWorkerCleanup
           \/ \E r \in Renewers : StartRenewAll(r) \/ RunRenewer(r)
    PROVE  CollectedAreExhausted'
<1> USE DEF Shape, TypeOK
<1> DEFINE Quiet ==
        \A r \in Renewers :
            /\ renewer'[r].disabledUsers \subseteq renewer[r].disabledUsers
            /\ renewer'[r].pc = "save" => renewer'[r] = renewer[r]
<1>w. Worker \in Renewers
    BY DEF Renewers
<1>1. CASE Quiet /\ UNCHANGED <<users, exhausted>>
    BY <1>1, QuietKeepsCollected
<1>2. CASE WorkerWakesUp
    <2>1. Quiet
        BY <1>2, <1>w DEF WorkerWakesUp, RenewerState
    <2> QED
        BY <1>1, <1>2, <2>1 DEF WorkerWakesUp
<1>3. ASSUME NEW s \in States, WorkerCleanup(s)
      PROVE  CollectedAreExhausted'
    <2>1. Quiet
        BY <1>3, <1>w DEF WorkerCleanup, RenewerState
    <2> QED
        BY <1>1, <1>3, <2>1 DEF WorkerCleanup
<1>4. CASE WorkerSavesCleanup
    <2>1. Quiet
        BY <1>4, <1>w DEF WorkerSavesCleanup, RenewerState
    <2> QED
        BY <1>1, <1>4, <2>1 DEF WorkerSavesCleanup
<1>5. ASSUME NEW r \in Renewers,
             StartRenewAll(r) \/ \E s \in States : Skip(r, s) \/ BeginRenewal(r, s)
      PROVE  CollectedAreExhausted'
    <2>1. Quiet
        <3>1. CASE StartRenewAll(r)
            BY <3>1 DEF StartRenewAll, RenewerState
        <3>2. ASSUME NEW s \in States, BeginRenewal(r, s)
              PROVE  Quiet
            BY <3>2 DEF BeginRenewal, RenewerState
        <3>3. ASSUME NEW s \in States, Skip(r, s)
              PROVE  Quiet
            BY <3>3 DEF Skip, RenewerState
        <3> QED
            BY <1>5, <3>1, <3>2, <3>3
    <2> QED
        BY <1>1, <1>5, <2>1 DEF StartRenewAll, Skip, BeginRenewal
<1>6. ASSUME NEW r \in Renewers, RenewalRequestFails(r)
      PROVE  CollectedAreExhausted'
    <2> DEFINE data == AfterFailure(renewer[r].entry)
    <2>1. \A q \in Renewers :
              /\ renewer'[q].disabledUsers = renewer[q].disabledUsers
              /\ renewer'[q].key = renewer[q].key
              /\ q # r => renewer'[q] = renewer[q]
              /\ q = r => renewer'[q].entry = data
        <3> HIDE DEF data
        <3> QED
            BY <1>6 DEF RenewalRequestFails, RenewerState, data
    <2>2. /\ exhausted \subseteq exhausted'
          /\ data.renewalFailed => renewer[r].key \in exhausted'
        BY <1>6 DEF RenewalRequestFails
    <2> HIDE DEF data
    <2> QED
        BY <1>6, <2>1, <2>2 DEF RenewalRequestFails, CollectedAreExhausted
<1>7. ASSUME NEW r \in Renewers, RenewalRequestSucceeds(r)
      PROVE  CollectedAreExhausted'
    <2> DEFINE data == [renewer[r].entry EXCEPT !.token = @ + 1]
    <2>1. ~renewer[r].entry.renewalFailed /\ renewer[r].entry \in Entry
        BY <1>7 DEF RenewalRequestSucceeds, CopiesAreCounted, RequestsAreWellFormed
    <2>2. ~data.renewalFailed
        BY <2>1, RenewedType
    <2>3. \A q \in Renewers :
              /\ renewer'[q].disabledUsers = renewer[q].disabledUsers
              /\ q # r => renewer'[q] = renewer[q]
              /\ q = r => renewer'[q].entry = data
        <3> HIDE DEF data
        <3> QED
            BY <1>7 DEF RenewalRequestSucceeds, RenewerState, data
    <2> HIDE DEF data
    <2> QED
        BY <1>7, <2>2, <2>3 DEF RenewalRequestSucceeds, CollectedAreExhausted
<1>8. ASSUME NEW r \in Renewers, SaveRenewal(r)
      PROVE  CollectedAreExhausted'
    <2>1. PICK found \in DisabledUsersOf(r) :
              renewer' = [renewer EXCEPT ![r] =
                  [@ EXCEPT !.pc = "visit", !.key = NoState, !.entry = NoEntry,
                            !.disabledUsers = renewer[r].disabledUsers \cup found]]
        BY <1>8 DEF SaveRenewal, FinishRenewal
    <2>2. \A hit \in found : hit.user.oidcID \in exhausted
        <3>1. \A hit \in found : hit.user.oidcID = renewer[r].key /\ renewer[r].entry.renewalFailed
            BY DisabledUsersType
        <3> QED
            BY <1>8, <3>1 DEF SaveRenewal, CollectedAreExhausted
    <2>3. \A q \in Renewers :
              /\ q # r => renewer'[q] = renewer[q]
              /\ q = r => /\ renewer'[q].pc = "visit"
                          /\ renewer'[q].disabledUsers = renewer[q].disabledUsers \cup found
        BY <2>1 DEF RenewerState
    <2> QED
        BY <1>8, <2>2, <2>3 DEF SaveRenewal, CollectedAreExhausted
<1>9. ASSUME NEW r \in Renewers, EndPass(r) \/ DisableUserFails(r)
      PROVE  CollectedAreExhausted'
    <2>1. Quiet
        BY <1>9 DEF EndPass, DisableUserFails, RenewerState, IdleRenewer
    <2> QED
        BY <1>1, <1>9, <2>1 DEF EndPass, DisableUserFails
<1>10. ASSUME NEW r \in Renewers, NEW hit \in renewer[r].disabledUsers, DisableUser(r, hit)
       PROVE  CollectedAreExhausted'
    <2>1. Quiet
        BY <1>10 DEF DisableUser, RenewerState, IdleRenewer
    <2>2. hit.account \in Accounts /\ hit.user \in User /\ hit.user.oidcID \in exhausted
        BY <1>10 DEF RenewerState, CollectedAreExhausted
    <2>3. \A a \in Accounts :
              \/ users'[a] = users[a]
              \/ users'[a].oidcID = hit.user.oidcID
        BY <1>10, <2>2 DEF DisableUser, User
    <2> QED
        BY <1>10, <2>1, <2>2, <2>3 DEF DisableUser, CollectedAreExhausted
<1> QED
    BY <1>2, <1>3, <1>4, <1>5, <1>6, <1>7, <1>8, <1>9, <1>10
       DEF RunWorkerCleanup, RunRenewer

\* A user is disabled only while linked to a session that failed all its
\* retries, for any number of administrators who renew all tokens at once
\* while logins link the same users to new sessions.
THEOREM DisabledAreExhausted == Spec => []DisabledOnlyAfterRetries
<1> DEFINE Inv == Shape /\ CopiesAreCounted /\ CollectedAreExhausted
<1>1. Init => Inv
    BY InitShape, InitCounted
<1>2. Inv /\ [Next]_vars => Inv'
    <2> SUFFICES ASSUME Inv, [Next]_vars PROVE Inv'
        OBVIOUS
    <2>1. Shape' /\ CopiesAreCounted'
        BY NextShape, NextCounted
    <2>2. CASE UNCHANGED vars
        BY <2>2 DEF vars, CollectedAreExhausted, Shape, TypeOK,
                    RequestsAreWellFormed, CopiesAreCounted
    <2>3. CASE Next
        <3>1. CollectedAreExhausted'
            BY <2>3, LoginKeepsCollected, RenewalKeepsCollected DEF Next
        <3> QED
            BY <2>1, <3>1
    <2> QED
        BY <2>2, <2>3
<1>3. Inv => DisabledOnlyAfterRetries
    BY DEF CollectedAreExhausted, DisabledOnlyAfterRetries
<1> QED
    BY <1>1, <1>2, <1>3, PTL DEF Spec

-----------------------------------------------------------------------------
(* Exclusion.                                                              *)

LEMMA InitExclusion == Init => Exclusion
BY DEF Init, Exclusion, LockIsHeld, KeysAreUsed, CallbackEntryIsPending,
       RenewedEntryHasToken, EmptyStore, IdleCallback, IdleRenewer, Serving

\* A step keeps Exclusion if it only deletes entries or writes the file,
\* starts no exchange and no renewal, and gives the lock back at most.
LEMMA QuietKeepsExclusion ==
    ASSUME Exclusion,
           running \/ UNCHANGED <<callback, renewer>>,
           \A s \in States : store'[s] \in {NoEntry, store[s]},
           disk' \in {disk, store, Torn},
           UNCHANGED <<used, running, overlapped>>,
           \A c \in Callbacks :
               \/ callback'[c] = callback[c]
               \/ callback'[c].pc = "idle"
               \/ /\ callback[c].pc = "save" /\ callback'[c].pc = "cleanup"
                  /\ callback'[c].key = callback[c].key,
           lock' = lock \/ \A c \in Callbacks : callback'[c].pc \notin Serving,
           \A r \in Renewers : renewer'[r] = renewer[r] \/ renewer'[r].pc # "request",
           \A c \in Callbacks : callback[c].pc # "idle" => callback[c].key \in States,
           \A r \in Renewers : renewer[r].pc = "request" => renewer[r].key \in States
    PROVE  Exclusion'
<1>1. LockIsHeld'
    BY DEF Exclusion, LockIsHeld, Serving
<1>2. KeysAreUsed'
    BY DEF Exclusion, KeysAreUsed
<1>3. CallbackEntryIsPending'
    BY DEF Exclusion, CallbackEntryIsPending, HasToken
<1>4. RenewedEntryHasToken'
    <2>1. \A r \in Renewers : renewer'[r].pc = "request" => renewer'[r] = renewer[r]
        OBVIOUS
    <2>2. \A c \in Callbacks : callback'[c].pc \in {"exchange", "store"} =>
              callback'[c] = callback[c]
        OBVIOUS
    <2> QED
        BY <2>1, <2>2 DEF Exclusion, RenewedEntryHasToken, Pending
<1> QED
    BY <1>1, <1>2, <1>3, <1>4 DEF Exclusion

\* A save leaves the file as it was, whole or torn.
LEMMA SaveTarget ==
    ASSUME TrySave
    PROVE  disk' \in {disk, store, Torn}
BY DEF TrySave, SaveOIDCStore, SaveOIDCStoreFails

\* The lock gives the callbacks their mutual exclusion.
LEMMA ReturnFreesLock ==
    ASSUME Shape, Exclusion, NEW c \in Callbacks, callback[c].pc \in Serving, Return(c)
    PROVE  \A d \in Callbacks : callback'[d].pc \notin Serving
BY DEF Shape, TypeOK, Exclusion, LockIsHeld, Serving, Return, IdleCallback

\* Logins, administrators, time and the process.
LEMMA LoginKeepsExclusion ==
    ASSUME Shape, Exclusion,
           \/ \E s \in States : StartLogin(s) \/ SaveLogin(s)
           \/ \E a \in Accounts, suspended \in BOOLEAN : SetSuspended(a, suspended)
           \/ Tick \/ Crash \/ Restart
    PROVE  Exclusion'
<1>k. /\ \A c \in Callbacks : callback[c].pc # "idle" => callback[c].key \in States
      /\ \A r \in Renewers : renewer[r].pc = "request" => renewer[r].key \in States
    BY DEF Shape, RequestsAreWellFormed
<1>1. ASSUME NEW s \in States, StartLogin(s)
      PROVE  Exclusion'
    <2>1. \A t \in States : t # s => store'[t] = store[t]
        BY <1>1 DEF StartLogin, Shape, TypeOK
    <2>2. /\ \A c \in Callbacks : callback[c].pc # "idle" => callback[c].key # s
          /\ \A r \in Renewers : renewer[r].pc = "request" => renewer[r].key # s
        BY <1>1 DEF StartLogin, Exclusion, KeysAreUsed
    <2>3. LockIsHeld'
        BY <1>1 DEF StartLogin, Exclusion, LockIsHeld
    <2>4. KeysAreUsed'
        BY <1>1, <2>1 DEF StartLogin, Exclusion, KeysAreUsed, saveVars
    <2>5. CallbackEntryIsPending'
        BY <1>1, <1>k, <2>1, <2>2 DEF StartLogin, Exclusion, CallbackEntryIsPending, HasToken
    <2>6. RenewedEntryHasToken'
        BY <1>1, <1>k, <2>1, <2>2 DEF StartLogin, Exclusion, RenewedEntryHasToken, Pending
    <2> QED
        BY <2>3, <2>4, <2>5, <2>6 DEF Exclusion
<1>2. ASSUME NEW s \in States, SaveLogin(s)
      PROVE  Exclusion'
    BY <1>2, <1>k, SaveTarget, QuietKeepsExclusion DEF SaveLogin
<1>3. ASSUME NEW a \in Accounts, NEW suspended \in BOOLEAN, SetSuspended(a, suspended)
      PROVE  Exclusion'
    BY <1>3, <1>k, QuietKeepsExclusion
       DEF SetSuspended, storeVars, saveVars, outsideCallback
<1>4. CASE Tick
    BY <1>4, <1>k, QuietKeepsExclusion DEF Tick, storeVars, saveVars
<1>5. CASE Crash
    BY <1>5 DEF Crash, Exclusion, LockIsHeld, KeysAreUsed, CallbackEntryIsPending,
       RenewedEntryHasToken, EmptyStore, IdleCallback, IdleRenewer, Serving
<1>6. CASE Restart
    BY <1>6 DEF Restart, Exclusion, LockIsHeld, KeysAreUsed, CallbackEntryIsPending,
       RenewedEntryHasToken, Serving, saveVars
<1> QED
    BY <1>1, <1>2, <1>3, <1>4, <1>5, <1>6

\* Callbacks exclude each other by the lock.
LEMMA CallbackKeepsExclusion ==
    ASSUME Shape, Exclusion, NEW c \in Callbacks,
           \/ \E s \in States : ReceiveCallback(c, s)
           \/ EnterCallback(c)
           \/ ServeCallback(c)
    PROVE  Exclusion'
<1>k. /\ \A d \in Callbacks : callback[d].pc # "idle" => callback[d].key \in States
      /\ \A r \in Renewers : renewer[r].pc = "request" => renewer[r].key \in States
    BY DEF Shape, RequestsAreWellFormed
<1>t. callback \in [Callbacks -> CallbackState]
    BY DEF Shape, TypeOK
<1>r. callback[c].pc # "idle" => running
    BY DEF Exclusion, LockIsHeld
<1>1. ASSUME NEW s \in States, ReceiveCallback(c, s)
      PROVE  Exclusion'
    <2>1. \A d \in Callbacks :
              \/ callback'[d] = callback[d]
              \/ callback'[d].pc = "waiting" /\ callback'[d].key = s
        BY <1>1, <1>t DEF ReceiveCallback, IdleCallback
    <2>u. /\ s \in used /\ running
          /\ UNCHANGED <<store, disk, lock, used, running, renewer, overlapped>>
        BY <1>1 DEF ReceiveCallback, storeVars, saveVars, outsideCallback
    <2>2. LockIsHeld'
        BY <2>u, <2>1 DEF Exclusion, LockIsHeld, Serving
    <2>3. KeysAreUsed'
        BY <2>u, <2>1 DEF Exclusion, KeysAreUsed
    <2>4. CallbackEntryIsPending'
        BY <2>u, <2>1 DEF Exclusion, CallbackEntryIsPending, HasToken
    <2>5. RenewedEntryHasToken'
        BY <2>u, <2>1 DEF Exclusion, RenewedEntryHasToken, Pending
    <2> QED
        BY <2>2, <2>3, <2>4, <2>5 DEF Exclusion
<1>2. CASE RejectUnknownState(c) \/ \E licensed \in BOOLEAN : AnswerFromStore(c, licensed)
    BY <1>2, <1>k, <1>t, <1>r, QuietKeepsExclusion
       DEF RejectUnknownState, AnswerFromStore, CanEnter, storeVars, saveVars,
           outsideCallback, IdleCallback
<1>3. CASE BeginExchange(c)
    <2>1. /\ callback'[c].pc = "exchange"
          /\ callback'[c].entry = store[callback[c].key]
          /\ callback'[c].key = callback[c].key
          /\ \A d \in Callbacks : d # c => callback'[d] = callback[d]
        BY <1>3, <1>t DEF BeginExchange, CallbackState
    <2>2. \A d \in Callbacks : callback[d].pc \notin Serving
        BY <1>3, DistinctSentinels DEF BeginExchange, CanEnter, Exclusion, LockIsHeld
    <2>3. /\ callback[c].pc = "waiting"
          /\ Pending(callback[c].key)
        BY <1>3 DEF BeginExchange, CanEnter
    <2>u. /\ lock' = c
          /\ UNCHANGED <<store, disk, used, running, renewer, overlapped>>
        BY <1>3 DEF BeginExchange, storeVars, saveVars, outsideCallback
    <2>4. LockIsHeld'
        BY <2>u, <1>r, <2>1, <2>2, <2>3 DEF Exclusion, LockIsHeld
    <2>5. KeysAreUsed'
        BY <2>u, <2>1, <2>3 DEF Exclusion, KeysAreUsed
    <2>6. CallbackEntryIsPending'
        BY <2>u, <2>1, <2>2, <2>3 DEF CallbackEntryIsPending, HasToken, Pending, Serving
    <2>7. RenewedEntryHasToken'
        <3>1. \A r \in Renewers : renewer[r].pc = "request" =>
                  renewer[r].key # callback[c].key
            BY <2>3 DEF Exclusion, RenewedEntryHasToken
        <3> QED
            BY <2>u, <2>1, <3>1 DEF Exclusion, RenewedEntryHasToken, Pending
    <2> QED
        BY <2>4, <2>5, <2>6, <2>7 DEF Exclusion
<1>4. CASE ExchangeFails(c) \/ \E a \in Accounts : LinkUserSaveFails(c, a)
    <2>1. callback[c].pc \in Serving /\ Return(c)
        BY <1>4 DEF ExchangeFails, LinkUserSaveFails, Serving
    <2>2. \A d \in Callbacks : callback'[d].pc \notin Serving
        BY <2>1, ReturnFreesLock
    <2>3. running
        BY <1>r, <2>1 DEF Serving
    <2> QED
        BY <1>4, <1>k, <1>t, <2>1, <2>2, <2>3, QuietKeepsExclusion
           DEF ExchangeFails, LinkUserSaveFails, Return, storeVars, saveVars,
               outsideCallback, IdleCallback
<1>5. ASSUME NEW a \in Accounts, ExchangeAndLinkUser(c, a)
      PROVE  Exclusion'
    <2>1. /\ callback[c].pc = "exchange"
          /\ callback'[c].pc = "store"
          /\ callback'[c].key = callback[c].key
          /\ \A d \in Callbacks : d # c => callback'[d] = callback[d]
        BY <1>5, <1>t DEF ExchangeAndLinkUser, CallbackState
    <2>u. UNCHANGED <<store, disk, lock, used, running, renewer, overlapped>>
        BY <1>5 DEF ExchangeAndLinkUser, storeVars, saveVars, outsideCallback
    <2>2. LockIsHeld'
        BY <2>u, <2>1 DEF Exclusion, LockIsHeld, Serving
    <2>3. KeysAreUsed'
        BY <2>u, <2>1 DEF Exclusion, KeysAreUsed
    <2>4. CallbackEntryIsPending'
        BY <2>u, <1>k, <2>1 DEF Exclusion, CallbackEntryIsPending, HasToken
    <2>5. RenewedEntryHasToken'
        BY <2>u, <2>1 DEF Exclusion, RenewedEntryHasToken, Pending
    <2> QED
        BY <2>2, <2>3, <2>4, <2>5 DEF Exclusion
<1>6. CASE StoreTokens(c)
    <2> DEFINE k == callback[c].key
    <2>1. /\ callback[c].pc = "store"
          /\ callback'[c].pc = "save"
          /\ callback'[c].key = k
          /\ \A d \in Callbacks : d # c => callback'[d] = callback[d]
        BY <1>6, <1>t DEF StoreTokens, CallbackState
    <2>2. k \in States /\ \A s \in States : s # k => store'[s] = store[s]
        BY <1>6, <1>k DEF StoreTokens, Shape, TypeOK
    <2>3. \A d \in Callbacks : d # c => callback[d].pc \notin Serving
        BY <2>1 DEF Exclusion, LockIsHeld, Serving
    <2>4. \A r \in Renewers : renewer[r].pc = "request" => renewer[r].key # k
        BY <2>1 DEF Exclusion, RenewedEntryHasToken
    <2> HIDE DEF k
    <2>u. UNCHANGED <<disk, lock, used, running, renewer, overlapped>>
        BY <1>6 DEF StoreTokens, saveVars, outsideCallback
    <2>5. LockIsHeld'
        BY <2>u, <2>1, <2>3 DEF Exclusion, LockIsHeld, Serving
    <2>6. KeysAreUsed'
        BY <2>u, <2>1, <2>2 DEF Exclusion, KeysAreUsed, k
    <2>7. CallbackEntryIsPending'
        BY <2>u, <2>1, <2>3 DEF CallbackEntryIsPending, Serving
    <2>8. RenewedEntryHasToken'
        BY <2>u, <1>k, <2>1, <2>2, <2>4 DEF Exclusion, RenewedEntryHasToken, Pending
    <2> QED
        BY <2>5, <2>6, <2>7, <2>8 DEF Exclusion
<1>7. CASE SaveTokens(c)
    <2>1. /\ callback[c].pc = "save"
          /\ callback'[c].pc = "cleanup"
          /\ callback'[c].key = callback[c].key
          /\ \A d \in Callbacks : d # c => callback'[d] = callback[d]
        BY <1>7, <1>t DEF SaveTokens, CallbackState
    <2>2. disk' \in {disk, store, Torn}
        BY <1>7 DEF SaveTokens, SaveOIDCStore
    <2> QED
        BY <1>7, <1>k, <1>r, <2>1, <2>2, QuietKeepsExclusion
           DEF SaveTokens, outsideCallback
<1>8. ASSUME \/ SaveTokensFails(c)
             \/ \E saved \in BOOLEAN : CleanupAndAnswer(c, saved)
      PROVE  Exclusion'
    <2>1. callback[c].pc \in Serving /\ Return(c)
        BY <1>8 DEF SaveTokensFails, CleanupAndAnswer, Serving
    <2>2. \A d \in Callbacks : callback'[d].pc \notin Serving
        BY <2>1, ReturnFreesLock
    <2>3. \A d \in Callbacks : callback'[d] = callback[d] \/ callback'[d].pc = "idle"
        BY <1>t, <2>1 DEF Return, IdleCallback
    <2>4. running
        BY <1>r, <2>1 DEF Serving
    <2>5. \A s \in States : store'[s] \in {NoEntry, store[s]}
        BY <1>8, CleanupOnlyDeletes DEF SaveTokensFails, CleanupAndAnswer
    <2>6. disk' \in {disk, store, Torn}
        BY <1>8 DEF SaveTokensFails, SaveOIDCStoreFails, CleanupAndAnswer, saveVars
    <2>7. UNCHANGED <<used, running, overlapped, renewer>>
        BY <1>8 DEF SaveTokensFails, CleanupAndAnswer, outsideCallback
    <2> QED
        BY <1>k, <2>2, <2>3, <2>4, <2>5, <2>6, <2>7, QuietKeepsExclusion
<1> QED
    BY <1>1, <1>2, <1>3, <1>4, <1>5, <1>6, <1>7, <1>8 DEF EnterCallback, ServeCallback

\* The renewals.
LEMMA RenewalKeepsExclusion ==
    ASSUME Shape, Exclusion,
           \/ WorkerWakesUp
           \/ RunWorkerCleanup
           \/ \E r \in Renewers : StartRenewAll(r) \/ RunRenewer(r)
    PROVE  Exclusion'
<1>k. /\ \A c \in Callbacks : callback[c].pc # "idle" => callback[c].key \in States
      /\ \A r \in Renewers : renewer[r].pc = "request" => renewer[r].key \in States
    BY DEF Shape, RequestsAreWellFormed
<1>t. /\ renewer \in [Renewers -> RenewerState] /\ Worker \in Renewers
      /\ store \in [States -> MaybeEntry]
    BY DEF Shape, TypeOK, Renewers
<1>r. \A r \in Renewers : renewer[r].pc # "idle" => running
    BY DEF Exclusion, LockIsHeld
<1>q. ASSUME running,
             \A s \in States : store'[s] \in {NoEntry, store[s]},
             disk' \in {disk, store, Torn},
             \A r \in Renewers : renewer'[r] = renewer[r] \/ renewer'[r].pc # "request",
             UNCHANGED <<callback, lock, used, running, overlapped>>
      PROVE  Exclusion'
    BY <1>k, <1>q, QuietKeepsExclusion
<1>1. CASE WorkerWakesUp \/ \E r \in Renewers : StartRenewAll(r)
    <2>1. \A r \in Renewers : renewer'[r] = renewer[r] \/ renewer'[r].pc # "request"
        BY <1>1, <1>t DEF WorkerWakesUp, StartRenewAll, RenewerState
    <2> QED
        BY <1>1, <1>q, <2>1 DEF WorkerWakesUp, StartRenewAll, storeVars, saveVars,
                                outsideRenewal
<1>2. ASSUME NEW s \in States, WorkerCleanup(s)
      PROVE  Exclusion'
    <2>1. \A r \in Renewers : renewer'[r] = renewer[r] \/ renewer'[r].pc # "request"
        BY <1>2, <1>t DEF WorkerCleanup, RenewerState
    <2>2. \A t \in States : store'[t] \in {NoEntry, store[t]}
        BY <1>2, CleanupOnlyDeletes DEF WorkerCleanup
    <2>3. running
        BY <1>2, <1>r, <1>t DEF WorkerCleanup
    <2>4. UNCHANGED <<disk, callback, lock, used, running, overlapped>>
        BY <1>2 DEF WorkerCleanup, saveVars, outsideRenewal
    <2> QED
        BY <1>q, <2>1, <2>2, <2>3, <2>4
<1>3. CASE WorkerSavesCleanup
    <2>1. \A r \in Renewers : renewer'[r] = renewer[r] \/ renewer'[r].pc # "request"
        BY <1>3, <1>t DEF WorkerSavesCleanup, RenewerState
    <2>2. disk' \in {disk, store, Torn}
        BY <1>3, SaveTarget DEF WorkerSavesCleanup, saveVars
    <2>3. running
        BY <1>3, <1>r, <1>t DEF WorkerSavesCleanup
    <2>4. UNCHANGED <<store, callback, lock, used, running, overlapped>>
        BY <1>3 DEF WorkerSavesCleanup, outsideRenewal
    <2> QED
        BY <1>q, <2>1, <2>2, <2>3, <2>4
<1>4. ASSUME NEW r \in Renewers, NEW s \in States, Skip(r, s)
      PROVE  Exclusion'
    <2>1. \A q \in Renewers : renewer'[q] = renewer[q] \/ renewer'[q].pc # "request"
        BY <1>4, <1>t DEF Skip, RenewerState
    <2>2. running
        BY <1>4, <1>r DEF Skip
    <2> QED
        BY <1>4, <1>q, <2>1, <2>2 DEF Skip, storeVars, saveVars, outsideRenewal
<1>5. ASSUME NEW r \in Renewers, NEW s \in States, BeginRenewal(r, s)
      PROVE  Exclusion'
    <2> DEFINE others == {q \in Renewers : Refreshing(q, s)}
    <2>1. /\ renewer[r].pc = "visit"
          /\ renewer'[r].pc = "request"
          /\ renewer'[r].key = s
          /\ renewer'[r].entry = store[s]
          /\ \A q \in Renewers : q # r => renewer'[q] = renewer[q]
        BY <1>5, <1>t DEF BeginRenewal, RenewerState
    <2>2. /\ store[s] # NoEntry /\ store[s].token > 0 /\ store[s].token # 0
        BY <1>5, <1>t DEF BeginRenewal, HasToken, MaybeEntry, Entry
    <2>3. /\ others = {} => overlapped' = overlapped \ {r}
          /\ others # {} => overlapped' = overlapped \cup others \cup {r}
        BY <1>5 DEF BeginRenewal
    <2>u. UNCHANGED <<store, disk, callback, lock, used, running>>
        BY <1>5 DEF BeginRenewal, storeVars, saveVars, outsideRenewal
    <2>4. LockIsHeld'
        BY <1>r, <2>1, <2>u DEF Exclusion, LockIsHeld
    <2>5. KeysAreUsed'
        BY <2>1, <2>2, <2>u DEF Exclusion, KeysAreUsed
    <2>6. CallbackEntryIsPending'
        BY <2>u DEF Exclusion, CallbackEntryIsPending, HasToken
    <2>7. RenewedEntryHasToken'
        <3>1. \A c \in Callbacks : callback[c].pc \in {"exchange", "store"} =>
                  callback[c].key # s
            BY <2>2 DEF Exclusion, CallbackEntryIsPending, HasToken
        <3>2. \A q \in Renewers :
                  renewer'[q].pc = "request" =>
                      /\ ~Pending(renewer'[q].key)
                      /\ renewer'[q].entry.token > 0
                      /\ \A c \in Callbacks :
                            callback[c].pc \in {"exchange", "store"} =>
                                callback[c].key # renewer'[q].key
            BY <2>1, <2>2, <3>1 DEF Exclusion, RenewedEntryHasToken, Pending
        <3>3. ASSUME NEW p \in Renewers, NEW q \in Renewers,
                     p # q,
                     renewer'[p].pc = "request",
                     renewer'[q].pc = "request",
                     renewer'[p].key = renewer'[q].key
              PROVE  p \in overlapped'
            <4>1. CASE p = r
                <5>1. q \in others
                    BY <2>1, <3>3, <4>1 DEF Refreshing
                <5> QED
                    BY <2>3, <4>1, <5>1
            <4>2. CASE q = r
                <5>1. p \in others
                    BY <2>1, <3>3, <4>2 DEF Refreshing
                <5> QED
                    BY <2>3, <5>1
            <4>3. CASE p # r /\ q # r
                <5>1. p \in overlapped
                    BY <2>1, <3>3, <4>3 DEF Exclusion, RenewedEntryHasToken
                <5> QED
                    BY <2>3, <4>3, <5>1
            <4> QED
                BY <4>1, <4>2, <4>3
        <3>4. ASSUME NEW q \in Renewers,
                     renewer'[q].pc = "request", q \notin overlapped'
              PROVE  store[renewer'[q].key] \in {NoEntry, renewer'[q].entry}
            <4>1. CASE q = r
                BY <2>1, <4>1
            <4>2. CASE q # r
                <5>1. q \notin overlapped
                    BY <2>3, <3>4, <4>2
                <5> QED
                    BY <2>1, <3>4, <4>2, <5>1 DEF Exclusion, RenewedEntryHasToken
            <4> QED
                BY <4>1, <4>2
        <3> QED
            BY <2>u, <3>2, <3>3, <3>4 DEF RenewedEntryHasToken, Pending
    <2> QED
        BY <2>4, <2>5, <2>6, <2>7 DEF Exclusion
<1>6. ASSUME NEW r \in Renewers, NEW data \in Entry, data.token > 0,
             renewer[r].pc = "request",
             store' = [store EXCEPT ![renewer[r].key] = data],
             renewer' = [renewer EXCEPT ![r] = [@ EXCEPT !.pc = "save", !.entry = data]],
             UNCHANGED <<saveVars, overlapped, outsideRenewal>>
      PROVE  Exclusion'
    <2> DEFINE k == renewer[r].key
    <2>1. /\ k \in States /\ k \in used
          /\ \A s \in States : s # k => store'[s] = store[s]
          /\ store'[k] = data
        BY <1>6, <1>k, <1>t DEF Exclusion, KeysAreUsed
    <2>2. /\ renewer'[r].pc = "save"
          /\ \A q \in Renewers : q # r => renewer'[q] = renewer[q]
        BY <1>6, <1>t DEF RenewerState
    <2>3. \A c \in Callbacks :
              callback[c].pc \in {"exchange", "store"} => callback[c].key # k
        BY <1>6 DEF Exclusion, RenewedEntryHasToken
    <2>4. \A q \in Renewers : q # r /\ renewer[q].pc = "request" /\ renewer[q].key = k
              => q \in overlapped
        BY <1>6 DEF Exclusion, RenewedEntryHasToken
    <2>5. data # NoEntry /\ data.token # 0
        BY <1>6, DistinctSentinels DEF Entry
    <2> HIDE DEF k
    <2>u. UNCHANGED <<disk, callback, lock, used, running, overlapped>>
        BY <1>6 DEF saveVars, outsideRenewal
    <2>6. LockIsHeld'
        BY <1>6, <1>r, <2>2, <2>u DEF Exclusion, LockIsHeld
    <2>7. KeysAreUsed'
        BY <2>1, <2>2, <2>u DEF Exclusion, KeysAreUsed
    <2>8. CallbackEntryIsPending'
        BY <1>k, <2>1, <2>3, <2>u DEF Exclusion, CallbackEntryIsPending, HasToken
    <2>9. RenewedEntryHasToken'
        BY <1>k, <2>1, <2>2, <2>4, <2>5, <2>u DEF Exclusion, RenewedEntryHasToken, Pending
    <2> QED
        BY <2>6, <2>7, <2>8, <2>9 DEF Exclusion
<1>7. ASSUME NEW r \in Renewers, RenewalRequestFails(r)
      PROVE  Exclusion'
    <2> DEFINE data == renewer[r].entry
    <2>1. data \in Entry /\ data.token > 0
        BY <1>7 DEF RenewalRequestFails, Shape, RequestsAreWellFormed, Exclusion,
                    RenewedEntryHasToken
    <2>2. AfterFailure(data) \in Entry /\ AfterFailure(data).token > 0
        BY <2>1, AfterFailureType
    <2> QED
        BY <1>6, <1>7, <2>2 DEF RenewalRequestFails
<1>8. ASSUME NEW r \in Renewers, RenewalRequestSucceeds(r)
      PROVE  Exclusion'
    <2> DEFINE data == renewer[r].entry
               renewed == [data EXCEPT !.token = @ + 1]
    <2>1. data \in Entry /\ data.token \in Nat
        BY <1>8 DEF RenewalRequestSucceeds, Shape, RequestsAreWellFormed, Entry
    <2>2. renewed \in Entry /\ renewed.token = data.token + 1
        BY <2>1, RenewedType
    <2>3. renewed.token > 0
        BY <2>1, <2>2
    <2> QED
        BY <1>6, <1>8, <2>2, <2>3 DEF RenewalRequestSucceeds
<1>9. ASSUME NEW r \in Renewers, SaveRenewal(r)
      PROVE  Exclusion'
    <2>1. \A q \in Renewers : renewer'[q] = renewer[q] \/ renewer'[q].pc # "request"
        BY <1>9, <1>t DEF SaveRenewal, FinishRenewal, RenewerState
    <2>2. disk' \in {disk, store, Torn}
        BY <1>9, SaveTarget DEF SaveRenewal
    <2>3. running
        BY <1>9, <1>r DEF SaveRenewal
    <2> QED
        BY <1>9, <1>q, <2>1, <2>2, <2>3 DEF SaveRenewal, outsideRenewal
<1>10. ASSUME NEW r \in Renewers, EndPass(r) \/ DisableUserFails(r)
       PROVE  Exclusion'
    <2>1. \A q \in Renewers : renewer'[q] = renewer[q] \/ renewer'[q].pc # "request"
        BY <1>10, <1>t DEF EndPass, DisableUserFails, RenewerState, IdleRenewer
    <2>2. running
        BY <1>10, <1>r DEF EndPass, DisableUserFails
    <2> QED
        BY <1>10, <1>q, <2>1, <2>2 DEF EndPass, DisableUserFails, storeVars, saveVars,
                                       outsideRenewal
<1>11. ASSUME NEW r \in Renewers, NEW hit \in renewer[r].disabledUsers, DisableUser(r, hit)
       PROVE  Exclusion'
    <2>1. \A q \in Renewers : renewer'[q] = renewer[q] \/ renewer'[q].pc # "request"
        BY <1>11, <1>t DEF DisableUser, RenewerState, IdleRenewer
    <2>2. running
        BY <1>11, <1>r DEF DisableUser
    <2> QED
        BY <1>11, <1>q, <2>1, <2>2 DEF DisableUser, storeVars, saveVars, outsideRenewal
<1> QED
    BY <1>1, <1>2, <1>3, <1>4, <1>5, <1>7, <1>8, <1>9, <1>10, <1>11
       DEF RunWorkerCleanup, RunRenewer

\* Every step keeps the exclusion.
LEMMA NextExclusion ==
    ASSUME Shape, Exclusion, [Next]_vars
    PROVE  Exclusion'
<1>1. CASE UNCHANGED vars
    BY <1>1 DEF vars, Exclusion, LockIsHeld, KeysAreUsed, CallbackEntryIsPending,
                RenewedEntryHasToken, HasToken, Pending
<1>2. CASE Next
    BY <1>2, LoginKeepsExclusion, CallbackKeepsExclusion, RenewalKeepsExclusion DEF Next
<1> QED
    BY <1>1, <1>2

\* No lost update between callbacks, renewals and cleanups, for any number of
\* them: the entry a request has copied is as it was copied, or deleted, when
\* the request writes it back, except between two renewals of one entry.
THEOREM NoLostUpdate == Spec => []CopyIsCurrent
<1>1. Init => Shape /\ Exclusion
    BY InitShape, InitExclusion
<1>2. Shape /\ Exclusion /\ [Next]_vars => (Shape /\ Exclusion)'
    BY NextShape, NextExclusion
<1>3. Exclusion => CopyIsCurrent
    BY DEF Exclusion, CallbackEntryIsPending, RenewedEntryHasToken, CopyIsCurrent
<1> QED
    BY <1>1, <1>2, <1>3, PTL DEF Spec

-----------------------------------------------------------------------------
(* The file.                                                               *)

\* A step that writes nothing keeps the file up to date, if what it puts in
\* the map is being saved and what is being saved still is.
LEMMA QuietKeepsFile ==
    ASSUME DiskFollowsMemory,
           running' => running,
           UNCHANGED <<disk, saveFailed>>,
           starting \subseteq starting',
           \A s \in States : store'[s] \in {NoEntry, store[s]} \/ BeingSaved(s)',
           \A c \in Callbacks : callback[c].pc = "save" => callback'[c] = callback[c],
           \A r \in Renewers : renewer[r].pc = "save" => renewer'[r] = renewer[r]
    PROVE  DiskFollowsMemory'
<1>1. \A s \in States : BeingSaved(s) => BeingSaved(s)'
    BY DEF BeingSaved
<1> QED
    BY <1>1 DEF DiskFollowsMemory

\* A write puts the map on disk, or leaves a mark that it failed.
LEMMA SaveKeepsFile ==
    ASSUME TypeOK, TrySave, store' = store
    PROVE  DiskFollowsMemory'
<1>1. CASE SaveOIDCStore
    <2>1. store # Torn
        BY DistinctSentinels DEF TypeOK
    <2> QED
        BY <1>1, <2>1 DEF SaveOIDCStore, DiskFollowsMemory
<1>2. CASE SaveOIDCStoreFails
    BY <1>2 DEF SaveOIDCStoreFails, DiskFollowsMemory
<1> QED
    BY <1>1, <1>2 DEF TrySave

\* The file follows the map, one group of actions at a time.
LEMMA LoginKeepsFile ==
    ASSUME Shape, DiskFollowsMemory,
           \/ \E s \in States : StartLogin(s) \/ SaveLogin(s)
           \/ \E a \in Accounts, suspended \in BOOLEAN : SetSuspended(a, suspended)
           \/ Tick \/ Crash \/ Restart
    PROVE  DiskFollowsMemory'
<1>1. ASSUME NEW s \in States, StartLogin(s)
      PROVE  DiskFollowsMemory'
    <2>1. \A t \in States : store'[t] \in {NoEntry, store[t]} \/ BeingSaved(t)'
        BY <1>1 DEF StartLogin, Shape, TypeOK, BeingSaved
    <2> QED
        BY <1>1, <2>1, QuietKeepsFile DEF StartLogin, saveVars
<1>2. ASSUME NEW s \in States, SaveLogin(s)
      PROVE  DiskFollowsMemory'
    BY <1>2, SaveKeepsFile DEF SaveLogin, Shape
<1>3. CASE Tick \/ \E a \in Accounts, suspended \in BOOLEAN : SetSuspended(a, suspended)
    BY <1>3, QuietKeepsFile DEF Tick, SetSuspended, storeVars, saveVars, outsideCallback
<1>4. CASE Crash
    BY <1>4 DEF Crash, DiskFollowsMemory
<1>5. CASE Restart
    BY <1>5 DEF Restart, saveVars, DiskFollowsMemory
<1> QED
    BY <1>1, <1>2, <1>3, <1>4, <1>5

LEMMA CallbackKeepsFile ==
    ASSUME Shape, DiskFollowsMemory, NEW c \in Callbacks,
           \/ \E s \in States : ReceiveCallback(c, s)
           \/ EnterCallback(c)
           \/ ServeCallback(c)
    PROVE  DiskFollowsMemory'
<1>t. callback \in [Callbacks -> CallbackState]
    BY DEF Shape, TypeOK
<1>q. ASSUME UNCHANGED <<disk, saveFailed, running, starting, renewer>>,
             \A s \in States : store'[s] \in {NoEntry, store[s]} \/ BeingSaved(s)',
             callback[c].pc # "save",
             \A d \in Callbacks : d # c => callback'[d] = callback[d]
      PROVE  DiskFollowsMemory'
    BY <1>q, QuietKeepsFile
<1>1. CASE \/ \E s \in States : ReceiveCallback(c, s)
           \/ EnterCallback(c)
           \/ ExchangeFails(c)
           \/ \E a \in Accounts : ExchangeAndLinkUser(c, a) \/ LinkUserSaveFails(c, a)
    <2>1. /\ callback[c].pc # "save"
          /\ UNCHANGED <<store, disk, saveFailed, running, starting, renewer>>
        BY <1>1 DEF ReceiveCallback, EnterCallback, RejectUnknownState, AnswerFromStore,
           BeginExchange, CanEnter, ExchangeFails, ExchangeAndLinkUser,
           LinkUserSaveFails, storeVars, saveVars, outsideCallback
    <2>2. \A d \in Callbacks : d # c => callback'[d] = callback[d]
        BY <1>1, <1>t DEF ReceiveCallback, EnterCallback, RejectUnknownState,
           AnswerFromStore, BeginExchange, ExchangeFails, ExchangeAndLinkUser,
           LinkUserSaveFails, Return
    <2> QED
        BY <1>q, <2>1, <2>2
<1>2. CASE StoreTokens(c)
    <2>1. /\ callback'[c].pc = "save"
          /\ callback'[c].key = callback[c].key
          /\ \A d \in Callbacks : d # c => callback'[d] = callback[d]
        BY <1>2, <1>t DEF StoreTokens, CallbackState
    <2>2. \A s \in States : store'[s] = store[s] \/ s = callback[c].key
        BY <1>2 DEF StoreTokens, Shape, TypeOK
    <2>3. \A s \in States : store'[s] \in {NoEntry, store[s]} \/ BeingSaved(s)'
        BY <2>1, <2>2 DEF BeingSaved
    <2> QED
        BY <1>2, <1>q, <2>1, <2>3 DEF StoreTokens, saveVars, outsideCallback
<1>3. CASE SaveTokens(c) \/ SaveTokensFails(c)
    BY <1>3, SaveKeepsFile DEF SaveTokens, SaveTokensFails, TrySave, Shape
<1>4. ASSUME NEW saved \in BOOLEAN, CleanupAndAnswer(c, saved)
      PROVE  DiskFollowsMemory'
    <2>1. \A s \in States : store'[s] \in {NoEntry, store[s]}
        BY <1>4, CleanupOnlyDeletes DEF CleanupAndAnswer
    <2>2. \A d \in Callbacks : d # c => callback'[d] = callback[d]
        BY <1>4, <1>t DEF CleanupAndAnswer, Return
    <2> QED
        BY <1>4, <1>q, <2>1, <2>2 DEF CleanupAndAnswer, saveVars, outsideCallback
<1> QED
    BY <1>1, <1>2, <1>3, <1>4 DEF ServeCallback

LEMMA RenewalKeepsFile ==
    ASSUME Shape, DiskFollowsMemory,
           \/ WorkerWakesUp
           \/ RunWorkerCleanup
           \/ \E r \in Renewers : StartRenewAll(r) \/ RunRenewer(r)
    PROVE  DiskFollowsMemory'
<1>t. renewer \in [Renewers -> RenewerState] /\ Worker \in Renewers
    BY DEF Shape, TypeOK, Renewers
<1>q. ASSUME NEW r \in Renewers,
             UNCHANGED <<disk, saveFailed, running, starting, callback>>,
             \A s \in States : store'[s] \in {NoEntry, store[s]} \/ BeingSaved(s)',
             renewer[r].pc # "save",
             \A q \in Renewers : q # r => renewer'[q] = renewer[q]
      PROVE  DiskFollowsMemory'
    BY <1>q, QuietKeepsFile
<1>1. ASSUME NEW r \in Renewers,
             \/ r = Worker /\ WorkerWakesUp
             \/ StartRenewAll(r)
             \/ \E s \in States : Skip(r, s) \/ BeginRenewal(r, s)
             \/ EndPass(r)
             \/ \E hit \in renewer[r].disabledUsers : DisableUser(r, hit)
             \/ DisableUserFails(r)
      PROVE  DiskFollowsMemory'
    <2>1. renewer[r].pc # "save"
        BY <1>1 DEF WorkerWakesUp, StartRenewAll, Skip, BeginRenewal, EndPass,
                    DisableUser, DisableUserFails
    <2>2. UNCHANGED <<store, disk, saveFailed, running, starting, callback>>
        BY <1>1 DEF WorkerWakesUp, StartRenewAll, Skip, BeginRenewal, EndPass,
                    DisableUser, DisableUserFails, storeVars, saveVars, outsideRenewal
    <2>3. \A q \in Renewers : q # r => renewer'[q] = renewer[q]
        BY <1>1, <1>t DEF WorkerWakesUp, StartRenewAll, Skip, BeginRenewal, EndPass,
                          DisableUser, DisableUserFails
    <2> QED
        BY <1>q, <2>1, <2>2, <2>3
<1>2. ASSUME NEW s \in States, WorkerCleanup(s)
      PROVE  DiskFollowsMemory'
    <2>1. \A t \in States : store'[t] \in {NoEntry, store[t]}
        BY <1>2, CleanupOnlyDeletes DEF WorkerCleanup
    <2>2. \A q \in Renewers : q # Worker => renewer'[q] = renewer[q]
        BY <1>2, <1>t DEF WorkerCleanup
    <2>3. /\ renewer[Worker].pc # "save"
          /\ UNCHANGED <<disk, saveFailed, running, starting, callback>>
        BY <1>2 DEF WorkerCleanup, saveVars, outsideRenewal
    <2> QED
        BY <1>q, <1>t, <2>1, <2>2, <2>3
<1>3. CASE WorkerSavesCleanup
    <2>1. CASE renewer[Worker].deleted
        BY <1>3, <2>1, SaveKeepsFile DEF WorkerSavesCleanup, Shape
    <2>2. CASE ~renewer[Worker].deleted
        <3>1. \A q \in Renewers : q # Worker => renewer'[q] = renewer[q]
            BY <1>3, <1>t DEF WorkerSavesCleanup
        <3>2. /\ renewer[Worker].pc # "save"
              /\ UNCHANGED <<store, disk, saveFailed, running, starting, callback>>
            BY <1>3, <2>2 DEF WorkerSavesCleanup, saveVars, outsideRenewal
        <3> QED
            BY <1>q, <1>t, <3>1, <3>2
    <2> QED
        BY <2>1, <2>2
<1>4. ASSUME NEW r \in Renewers, NEW data, renewer[r].pc = "request",
             store' = [store EXCEPT ![renewer[r].key] = data],
             renewer' = [renewer EXCEPT ![r] = [@ EXCEPT !.pc = "save", !.entry = data]],
             UNCHANGED <<saveVars, outsideRenewal>>
      PROVE  DiskFollowsMemory'
    <2>1. /\ renewer'[r].pc = "save"
          /\ renewer'[r].key = renewer[r].key
          /\ \A q \in Renewers : q # r => renewer'[q] = renewer[q]
        BY <1>4, <1>t DEF RenewerState
    <2>2. \A s \in States : store'[s] = store[s] \/ s = renewer[r].key
        BY <1>4 DEF Shape, TypeOK
    <2>3. \A s \in States : store'[s] \in {NoEntry, store[s]} \/ BeingSaved(s)'
        BY <2>1, <2>2 DEF BeingSaved
    <2>4. /\ renewer[r].pc # "save"
          /\ UNCHANGED <<disk, saveFailed, running, starting, callback>>
        BY <1>4 DEF saveVars, outsideRenewal
    <2> QED
        BY <1>q, <2>1, <2>3, <2>4
<1>5. ASSUME NEW r \in Renewers, RenewalRequestFails(r) \/ RenewalRequestSucceeds(r)
      PROVE  DiskFollowsMemory'
    BY <1>4, <1>5 DEF RenewalRequestFails, RenewalRequestSucceeds
<1>6. ASSUME NEW r \in Renewers, SaveRenewal(r)
      PROVE  DiskFollowsMemory'
    BY <1>6, SaveKeepsFile DEF SaveRenewal, Shape
<1> QED
    BY <1>t, <1>1, <1>2, <1>3, <1>5, <1>6 DEF RunWorkerCleanup, RunRenewer

\* What the map holds is on disk once every request has come to its save: no
\* interleaving of logins, renewals and cleanups leaves an entry behind.
THEOREM FileFollowsMap == Spec => []DiskFollowsMemory
<1>1. Init => Shape /\ DiskFollowsMemory
    BY InitShape DEF Init, DiskFollowsMemory, EmptyStore
<1>2. Shape /\ DiskFollowsMemory /\ [Next]_vars => (Shape /\ DiskFollowsMemory)'
    <2> SUFFICES ASSUME Shape, DiskFollowsMemory, [Next]_vars
                 PROVE  (Shape /\ DiskFollowsMemory)'
        OBVIOUS
    <2>1. Shape'
        BY NextShape
    <2>2. CASE UNCHANGED vars
        BY <2>1, <2>2 DEF vars, DiskFollowsMemory, BeingSaved
    <2>3. CASE Next
        BY <2>1, <2>3, LoginKeepsFile, CallbackKeepsFile, RenewalKeepsFile DEF Next
    <2> QED
        BY <2>2, <2>3
<1> QED
    BY <1>1, <1>2, PTL DEF Spec

-----------------------------------------------------------------------------
(* The sessions: what a step does to the entries that have a token.        *)

\* The sessions that a map may hold.
SessionType == [account : Accounts \cup {NoAccount}, createdAt : Nat]

\* What identifies a session is of this type, and is not what a renewal changes.
LEMMA SessionOfEntry ==
    ASSUME NEW data \in Entry
    PROVE  /\ Session(data) \in SessionType
           /\ Session(data).account = data.account
           /\ Session(data).createdAt = data.createdAt
           /\ Session(AfterFailure(data)) = Session(data)
           /\ Session([data EXCEPT !.token = @ + 1]) = Session(data)
<1>1. Session(data) \in SessionType
  BY DEF Session, SessionType, Entry
<1>2. Session(AfterFailure(data)) = Session(data)
  BY DEF Session, AfterFailure, Entry
<1>3. Session([data EXCEPT !.token = @ + 1]) = Session(data)
  BY DEF Session, Entry
<1> QED BY <1>1, <1>2, <1>3 DEF Session

\* An entry after a refresh has the account that it had.
LEMMA RefreshKeepsAccount ==
    ASSUME NEW data \in Entry, HasAccount(data), data.token > 0
    PROVE  /\ HasAccount(AfterFailure(data))
           /\ HasAccount([data EXCEPT !.token = @ + 1])
<1> DEFINE renewed == [data EXCEPT !.token = @ + 1]
<1>1. AfterFailure(data).token = data.token /\ AfterFailure(data).account = data.account
  BY DEF AfterFailure, Entry
<1>2. data.token \in Nat /\ renewed.token = data.token + 1 /\ renewed.account = data.account
  BY DEF Entry
<1> HIDE DEF renewed
<1>3. HasAccount(AfterFailure(data))
  BY <1>1 DEF HasAccount
<1>4. HasAccount(renewed)
  BY <1>2 DEF HasAccount
<1> QED BY <1>3, <1>4 DEF renewed

\* An entry of the map is an entry, with the type of its fields.
LEMMA EntryOfMap ==
    ASSUME TypeOK, NEW s \in States, store[s] # NoEntry
    PROVE  /\ store[s] \in Entry /\ store[s].token \in Nat /\ store[s].createdAt \in Nat
           /\ Session(store[s]) \in SessionType
<1>1. store[s] \in Entry
  BY DEF TypeOK, MaybeEntry
<1> QED BY <1>1, SessionOfEntry DEF Entry

\* A map holds its own sessions.
LEMMA HoldsOwn ==
    ASSUME NEW map, NEW s \in States, map[s] # NoEntry, map[s].token > 0,
           map[s].createdAt \in Nat
    PROVE  Holds(map, Session(map[s]))
<1>1. map[s].createdAt >= map[s].createdAt
  OBVIOUS
<1> QED BY <1>1 DEF Holds, Session

\* A step deletes a session only in favour of a newer one, which stays as it is.
DeletesOlder ==
    \A s \in States : HasToken(s) /\ store'[s] = NoEntry =>
        \E t \in States :
            /\ HasToken(t) /\ store'[t] # NoEntry
            /\ store[t].account = store[s].account
            /\ store[t].createdAt > store[s].createdAt

\* An entry with a token that is not deleted stays the session that it is.
KeepsSessions ==
    \A s \in States : HasToken(s) /\ store'[s] # NoEntry =>
        store'[s].token > 0 /\ Session(store'[s]) = Session(store[s])

\* Then every session that the map holds, it holds afterwards, or a newer one.
LEMMA SessionsStay ==
    ASSUME TypeOK, TypeOK', DeletesOlder, KeepsSessions,
           NEW session \in SessionType, Holds(store, session)
    PROVE  Holds(store', session)
<1>1. PICK s \in States :
        /\ store[s] # NoEntry /\ store[s].token > 0
        /\ store[s].account = session.account
        /\ store[s].createdAt >= session.createdAt
  BY DEF Holds
<1>2. session.createdAt \in Nat /\ store[s].createdAt \in Nat
  BY <1>1, EntryOfMap DEF SessionType
<1>3. PICK t \in States :
        /\ HasToken(t) /\ store'[t] # NoEntry
        /\ store[t].account = session.account
        /\ store[t].createdAt >= session.createdAt
  <2>1. CASE store'[s] # NoEntry
    BY <1>1, <2>1 DEF HasToken
  <2>2. CASE store'[s] = NoEntry
    <3>1. PICK t \in States :
            /\ HasToken(t) /\ store'[t] # NoEntry
            /\ store[t].account = store[s].account
            /\ store[t].createdAt > store[s].createdAt
      BY <1>1, <2>2 DEF DeletesOlder, HasToken
    <3>2. store[t].createdAt \in Nat
      BY <3>1, EntryOfMap DEF HasToken
    <3> QED BY <1>1, <1>2, <3>1, <3>2
  <2> QED BY <2>1, <2>2
<1>4. store'[t].token > 0 /\ Session(store'[t]) = Session(store[t])
  BY <1>3 DEF KeepsSessions
<1>5. store'[t].account = store[t].account /\ store'[t].createdAt = store[t].createdAt
  BY <1>4 DEF Session
<1> QED BY <1>3, <1>4, <1>5 DEF Holds

\* A cleanup for a session that the map holds, or for an entry without an account, deletes
\* older sessions only.
LEMMA CleanupDeletesOlder ==
    ASSUME TypeOK, CopiesAgree, NEW k, NEW data \in Entry,
           data.account \in Accounts => Holds(store, Session(data)),
           store' = CleanupOAuth2Data(k, data)
    PROVE  DeletesOlder
<1> SUFFICES ASSUME NEW s \in States, HasToken(s), store'[s] = NoEntry
             PROVE  \E t \in States :
                      /\ HasToken(t) /\ store'[t] # NoEntry
                      /\ store[t].account = store[s].account
                      /\ store[t].createdAt > store[s].createdAt
  BY DEF DeletesOlder
<1>1. store[s] # NoEntry /\ store[s].token \in Nat /\ store[s].createdAt \in Nat
  BY EntryOfMap DEF HasToken
<1>2. data.createdAt > store[s].createdAt /\ store[s].account = data.account
  BY <1>1 DEF CleanupOAuth2Data, SupersededBy, PendingCleaned, HasToken
<1>3. store[s].account \in Accounts
  BY <1>1 DEF CopiesAgree, HasAccount, HasToken
<1>4. PICK t \in States :
        /\ store[t] # NoEntry /\ store[t].token > 0
        /\ store[t].account = data.account
        /\ store[t].createdAt >= data.createdAt
  BY <1>2, <1>3, SessionOfEntry DEF Holds
<1>5. store[t].token \in Nat /\ store[t].createdAt \in Nat /\ data.createdAt \in Nat
  BY <1>4, EntryOfMap DEF Entry
<1>6. ~SupersededBy(t, k, data) /\ ~PendingCleaned(t)
  BY <1>4, <1>5 DEF SupersededBy, PendingCleaned
<1>7. store'[t] = store[t]
  BY <1>6 DEF CleanupOAuth2Data
<1> QED BY <1>1, <1>2, <1>4, <1>5, <1>7 DEF HasToken

\* What is answered was in the map, or is what a callback has stored and saved.
AnswerMoves ==
    \A session \in answered' :
        \/ session \in answered
        \/ \E c \in Callbacks :
              callback[c].pc = "cleanup" /\ session = Session(callback[c].entry)
        \/ /\ ~saveFailed /\ \A c \in Callbacks : callback[c].pc # "save"
           /\ \E s \in States : HasToken(s) /\ session = Session(store[s])

\* The file stays, or becomes the map, or a write fails.
FileMoves ==
    \/ UNCHANGED <<disk, saveFailed>>
    \/ disk' = store /\ store' = store /\ ~saveFailed'
    \/ /\ disk' \in {disk, Torn} /\ saveFailed'
       /\ UNCHANGED <<store, answered>>

\* A callback redeems its code, stores the session, saves it.
CallbackMoves(c) ==
    /\ callback'[c].pc = "store" =>
         \/ callback'[c] = callback[c]
         \/ callback'[c].entry.token > 0 /\ callback'[c].entry.account \in Accounts
    /\ callback'[c].pc = "save" =>
         \/ callback'[c] = callback[c]
         \/ /\ callback[c].pc = "store" /\ callback'[c].entry = callback[c].entry
            /\ callback[c].key \in States /\ store'[callback[c].key] = callback[c].entry
            /\ callback[c].entry \in Entry
    /\ callback'[c].pc = "cleanup" =>
         \/ callback'[c] = callback[c]
         \/ /\ callback[c].pc = "save" /\ callback'[c].entry = callback[c].entry
            /\ disk' = store
    /\ callback[c].pc = "save" =>
         callback'[c] = callback[c] \/ (disk' = store /\ store' = store) \/ saveFailed'

\* A renewal copies an entry with a token.
RenewerMoves(r) ==
    renewer'[r].pc = "request" =>
        \/ renewer'[r] = renewer[r]
        \/ /\ renewer'[r].key \in States /\ HasToken(renewer'[r].key)
           /\ renewer'[r].entry = store[renewer'[r].key]
           /\ UNCHANGED <<store, disk, saveFailed, callback>>

\* An entry stays, or is deleted, created, stored by a callback or renewed.
StoreMoves(s) ==
    \/ store'[s] \in {NoEntry, store[s]}
    \/ s \notin used /\ store'[s].token = 0 /\ store'[s].account = NoAccount
    \/ \E c \in Callbacks :
          /\ callback[c].pc = "store" /\ callback[c].key = s /\ store'[s] = callback[c].entry
          /\ callback'[c].pc = "save" /\ callback'[c].key = s
    \/ \E r \in Renewers :
          /\ renewer[r].pc = "request" /\ renewer[r].key = s
          /\ Session(store'[s]) = Session(renewer[r].entry)
          /\ store'[s].token > 0 /\ HasAccount(store'[s])

Moves ==
    /\ AnswerMoves /\ FileMoves
    /\ \A c \in Callbacks : CallbackMoves(c)
    /\ \A r \in Renewers : RenewerMoves(r)
    /\ \A s \in States : StoreMoves(s)
    /\ DeletesOlder

\* A step that writes nothing to the map deletes nothing.
LEMMA NothingIsDeleted ==
    ASSUME \A s \in States : store[s] # NoEntry => store'[s] # NoEntry
    PROVE  DeletesOlder
BY DEF DeletesOlder, HasToken

\* A save leaves the file whole, as it was or torn.
LEMMA SaveMoves ==
    ASSUME TrySave, UNCHANGED <<store, answered>>
    PROVE  FileMoves
BY DEF TrySave, SaveOIDCStore, SaveOIDCStoreFails, FileMoves

\* Requests that stay as they are make no move.
LEMMA QuietMoves ==
    ASSUME FileMoves, answered' = answered
    PROVE  /\ AnswerMoves
           /\ \A c \in Callbacks : callback'[c] = callback[c] => CallbackMoves(c)
           /\ \A r \in Renewers : renewer'[r] = renewer[r] => RenewerMoves(r)
           /\ \A s \in States : store'[s] = store[s] => StoreMoves(s)
BY DEF AnswerMoves, CallbackMoves, RenewerMoves, StoreMoves

\* Logins and administrators.
LEMMA LoginMoves ==
    ASSUME Shape, NoLoginWhenDown,
           \/ \E s \in States : StartLogin(s) \/ SaveLogin(s)
           \/ \E a \in Accounts, suspended \in BOOLEAN : SetSuspended(a, suspended)
    PROVE  running /\ running' /\ Moves
<1>1. ASSUME NEW s \in States, StartLogin(s)
      PROVE  running /\ running' /\ Moves
  <2>1. /\ running /\ running' /\ s \notin used
        /\ UNCHANGED <<disk, saveFailed, answered, callback, renewer>>
    BY <1>1 DEF StartLogin, saveVars
  <2>2. \A t \in States : t # s => store'[t] = store[t]
    BY <1>1 DEF StartLogin, Shape, TypeOK
  <2>3. /\ store'[s].token = 0 /\ store'[s].account = NoAccount
        /\ store'[s] # NoEntry
    <3>1. store'[s] = PendingEntry(now + 1)
      BY <1>1 DEF StartLogin, Shape, TypeOK
    <3>2. now + 1 \in Nat
      BY DEF Shape, TypeOK
    <3>3. PendingEntry(now + 1) # NoEntry
      BY <3>2, PendingEntryType, DistinctSentinels
    <3> QED BY <3>1, <3>3 DEF PendingEntry
  <2>4. FileMoves
    BY <2>1 DEF FileMoves
  <2>5. \A t \in States : StoreMoves(t)
    BY <2>1, <2>2, <2>3 DEF StoreMoves
  <2>6. DeletesOlder
    BY <2>2, <2>3, NothingIsDeleted
  <2> QED BY <2>1, <2>4, <2>5, <2>6, QuietMoves DEF Moves
<1>2. ASSUME NEW s \in States, SaveLogin(s)
      PROVE  running /\ running' /\ Moves
  <2>1. running
    BY <1>2 DEF SaveLogin, NoLoginWhenDown
  <2>2. UNCHANGED <<store, answered, callback, renewer, running>> /\ FileMoves
    BY <1>2, SaveMoves DEF SaveLogin
  <2> QED BY <2>1, <2>2, QuietMoves, NothingIsDeleted DEF Moves
<1>3. ASSUME NEW a \in Accounts, NEW suspended \in BOOLEAN, SetSuspended(a, suspended)
      PROVE  running /\ running' /\ Moves
  <2>1. UNCHANGED <<store, disk, saveFailed, answered, callback, renewer, running>> /\ running
    BY <1>3 DEF SetSuspended, storeVars, saveVars, outsideCallback
  <2>2. FileMoves
    BY <2>1 DEF FileMoves
  <2> QED BY <2>1, <2>2, QuietMoves, NothingIsDeleted DEF Moves
<1> QED BY <1>1, <1>2, <1>3

\* Callbacks.
LEMMA CallbackStepMoves ==
    ASSUME Shape, Exclusion, CopiesAgree, SessionsLive, NEW c \in Callbacks,
           \/ \E s \in States : ReceiveCallback(c, s)
           \/ EnterCallback(c)
           \/ ServeCallback(c)
    PROVE  running /\ running' /\ Moves
<1>t. callback \in [Callbacks -> CallbackState]
  BY DEF Shape, TypeOK
<1>u. UNCHANGED outsideCallback
  BY DEF ReceiveCallback, EnterCallback, ServeCallback, RejectUnknownState, AnswerFromStore,
         BeginExchange, ExchangeFails, ExchangeAndLinkUser, LinkUserSaveFails, StoreTokens,
         SaveTokens, SaveTokensFails, CleanupAndAnswer
<1>r. running /\ running' /\ renewer' = renewer
  <2>1. callback[c].pc # "idle" => running
    BY DEF Exclusion, LockIsHeld
  <2>2. running
    BY <2>1 DEF ReceiveCallback, EnterCallback, ServeCallback, RejectUnknownState,
         AnswerFromStore, CanEnter,
         BeginExchange, ExchangeFails, ExchangeAndLinkUser, LinkUserSaveFails, StoreTokens,
         SaveTokens, SaveTokensFails, CleanupAndAnswer
  <2> QED BY <1>u, <2>2 DEF outsideCallback
<1>k. callback[c].pc # "idle" => callback[c].key \in States
  BY DEF Shape, RequestsAreWellFormed
<1>q. ASSUME FileMoves, answered' = answered, store' = store, CallbackMoves(c),
             \A d \in Callbacks : d # c => callback'[d] = callback[d]
      PROVE  Moves
  BY <1>q, <1>r, QuietMoves, NothingIsDeleted DEF Moves
<1>1. CASE \/ \E s \in States : ReceiveCallback(c, s)
           \/ RejectUnknownState(c) \/ BeginExchange(c)
           \/ ExchangeFails(c) \/ \E a \in Accounts : LinkUserSaveFails(c, a)
  <2>1. /\ UNCHANGED <<disk, saveFailed, answered, store>> /\ callback[c].pc # "save"
        /\ \A d \in Callbacks : d # c => callback'[d] = callback[d]
        /\ callback'[c].pc \in {"idle", "waiting", "exchange"}
    <3>1. CASE \E s \in States : ReceiveCallback(c, s)
      BY <3>1, <1>t DEF ReceiveCallback, storeVars, saveVars, IdleCallback
    <3>2. CASE RejectUnknownState(c)
      BY <3>2, <1>t DEF RejectUnknownState, CanEnter, storeVars, saveVars, IdleCallback
    <3>3. CASE BeginExchange(c)
      BY <3>3, <1>t DEF BeginExchange, CanEnter, storeVars, saveVars, CallbackState
    <3>4. CASE ExchangeFails(c) \/ \E a \in Accounts : LinkUserSaveFails(c, a)
      BY <3>4, <1>t DEF ExchangeFails, LinkUserSaveFails, Return, storeVars, saveVars,
                        IdleCallback
    <3> QED BY <1>1, <3>1, <3>2, <3>3, <3>4
  <2>2. FileMoves /\ CallbackMoves(c)
    BY <2>1 DEF FileMoves, CallbackMoves
  <2> QED BY <1>q, <1>r, <2>1, <2>2
<1>2. ASSUME NEW licensed \in BOOLEAN, AnswerFromStore(c, licensed)
      PROVE  Moves
  <2>1. /\ UNCHANGED <<disk, saveFailed, store>>
        /\ \A d \in Callbacks : d # c => callback'[d] = callback[d]
        /\ callback'[c].pc = "idle" /\ callback[c].pc = "waiting" /\ lock = NoHolder
        /\ HasToken(callback[c].key)
        /\ \/ ~saveFailed /\ answered' = answered \cup {Session(store[callback[c].key])}
           \/ answered' = answered
    BY <1>2, <1>t DEF AnswerFromStore, CanEnter, storeVars, saveVars, IdleCallback
  <2>2. \A d \in Callbacks : callback[d].pc # "save"
    BY <2>1, DistinctSentinels DEF Exclusion, LockIsHeld, Serving
  <2>3. AnswerMoves
    BY <1>k, <2>1, <2>2 DEF AnswerMoves
  <2>4. FileMoves /\ CallbackMoves(c)
    BY <2>1 DEF FileMoves, CallbackMoves
  <2>5. \A d \in Callbacks : CallbackMoves(d)
    BY <2>1, <2>4 DEF CallbackMoves
  <2>6. /\ \A r \in Renewers : RenewerMoves(r)
        /\ \A s \in States : StoreMoves(s)
    BY <1>r, <2>1 DEF RenewerMoves, StoreMoves
  <2> QED BY <2>1, <2>3, <2>4, <2>5, <2>6, NothingIsDeleted DEF Moves
<1>3. ASSUME NEW a \in Accounts, ExchangeAndLinkUser(c, a)
      PROVE  Moves
  <2>1. /\ UNCHANGED <<disk, saveFailed, answered, store>> /\ callback[c].pc = "exchange"
        /\ \A d \in Callbacks : d # c => callback'[d] = callback[d]
        /\ callback'[c].pc = "store" /\ callback'[c].entry = Redeemed(callback[c].entry, a)
    BY <1>3, <1>t DEF ExchangeAndLinkUser, storeVars, saveVars, CallbackState
  <2>2. callback[c].entry \in Entry
    BY <2>1 DEF Shape, RequestsAreWellFormed
  <2>3. callback'[c].entry.token > 0 /\ callback'[c].entry.account \in Accounts
    BY <2>1, <2>2 DEF Redeemed, Entry
  <2>4. FileMoves /\ CallbackMoves(c)
    BY <2>1, <2>3 DEF FileMoves, CallbackMoves
  <2> QED BY <1>q, <2>1, <2>4
<1>4. CASE StoreTokens(c)
  <2> DEFINE k == callback[c].key
             data == callback[c].entry
  <2>1. /\ UNCHANGED <<disk, saveFailed, answered>> /\ callback[c].pc = "store"
        /\ \A d \in Callbacks : d # c => callback'[d] = callback[d]
        /\ callback'[c].pc = "save" /\ callback'[c].entry = data /\ callback'[c].key = k
    BY <1>4, <1>t DEF StoreTokens, saveVars, CallbackState
  <2>2. k \in States /\ data \in Entry
    BY <2>1, <1>k DEF Shape, RequestsAreWellFormed
  <2>3. store'[k] = data /\ \A s \in States : s # k => store'[s] = store[s]
    BY <1>4, <2>2 DEF StoreTokens, Shape, TypeOK
  <2>4. data # NoEntry
    BY <2>2, DistinctSentinels
  <2>5. FileMoves /\ AnswerMoves
    BY <2>1 DEF FileMoves, AnswerMoves
  <2>6. CallbackMoves(c)
    BY <2>1, <2>2, <2>3 DEF CallbackMoves
  <2>7. \A s \in States : StoreMoves(s)
    BY <2>1, <2>3 DEF StoreMoves
  <2>8. DeletesOlder
    BY <2>3, <2>4, NothingIsDeleted
  <2> HIDE DEF k, data
  <2>9. \A d \in Callbacks : CallbackMoves(d)
    BY <2>1, <2>5, <2>6, QuietMoves
  <2> QED BY <1>r, <2>1, <2>5, <2>7, <2>8, <2>9, QuietMoves DEF Moves
<1>5. CASE SaveTokens(c) \/ SaveTokensFails(c)
  <2>1. /\ UNCHANGED <<answered, store>> /\ callback[c].pc = "save" /\ TrySave
        /\ \A d \in Callbacks : d # c => callback'[d] = callback[d]
    BY <1>5, <1>t DEF SaveTokens, SaveTokensFails, Return, TrySave
  <2>2. \/ /\ callback'[c].pc = "cleanup" /\ callback'[c].entry = callback[c].entry
           /\ disk' = store
        \/ callback'[c].pc = "idle" /\ saveFailed'
    BY <1>5, <1>t DEF SaveTokens, SaveTokensFails, Return, CallbackState, IdleCallback,
       SaveOIDCStore, SaveOIDCStoreFails
  <2>3. CallbackMoves(c)
    BY <2>1, <2>2 DEF CallbackMoves
  <2> QED BY <1>q, <1>r, <2>1, <2>3, SaveMoves
<1>6. ASSUME NEW saved \in BOOLEAN, CleanupAndAnswer(c, saved)
      PROVE  Moves
  <2> DEFINE k == callback[c].key
             data == callback[c].entry
  <2>1. /\ UNCHANGED <<disk, saveFailed>> /\ callback[c].pc = "cleanup"
        /\ \A d \in Callbacks : d # c => callback'[d] = callback[d]
        /\ callback'[c].pc = "idle"
        /\ answered' \in {answered, answered \cup {Session(data)}}
        /\ store' = CleanupOAuth2Data(k, data)
    BY <1>6, <1>t DEF CleanupAndAnswer, saveVars, Return, IdleCallback
  <2>2. data \in Entry
    BY <2>1 DEF Shape, RequestsAreWellFormed
  <2>3. Holds(store, Session(data))
    BY <1>r, <2>1 DEF SessionsLive
  <2>4. \A s \in States : store'[s] \in {NoEntry, store[s]}
    BY <2>1, CleanupOnlyDeletes
  <2>5. DeletesOlder
    BY <2>1, <2>2, <2>3, CleanupDeletesOlder DEF Shape
  <2>6. FileMoves /\ AnswerMoves
    BY <2>1 DEF FileMoves, AnswerMoves
  <2>7. \A d \in Callbacks : CallbackMoves(d)
    BY <2>1 DEF CallbackMoves
  <2>8. \A s \in States : StoreMoves(s)
    BY <2>4 DEF StoreMoves
  <2>9. \A r \in Renewers : RenewerMoves(r)
    BY <1>r DEF RenewerMoves
  <2> QED BY <2>5, <2>6, <2>7, <2>8, <2>9 DEF Moves
<1> QED BY <1>r, <1>1, <1>2, <1>3, <1>4, <1>5, <1>6 DEF EnterCallback, ServeCallback

\* Renewals and the cleanup of the worker.
LEMMA RenewalMoves ==
    ASSUME Shape, Exclusion, CopiesAgree,
           \/ WorkerWakesUp
           \/ RunWorkerCleanup
           \/ \E r \in Renewers : StartRenewAll(r) \/ RunRenewer(r)
    PROVE  running /\ running' /\ Moves
<1>t. renewer \in [Renewers -> RenewerState] /\ Worker \in Renewers
  BY DEF Shape, TypeOK, Renewers
<1>u. UNCHANGED outsideRenewal
  BY DEF WorkerWakesUp, RunWorkerCleanup, WorkerCleanup, WorkerSavesCleanup, StartRenewAll,
         RunRenewer, Skip, BeginRenewal, RenewalRequestFails, RenewalRequestSucceeds,
         SaveRenewal, EndPass, DisableUser, DisableUserFails
<1>r. running /\ running' /\ callback' = callback /\ answered' = answered
  <2>1. \A r \in Renewers : renewer[r].pc # "idle" => running
    BY DEF Exclusion, LockIsHeld
  <2>2. \A r \in Renewers : RunRenewer(r) => renewer[r].pc # "idle"
    BY <1>t DEF RunRenewer, Skip, BeginRenewal, RenewalRequestFails, RenewalRequestSucceeds,
         SaveRenewal, EndPass, DisableUser, DisableUserFails
  <2>3. running
    BY <1>t, <2>1, <2>2 DEF WorkerWakesUp, RunWorkerCleanup, WorkerCleanup,
         WorkerSavesCleanup, StartRenewAll
  <2> QED BY <1>u, <2>3 DEF outsideRenewal
<1>q. ASSUME NEW r \in Renewers, FileMoves, store' = store, RenewerMoves(r),
             \A q \in Renewers : q # r => renewer'[q] = renewer[q]
      PROVE  Moves
  BY <1>q, <1>r, QuietMoves, NothingIsDeleted DEF Moves
<1>1. ASSUME NEW r \in Renewers,
             \/ r = Worker /\ WorkerWakesUp
             \/ StartRenewAll(r)
             \/ \E s \in States : Skip(r, s)
             \/ EndPass(r)
             \/ \E hit \in renewer[r].disabledUsers : DisableUser(r, hit)
             \/ DisableUserFails(r)
      PROVE  Moves
  <2>1. UNCHANGED <<disk, saveFailed, store>>
    BY <1>1 DEF WorkerWakesUp, StartRenewAll, Skip, EndPass, DisableUser, DisableUserFails,
                storeVars, saveVars
  <2>2. \A q \in Renewers : q # r => renewer'[q] = renewer[q]
    BY <1>1, <1>t DEF WorkerWakesUp, StartRenewAll, Skip, EndPass, DisableUser,
                      DisableUserFails
  <2>3. renewer'[r].pc # "request"
    <3>1. CASE r = Worker /\ WorkerWakesUp
      BY <1>t, <3>1 DEF WorkerWakesUp, RenewerState
    <3>2. CASE StartRenewAll(r)
      BY <1>t, <3>2 DEF StartRenewAll, RenewerState
    <3>3. CASE \E s \in States : Skip(r, s)
      BY <1>t, <3>3 DEF Skip, RenewerState
    <3>4. CASE EndPass(r) \/ DisableUserFails(r)
      BY <1>t, <3>4 DEF EndPass, DisableUserFails, RenewerState, IdleRenewer
    <3>5. CASE \E hit \in renewer[r].disabledUsers : DisableUser(r, hit)
      BY <1>t, <3>5 DEF DisableUser, RenewerState, IdleRenewer
    <3> QED BY <1>1, <3>1, <3>2, <3>3, <3>4, <3>5
  <2>4. FileMoves /\ RenewerMoves(r)
    BY <2>1, <2>3 DEF FileMoves, RenewerMoves
  <2> QED BY <1>q, <2>1, <2>2, <2>4
<1>2. ASSUME NEW k \in States, WorkerCleanup(k)
      PROVE  Moves
  <2>1. /\ UNCHANGED <<disk, saveFailed>> /\ store[k] # NoEntry
        /\ \A q \in Renewers : q # Worker => renewer'[q] = renewer[q]
        /\ renewer'[Worker].pc # "request"
        /\ store' = CleanupOAuth2Data(k, store[k])
    BY <1>2, <1>t DEF WorkerCleanup, saveVars, RenewerState
  <2>2. store[k] \in Entry /\ store[k].createdAt \in Nat
    BY <2>1, EntryOfMap DEF Shape
  <2>3. store[k].account \in Accounts => Holds(store, Session(store[k]))
    BY <2>1, <2>2, HoldsOwn DEF CopiesAgree, HasAccount
  <2>4. \A s \in States : store'[s] \in {NoEntry, store[s]}
    BY <2>1, CleanupOnlyDeletes
  <2>5. DeletesOlder
    BY <2>1, <2>2, <2>3, CleanupDeletesOlder DEF Shape
  <2>6. FileMoves /\ AnswerMoves
    BY <1>r, <2>1 DEF FileMoves, AnswerMoves
  <2>7. \A c \in Callbacks : CallbackMoves(c)
    BY <1>r, <2>6, QuietMoves
  <2>8. \A s \in States : StoreMoves(s)
    BY <2>4 DEF StoreMoves
  <2>9. \A r \in Renewers : RenewerMoves(r)
    BY <2>1 DEF RenewerMoves
  <2> QED BY <2>5, <2>6, <2>7, <2>8, <2>9 DEF Moves
<1>3. CASE WorkerSavesCleanup
  <2>1. /\ store' = store /\ renewer'[Worker].pc # "request"
        /\ \A q \in Renewers : q # Worker => renewer'[q] = renewer[q]
        /\ TrySave \/ UNCHANGED saveVars
    BY <1>3, <1>t DEF WorkerSavesCleanup, RenewerState
  <2>2. FileMoves
    BY <1>r, <2>1, SaveMoves DEF saveVars, FileMoves
  <2>3. RenewerMoves(Worker)
    BY <2>1 DEF RenewerMoves
  <2> QED BY <1>q, <1>r, <1>t, <2>1, <2>2, <2>3
<1>4. ASSUME NEW r \in Renewers, NEW s \in States, BeginRenewal(r, s)
      PROVE  Moves
  <2>1. /\ UNCHANGED <<disk, saveFailed, store>> /\ HasToken(s)
        /\ renewer'[r].key = s /\ renewer'[r].entry = store[s]
        /\ \A q \in Renewers : q # r => renewer'[q] = renewer[q]
    BY <1>4, <1>t DEF BeginRenewal, storeVars, saveVars, RenewerState
  <2>2. FileMoves /\ RenewerMoves(r)
    BY <1>r, <2>1 DEF FileMoves, RenewerMoves
  <2> QED BY <1>q, <2>1, <2>2
<1>5. ASSUME NEW r \in Renewers, NEW data \in Entry, data.token > 0, HasAccount(data),
             Session(data) = Session(renewer[r].entry),
             renewer[r].pc = "request",
             store' = [store EXCEPT ![renewer[r].key] = data],
             renewer' = [renewer EXCEPT ![r] = [@ EXCEPT !.pc = "save", !.entry = data]],
             UNCHANGED saveVars
      PROVE  Moves
  <2> DEFINE k == renewer[r].key
  <2>1. /\ UNCHANGED <<disk, saveFailed>> /\ renewer'[r].pc = "save"
        /\ \A q \in Renewers : q # r => renewer'[q] = renewer[q]
    BY <1>5, <1>t DEF saveVars, RenewerState
  <2>2. k \in States
    BY <1>5 DEF Shape, RequestsAreWellFormed
  <2>3. store'[k] = data /\ \A s \in States : s # k => store'[s] = store[s]
    BY <1>5, <2>2 DEF Shape, TypeOK
  <2>4. data # NoEntry
    BY <1>5, DistinctSentinels
  <2>5. FileMoves /\ RenewerMoves(r)
    BY <2>1 DEF FileMoves, RenewerMoves
  <2>6. \A s \in States : StoreMoves(s)
    BY <1>5, <2>3 DEF StoreMoves
  <2>7. DeletesOlder
    BY <2>3, <2>4, NothingIsDeleted
  <2> HIDE DEF k
  <2>8. /\ AnswerMoves
        /\ \A q \in Renewers : RenewerMoves(q)
        /\ \A c \in Callbacks : CallbackMoves(c)
    BY <1>r, <2>1, <2>5, QuietMoves
  <2> QED BY <2>5, <2>6, <2>7, <2>8 DEF Moves
<1>6. ASSUME NEW r \in Renewers, RenewalRequestFails(r) \/ RenewalRequestSucceeds(r)
      PROVE  Moves
  <2> DEFINE data == renewer[r].entry
             renewed == [data EXCEPT !.token = @ + 1]
  <2>1. renewer[r].pc = "request"
    BY <1>6 DEF RenewalRequestFails, RenewalRequestSucceeds
  <2>2. data \in Entry /\ data.token \in Nat /\ data.token > 0 /\ HasAccount(data)
    BY <2>1 DEF Shape, RequestsAreWellFormed, Entry, CopiesAgree, Exclusion,
                RenewedEntryHasToken
  <2>3. CASE RenewalRequestFails(r)
    <3>1. /\ AfterFailure(data) \in Entry /\ AfterFailure(data).token > 0
          /\ HasAccount(AfterFailure(data))
          /\ Session(AfterFailure(data)) = Session(data)
      BY <2>2, AfterFailureType, RefreshKeepsAccount, SessionOfEntry
    <3> QED BY <1>5, <2>1, <2>3, <3>1 DEF RenewalRequestFails
  <2>4. CASE RenewalRequestSucceeds(r)
    <3>1. /\ renewed \in Entry /\ renewed.token = data.token + 1
          /\ HasAccount(renewed) /\ Session(renewed) = Session(data)
      BY <2>2, RenewedType, RefreshKeepsAccount, SessionOfEntry
    <3>2. renewed.token > 0
      BY <2>2, <3>1
    <3> QED BY <1>5, <2>1, <2>4, <3>1, <3>2 DEF RenewalRequestSucceeds
  <2> QED BY <1>6, <2>3, <2>4
<1>7. ASSUME NEW r \in Renewers, SaveRenewal(r)
      PROVE  Moves
  <2>1. /\ store' = store /\ TrySave /\ renewer'[r].pc # "request"
        /\ \A q \in Renewers : q # r => renewer'[q] = renewer[q]
    BY <1>7, <1>t DEF SaveRenewal, FinishRenewal, RenewerState
  <2>2. FileMoves /\ RenewerMoves(r)
    BY <1>r, <2>1, SaveMoves DEF RenewerMoves
  <2> QED BY <1>q, <2>1, <2>2
<1> QED BY <1>r, <1>t, <1>1, <1>2, <1>3, <1>4, <1>6, <1>7 DEF RunWorkerCleanup, RunRenewer

\* An entry with a token that is not deleted stays the session that it is: callbacks store
\* where there is none, renewals what they have copied.
LEMMA SessionsAreKept ==
    ASSUME Exclusion, CopiesAgree, \A s \in States : StoreMoves(s)
    PROVE  KeepsSessions
<1> SUFFICES ASSUME NEW s \in States, HasToken(s), store'[s] # NoEntry
             PROVE  store'[s].token > 0 /\ Session(store'[s]) = Session(store[s])
  BY DEF KeepsSessions
<1>1. s \in used
  BY DEF HasToken, Exclusion, KeysAreUsed
<1>2. \A c \in Callbacks : callback[c].pc = "store" => callback[c].key # s
  BY DEF Exclusion, CallbackEntryIsPending
<1>3. \A r \in Renewers : renewer[r].pc = "request" /\ renewer[r].key = s =>
          Session(store[s]) = Session(renewer[r].entry)
  BY DEF HasToken, CopiesAgree
<1> QED BY <1>1, <1>2, <1>3 DEF StoreMoves, HasToken

\* The copies of a session agree after every move.
LEMMA MovesAgree ==
    ASSUME Shape, Shape', Exclusion, CopiesAgree, Moves
    PROVE  CopiesAgree'
<1>k. /\ \A r \in Renewers : renewer[r].pc = "request" =>
              renewer[r].key \in States /\ renewer[r].entry \in Entry
  BY DEF Shape, RequestsAreWellFormed
<1>1. \A s \in States : store'[s] # NoEntry => HasAccount(store'[s])
  <2> SUFFICES ASSUME NEW s \in States, store'[s] # NoEntry PROVE HasAccount(store'[s])
    OBVIOUS
  <2>1. StoreMoves(s)
    BY DEF Moves
  <2>2. CASE store'[s] \in {NoEntry, store[s]}
    BY <2>2 DEF CopiesAgree
  <2>3. CASE store'[s].token = 0 /\ store'[s].account = NoAccount
    BY <2>3, DistinctSentinels DEF HasAccount
  <2>4. CASE \E c \in Callbacks :
               callback[c].pc = "store" /\ store'[s] = callback[c].entry
    BY <2>4 DEF CopiesAgree, HasAccount
  <2> QED BY <2>1, <2>2, <2>3, <2>4 DEF StoreMoves
<1>2. disk' # Torn => \A s \in States : disk'[s] # NoEntry => HasAccount(disk'[s])
  BY DEF Moves, FileMoves, CopiesAgree
<1>3. \A c \in Callbacks : callback'[c].pc \in {"store", "save", "cleanup"} =>
          callback'[c].entry.token > 0 /\ callback'[c].entry.account \in Accounts
  BY DEF Moves, CallbackMoves, CopiesAgree
<1>4. ASSUME NEW r \in Renewers, renewer'[r].pc = "request"
      PROVE  /\ HasAccount(renewer'[r].entry)
             /\ store'[renewer'[r].key] # NoEntry =>
                   Session(store'[renewer'[r].key]) = Session(renewer'[r].entry)
  <2>1. CASE renewer'[r] = renewer[r]
    <3> DEFINE k == renewer[r].key
    <3>1. HasAccount(renewer[r].entry) /\ k \in States /\ k \in used
      BY <1>4, <1>k, <2>1 DEF CopiesAgree, Exclusion, KeysAreUsed
    <3>2. store[k] # NoEntry => Session(store[k]) = Session(renewer[r].entry)
      BY <1>4, <2>1 DEF CopiesAgree
    <3>3. \A c \in Callbacks : callback[c].pc = "store" => callback[c].key # k
      BY <1>4, <2>1 DEF Exclusion, RenewedEntryHasToken
    <3>4. \A q \in Renewers : renewer[q].pc = "request" /\ renewer[q].key = k =>
              Session(renewer[q].entry) = Session(renewer[r].entry)
      BY <1>4, <2>1 DEF CopiesAgree
    <3>5. StoreMoves(k)
      BY <3>1 DEF Moves
    <3> HIDE DEF k
    <3>6. store'[k] # NoEntry => Session(store'[k]) = Session(renewer[r].entry)
      BY <3>1, <3>2, <3>3, <3>4, <3>5 DEF StoreMoves
    <3> QED BY <2>1, <3>1, <3>6 DEF k
  <2>2. CASE /\ renewer'[r].key \in States /\ HasToken(renewer'[r].key)
             /\ renewer'[r].entry = store[renewer'[r].key]
             /\ store' = store
    BY <2>2 DEF CopiesAgree, HasToken
  <2> QED BY <1>4, <2>1, <2>2 DEF Moves, RenewerMoves
<1>5. ASSUME NEW r \in Renewers, renewer'[r].pc = "request",
             NEW q \in Renewers, renewer'[q].pc = "request",
             renewer'[q].key = renewer'[r].key
      PROVE  Session(renewer'[q].entry) = Session(renewer'[r].entry)
  <2>1. CASE renewer'[q] = renewer[q] /\ renewer'[r] = renewer[r]
    BY <1>5, <2>1 DEF CopiesAgree
  <2>2. CASE HasToken(renewer'[r].key) /\ store' = store
    <3>1. store'[renewer'[r].key] # NoEntry
      BY <2>2 DEF HasToken
    <3> QED BY <1>4, <1>5, <3>1
  <2>3. CASE HasToken(renewer'[q].key) /\ store' = store
    <3>1. store'[renewer'[q].key] # NoEntry
      BY <2>3 DEF HasToken
    <3> QED BY <1>4, <1>5, <3>1
  <2> QED BY <1>5, <2>1, <2>2, <2>3 DEF Moves, RenewerMoves
<1> QED BY <1>1, <1>2, <1>3, <1>4, <1>5 DEF CopiesAgree

\* What requests hold are sessions.
LEMMA RequestSessions ==
    ASSUME Shape
    PROVE  /\ answered \subseteq SessionType
           /\ \A c \in Callbacks : callback[c].pc \notin {"idle", "waiting"} =>
                Session(callback[c].entry) \in SessionType
           /\ \A r \in Renewers : renewer[r].pc = "request" =>
                Session(renewer[r].entry) \in SessionType
BY SessionOfEntry DEF Shape, TypeOK, RequestsAreWellFormed, SessionType

\* What lives in the map lives after every move.
LEMMA MovesLive ==
    ASSUME Shape, Shape', Exclusion, CopiesAgree, SessionsLive, running, Moves
    PROVE  SessionsLive'
<1>1. \A session \in SessionType : Holds(store, session) => Holds(store', session)
  BY SessionsAreKept, SessionsStay DEF Moves, Shape
<1>2. ASSUME NEW s \in States, HasToken(s)
      PROVE  Session(store[s]) \in SessionType /\ Holds(store, Session(store[s]))
  BY <1>2, EntryOfMap, HoldsOwn DEF HasToken, Shape
<1>3. ASSUME NEW session \in answered'
      PROVE  Holds(store', session)
  <2>1. session \in SessionType /\ Holds(store, session)
    BY <1>2, <1>3, RequestSessions DEF Moves, AnswerMoves, SessionsLive
  <2> QED BY <1>1, <2>1
<1>4. ASSUME NEW c \in Callbacks, callback'[c].pc \in {"save", "cleanup"}
      PROVE  Holds(store', Session(callback'[c].entry))
  <2>1. CASE callback[c].pc \in {"save", "cleanup"} /\ callback'[c].entry = callback[c].entry
    BY <1>1, <2>1, RequestSessions DEF SessionsLive
  <2>2. CASE /\ callback[c].pc = "store" /\ callback'[c].entry = callback[c].entry
             /\ callback[c].key \in States /\ store'[callback[c].key] = callback[c].entry
             /\ callback[c].entry \in Entry
    <3> DEFINE k == callback[c].key
    <3>1. k \in States /\ store'[k] # NoEntry /\ store'[k].token > 0
      BY <2>2, DistinctSentinels DEF CopiesAgree
    <3>2. store'[k].createdAt \in Nat
      BY <2>2 DEF Entry
    <3>3. Holds(store', Session(store'[k]))
      BY <3>1, <3>2, HoldsOwn
    <3> QED BY <2>2, <3>3
  <2> QED BY <1>4, <2>1, <2>2 DEF Moves, CallbackMoves
<1>5. ASSUME NEW r \in Renewers, renewer'[r].pc = "request"
      PROVE  Holds(store', Session(renewer'[r].entry))
  <2>1. CASE renewer'[r] = renewer[r]
    BY <1>1, <1>5, <2>1, RequestSessions DEF SessionsLive
  <2>2. CASE /\ renewer'[r].key \in States /\ HasToken(renewer'[r].key)
             /\ renewer'[r].entry = store[renewer'[r].key]
    BY <1>1, <1>2, <2>2
  <2> QED BY <1>5, <2>1, <2>2 DEF Moves, RenewerMoves
<1> QED BY <1>3, <1>4, <1>5 DEF SessionsLive

\* What lives in the map is in the file after every move: when it is saved, when nothing is
\* written, and after a write that failed.
LEMMA MovesAreSaved ==
    ASSUME Shape, Shape', Exclusion, CopiesAgree, SessionsLive, SessionsLive', SessionsSaved,
           running, running', Moves
    PROVE  SessionsSaved'
<1>w. CASE disk' = store /\ store' = store
  <2>1. disk' = store'
    BY <1>w
  <2>2. \A s \in States : HasToken(s)' => Holds(disk', Session(store'[s]))
    BY <1>w, EntryOfMap, HoldsOwn DEF HasToken, Shape
  <2> QED BY <2>1, <2>2 DEF SessionsLive, SessionsSaved
<1>f. CASE /\ disk' \in {disk, Torn} /\ saveFailed' /\ UNCHANGED <<store, answered>>
           /\ disk' # store
  BY <1>f DEF SessionsSaved, Moves, CallbackMoves
<1>u. CASE UNCHANGED <<disk, saveFailed>> /\ ~(disk' = store /\ store' = store)
  <2> SUFFICES ASSUME disk # Torn PROVE SessionsSaved'
    BY <1>u DEF SessionsSaved
  <2>1. ASSUME NEW session \in answered'
        PROVE  Holds(disk, session)
    BY <2>1 DEF Moves, AnswerMoves, SessionsSaved, AwaitsSave
  <2>2. ASSUME NEW c \in Callbacks, callback'[c].pc = "cleanup"
        PROVE  Holds(disk, Session(callback'[c].entry))
    BY <1>u, <2>2 DEF Moves, CallbackMoves, SessionsSaved, SessionsLive
  <2>3. ASSUME ~saveFailed, NEW s \in States, ~AwaitsSave(s)'
        PROVE  ~AwaitsSave(s)
    BY <1>u, <2>3 DEF Moves, CallbackMoves, AwaitsSave
  <2>4. ASSUME ~saveFailed, NEW s \in States, HasToken(s)', ~AwaitsSave(s)'
        PROVE  Holds(disk, Session(store'[s]))
    <3>1. ~AwaitsSave(s)
      BY <2>3, <2>4
    <3>2. StoreMoves(s)
      BY DEF Moves
    <3>3. CASE store'[s] = store[s]
      BY <2>4, <3>1, <3>3 DEF SessionsSaved, HasToken
    <3>4. CASE \E r \in Renewers :
                 /\ renewer[r].pc = "request" /\ renewer[r].key = s
                 /\ Session(store'[s]) = Session(renewer[r].entry)
      BY <2>4, <3>1, <3>4 DEF SessionsSaved
    <3> QED BY <2>4, <3>2, <3>3, <3>4 DEF StoreMoves, HasToken, AwaitsSave
  <2>5. ASSUME ~saveFailed, NEW r \in Renewers, NEW k \in States,
               renewer'[r].pc = "request", renewer'[r].key = k, ~AwaitsSave(k)'
        PROVE  Holds(disk, Session(renewer'[r].entry))
    <3>1. ~AwaitsSave(k)
      BY <2>3, <2>5
    <3>2. CASE renewer'[r] = renewer[r]
      BY <2>5, <3>1, <3>2 DEF SessionsSaved
    <3>3. CASE HasToken(k) /\ renewer'[r].entry = store[k]
      BY <2>5, <3>1, <3>3 DEF SessionsSaved
    <3> QED BY <2>5, <3>2, <3>3 DEF Moves, RenewerMoves
  <2>6. ASSUME ~saveFailed, NEW r \in Renewers, renewer'[r].pc = "request",
               \A c \in Callbacks :
                  ~(callback'[c].pc = "save" /\ callback'[c].key = renewer'[r].key)
        PROVE  Holds(disk, Session(renewer'[r].entry))
    <3>1. renewer'[r].key \in States
      BY <2>6 DEF Shape, RequestsAreWellFormed
    <3> QED BY <2>5, <2>6, <3>1 DEF AwaitsSave
  <2> QED BY <1>u, <2>1, <2>2, <2>4, <2>6 DEF SessionsSaved, AwaitsSave
<1> QED BY <1>w, <1>f, <1>u DEF Moves, FileMoves

-----------------------------------------------------------------------------
(* What is known of the sessions is inductive.                             *)

SessionsInv ==
    Shape /\ Exclusion /\ NoLoginWhenDown /\ CopiesAgree /\ SessionsLive /\ SessionsSaved

\* No session is there at the start.
LEMMA InitSessions == Init => SessionsInv
<1> SUFFICES ASSUME Init PROVE SessionsInv
  OBVIOUS
<1>1. Shape /\ Exclusion
  BY InitShape, InitExclusion
<1>2. /\ \A s \in States : store[s] = NoEntry /\ disk[s] = NoEntry
      /\ \A c \in Callbacks : callback[c].pc = "idle"
      /\ \A r \in Renewers : renewer[r].pc = "idle"
      /\ answered = {} /\ starting = {}
  BY DEF Init, EmptyStore, IdleCallback, IdleRenewer
<1> QED BY <1>1, <1>2
        DEF SessionsInv, NoLoginWhenDown, CopiesAgree, SessionsLive, SessionsSaved, HasToken

\* Every step but those of the process is a move.
LEMMA NextMoves ==
    ASSUME SessionsInv, Next, ~Tick, ~Crash, ~Restart
    PROVE  running /\ running' /\ Moves
BY LoginMoves, CallbackStepMoves, RenewalMoves DEF Next, SessionsInv

\* Every step keeps what is known of the sessions.
LEMMA NextSessions ==
    ASSUME SessionsInv, [Next]_vars
    PROVE  SessionsInv'
<1>1. Shape' /\ Exclusion'
  BY NextShape, NextExclusion DEF SessionsInv
<1>2. CASE UNCHANGED vars \/ Tick
  <2>1. UNCHANGED <<store, disk, saveFailed, running, callback, renewer, answered, starting>>
    BY <1>2 DEF vars, Tick, storeVars, saveVars
  <2>2. CopiesAgree' /\ SessionsLive' /\ NoLoginWhenDown'
    BY <2>1 DEF SessionsInv, CopiesAgree, SessionsLive, NoLoginWhenDown
  <2>3. SessionsSaved'
    BY <2>1 DEF SessionsInv, SessionsSaved, HasToken, AwaitsSave
  <2> QED BY <1>1, <2>2, <2>3 DEF SessionsInv
<1>3. CASE Crash
  <2>1. /\ \A s \in States : store'[s] = NoEntry
        /\ \A c \in Callbacks : callback'[c].pc = "idle"
        /\ \A r \in Renewers : renewer'[r].pc = "idle"
        /\ answered' = answered /\ disk' = disk /\ starting' = {} /\ ~running'
    BY <1>3 DEF Crash, EmptyStore, IdleCallback, IdleRenewer
  <2>2. CopiesAgree' /\ SessionsLive' /\ NoLoginWhenDown'
    BY <2>1 DEF SessionsInv, CopiesAgree, SessionsLive, NoLoginWhenDown
  <2>3. SessionsSaved'
    BY <2>1 DEF SessionsInv, SessionsSaved
  <2> QED BY <1>1, <2>2, <2>3 DEF SessionsInv
<1>4. CASE Restart
  <2>1. /\ store' = disk /\ disk # Torn /\ running'
        /\ UNCHANGED <<disk, saveFailed, callback, renewer, answered, starting>>
        /\ \A c \in Callbacks : callback[c].pc = "idle"
        /\ \A r \in Renewers : renewer[r].pc = "idle"
    BY <1>4 DEF Restart, saveVars, SessionsInv, Exclusion, LockIsHeld
  <2>2. CopiesAgree' /\ NoLoginWhenDown'
    BY <2>1 DEF SessionsInv, CopiesAgree, NoLoginWhenDown
  <2>3. SessionsLive'
    BY <2>1 DEF SessionsInv, SessionsSaved, SessionsLive
  <2>4. \A s \in States : HasToken(s)' => Holds(disk', Session(store'[s]))
    <3> SUFFICES ASSUME NEW s \in States, HasToken(s)'
                 PROVE  Holds(store', Session(store'[s]))
      BY <2>1
    <3>1. store'[s] # NoEntry /\ store'[s].token > 0
      BY DEF HasToken
    <3>2. store'[s].createdAt \in Nat
      BY <1>1, <3>1 DEF Shape, TypeOK, MaybeEntry, Entry
    <3> QED BY <3>1, <3>2, HoldsOwn
  <2>5. SessionsSaved'
    BY <2>1, <2>3, <2>4 DEF SessionsLive, SessionsSaved
  <2> QED BY <1>1, <2>2, <2>3, <2>5 DEF SessionsInv
<1>5. CASE Next /\ ~Tick /\ ~Crash /\ ~Restart
  <2>1. running /\ running' /\ Moves
    BY <1>5, NextMoves
  <2>2. CopiesAgree'
    BY <1>1, <2>1, MovesAgree DEF SessionsInv
  <2>3. SessionsLive'
    BY <1>1, <2>1, MovesLive DEF SessionsInv
  <2>4. SessionsSaved'
    BY <1>1, <2>1, <2>3, MovesAreSaved DEF SessionsInv
  <2> QED BY <1>1, <2>1, <2>2, <2>3, <2>4 DEF SessionsInv, NoLoginWhenDown
<1> QED BY <1>2, <1>3, <1>4, <1>5

\* A session that a callback has answered survives crashes: as long as the file decodes, it
\* holds the session or a newer one of its account, for any number of logins, renewals,
\* cleanups and failed writes (rest/auth.go, auth/oidc/store).
THEOREM AnsweredLoginsAreDurable == Spec => []AnsweredLoginIsDurable
<1>1. SessionsInv => AnsweredLoginIsDurable
  BY DEF SessionsInv, SessionsSaved, Holds, AnsweredLoginIsDurable
<1> QED BY <1>1, InitSessions, NextSessions, PTL DEF Spec

\* No step removes a session with a token while the process runs, but in favour of a newer
\* session of the account that stays: an older login never ends the last one, although a
\* cleanup compares with what was stored before (auth/oidc/store/cleanup.go).
THEOREM NewestSessionsSurvive == Spec => NewestSessionSurvives
<1>1. SessionsInv /\ [Next]_vars =>
        [running /\ running' => DeletesOlder]_vars
  <2> SUFFICES ASSUME SessionsInv, Next, running, running' PROVE DeletesOlder
    BY DEF vars
  <2>1. CASE Tick
    BY <2>1, NothingIsDeleted DEF Tick, storeVars
  <2>2. CASE ~Tick
    BY <2>2, NextMoves DEF Moves, Crash, Restart
  <2> QED BY <2>1, <2>2
<1>2. [running /\ running' => DeletesOlder]_vars =>
        [running /\ running' =>
          \A s \in States :
              HasToken(s) /\ store'[s] = NoEntry =>
                  \E t \in States :
                      /\ HasToken(t)
                      /\ store[t].account = store[s].account
                      /\ store[t].createdAt > store[s].createdAt
                      /\ store'[t] # NoEntry]_vars
  BY DEF DeletesOlder
<1> QED BY <1>1, <1>2, InitSessions, NextSessions, PTL DEF Spec, NewestSessionSurvives
=============================================================================
