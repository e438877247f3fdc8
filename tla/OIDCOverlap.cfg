SPECIFICATION FairSpec
CONSTANTS
    States = {s1}
    Accounts = {a1}
    Callbacks = {c1, c2}
    Worker = w
    Admins = {adm}
    RENEWAL_RETRIES = 2
    PendingWindow = 1
    MaxTime = 1
    MaxTokens = 2
    MaxFaults = 0
    Suspendable = {}
    NoEntry = NoEntry
    NoAccount = NoAccount
    NoState = NoState
    NoHolder = NoHolder
    Torn = Torn
INVARIANTS
    CopyIsCurrent
    RetriesMatchFailure
    
PROPERTIES
    CallbackIsAnswered
