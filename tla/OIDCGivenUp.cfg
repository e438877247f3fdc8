SPECIFICATION Spec
CONSTANTS
    States = {s1}
    Accounts = {a1}
    Callbacks = {c1}
    Worker = w
    Admins = {}
    RENEWAL_RETRIES = 3
    PendingWindow = 1
    MaxTime = 2
    MaxTokens = 1
    MaxFaults = 0
    Suspendable = {a1}
    NoEntry = NoEntry
    NoAccount = NoAccount
    NoState = NoState
    NoHolder = NoHolder
    Torn = Torn
INVARIANTS
    GivenUpUserIsDisabled
