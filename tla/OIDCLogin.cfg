SPECIFICATION Spec
CONSTANTS
    States = {s1, s2}
    Accounts = {a1}
    Callbacks = {c1, c2}
    Worker = w
    Admins = {}
    RENEWAL_RETRIES = 1
    PendingWindow = 1
    MaxTime = 2
    MaxTokens = 1
    MaxFaults = 1
    Suspendable = {a1}
    NoEntry = NoEntry
    NoAccount = NoAccount
    NoState = NoState
    NoHolder = NoHolder
    Torn = Torn
SYMMETRY SafetySymmetry
INVARIANTS
    TypeOK
    DiskFollowsMemory
    AnsweredLoginIsDurable
PROPERTIES
    NewestSessionSurvives
CHECK_DEADLOCK FALSE
