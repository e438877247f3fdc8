SPECIFICATION Spec
CONSTANTS
    Logins = {l1}
    Requests = {r1, r2, r3}
    FactorNames = {phone}
    Secrets = {s1}
    Undecodable = Undecodable
    Limit = 3
    Window = 1
    MaxTime = 2
    MaxFailures = 5
    MaxRestarts = 1
    NoLogin = NoLogin
    NoFactor = NoFactor
SYMMETRY SafetySymmetry
INVARIANTS
    TypeOK
    TriesAreBounded
PROPERTIES
    KeepsPromise
CHECK_DEADLOCK FALSE
