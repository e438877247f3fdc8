SPECIFICATION Spec
CONSTANTS
    Requests = {r1, r2}
    URLs = {u1, u2}
    Flags = {f1, f2}
    Accounts = {a1}
    MaxIDs = 2
    MaxChanges = 3
    MaxLogins = 1
    MaxFaults = 1
    Absent = Absent
    Nil = Nil
    NoHolder = NoHolder
SYMMETRY SafetySymmetry
INVARIANTS
    TypeOK
    NilIsBeingReloaded
    ProvidersAreKept
    TokensComeFromAssertions
    NoLoginIsStuck
CHECK_DEADLOCK FALSE
