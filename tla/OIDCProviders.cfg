SPECIFICATION Spec
CONSTANTS
    Providers = {p1, p2, p3, p4}
    Requests = {r1, r2}
    NoProvider = NoProvider
    MaxRoom = 1
    MaxFaults = 1
SYMMETRY SafetySymmetry
INVARIANTS
    TypeOK
    WalkSeesTheList
    WorkerFollowsTheList
CHECK_DEADLOCK FALSE
