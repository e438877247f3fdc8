SPECIFICATION Spec
CONSTANTS
    p1 = p1
    p2 = p2
    Requests = {r1, r2}
    Providers <- TwoProviders
    DiscoveryTTL = 2
    JwksTTL = 1
    Timeout = 1
    MaxTime = 4
    MaxChanges = 1
    Absent = Absent
SYMMETRY SafetySymmetry
INVARIANTS
    TypeOK
    
CHECK_DEADLOCK FALSE
