SPECIFICATION Spec
CONSTANTS
    Logins = {l1, l2}
    Passwords = {p1}
    Requests = {r1, r2}
    LicenseUserCount = 2
    MaxUsers = 2
    MaxIDs = 2
    MaxFaults = 1
    NoPassword = NoPassword
    NoUser = NoUser
    Torn = Torn
SYMMETRY SafetySymmetry
INVARIANTS
    TypeOK
    UsersOnDisk
    LoginsIdentifyUsers
    
    DeletedStaysDeleted
CHECK_DEADLOCK FALSE
