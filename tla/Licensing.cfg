SPECIFICATION Spec
CONSTANTS
    Requests = {r1, r2}
    Clouds = {"aws-marketplace", "aws", "azure", "azure-byol", "digitalocean", "gcp", ""}
    AWSSize = "micro"
    AzureCPUs = 0
    Keys = {k1, k2}
    TagKey = TagKey
    LicensedUsers = 4
    MaxFaults = 1
    MaxLicences = 1
    MaxExternal = 1
    Absent = Absent
    Torn = Torn
    NoKey = NoKey
SYMMETRY SafetySymmetry
INVARIANTS
    TypeOK
    ShownKeyIsLookedUp
    LicenceDropsOnlyByFailure
    UsersWithinLicence
CHECK_DEADLOCK FALSE
