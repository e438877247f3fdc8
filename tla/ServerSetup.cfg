SPECIFICATION Spec
CONSTANTS
    Requests = {r1, r2}
    Hostnames = {none, localhost}
    NoName = none
    LocalHost = localhost
    HasCloud = TRUE
    Tokens = {t1}
    NoToken = NoToken
    MaxEvents = 1
    Missing = Missing
    Torn = Torn
    Nothing = Nothing
SYMMETRY SafetySymmetry
INVARIANTS
    TypeOK
    FileFollowsConfig
    AnsweredSetupIsKept
    
    SurvivesRestarts
    NoRequestIsStuck
    
CHECK_DEADLOCK FALSE
