SPECIFICATION FairKeySpec
CONSTANTS
    Signers = {r1, r2, r3}
    Pairs = {p1, p2, p3, p4, p5}
    MaxFailures = 2
    NoFile = NoFile
    Torn = Torn
    NoPair = NoPair
INVARIANTS
    KeyTypeOK
    KeyPairMatches
PROPERTIES
    SignsInTheEnd
