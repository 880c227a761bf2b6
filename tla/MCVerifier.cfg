SPECIFICATION FairSpec
CONSTANTS
    k1 = k1
    k2 = k2
    p1 = p1
    p2 = p2
    Refresher = Refresher
    Free = Free
    Key = {k1}
    Request = {p1, p2}
    CacheTtl = 1
    Period = 1
    ReverifyAttempts = 2
    MaxRotations = 2
    MaxTime = 1
INVARIANTS
    TrustBounded
    RotationSurvived
PROPERTIES
    NewerVerificationWins
    RequestsEnd
