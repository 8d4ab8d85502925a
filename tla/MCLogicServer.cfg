SPECIFICATION Spec
CONSTANTS
    NULL = NULL
    GatewaySession = {s1, s2, s3}
    Fd = {1, 2, 3}
    MaxReactorSize = 4
    MaxTrouble = 2
    MaxHumanGateways = 2
    Human = {h1, h2, h3}
    UserID = {u1, u2, u3}
    Buckets <- MCBuckets
    BucketOf <- MCBucketOf
    SceneLength = 4
    SceneWight = 4
    ZoneSize = 1
    SysnRange = 1
    MaxHumanInScene = 2
    Start <- MCStart
    Faults = {"epoll", "emfile", "accept", "send"}
SYMMETRY MCSymmetry
CHECK_DEADLOCK FALSE
INVARIANT TypeOK
INVARIANT HumansConsistent
INVARIANT ConnectionsOwnedOnce
INVARIANT ReactorHasRoom
INVARIANT FramesServeAll
 
PROPERTY FirstLoginCounts
