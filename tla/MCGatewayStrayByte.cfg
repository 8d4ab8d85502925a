SPECIFICATION Spec
CONSTANTS
    NULL = NULL
    Acceptor = Acceptor
    LOGIC = LOGIC
    SessionCount = 2
    ThreadCount = 1
    Cap = 3
    FdCount = 3
    Guid = {1}
    Rows = {0, 1}
    Buckets = {0, 1}
    RowOf <- MCRowOf
    BucketOf <- MCBucketOf
    Stray = {0, 1}
    Faults = {}
INVARIANTS LogicDataFindsClient
