SPECIFICATION Spec
CONSTANTS
    NULL = NULL
    Acceptor = Acceptor
    LOGIC = LOGIC
    SessionCount = 3
    ThreadCount = 1
    Cap = 4
    FdCount = 3
    Guid = {1, 2}
    Rows = {0}
    Buckets = {0, 1, 2, 3}
    RowOf <- MCRowOf
    BucketOf <- MCBucketOf
    Stray = {0}
    Faults = {}
INVARIANTS ListsWellFormed HashMatchesSessions  NeverAborts
