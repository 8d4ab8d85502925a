SPECIFICATION FairSpec
CONSTANTS
    NULL = NULL
    Acceptor = Acceptor
    LOGIC = LOGIC
    SessionCount = 2
    ThreadCount = 1
    Cap = 2
    FdCount = 3
    Guid = {1, 2}
    Rows = {0}
    Buckets = {0, 1}
    RowOf <- MCRowOf
    BucketOf <- MCBucketOf
    Stray = {0}
    Faults = {}
PROPERTIES HandedOverIsTaken ClosedComesBack
