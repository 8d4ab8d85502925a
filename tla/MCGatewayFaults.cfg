SPECIFICATION Spec
CONSTANTS
    NULL = NULL
    Acceptor = Acceptor
    LOGIC = LOGIC
    SessionCount = 1
    ThreadCount = 2
    Cap = 2
    FdCount = 2
    Guid = {}
    Rows = {0}
    Buckets = {0, 1}
    RowOf <- MCRowOf
    BucketOf <- MCBucketOf
    Stray = {0}
    Faults = {"logicDown", "tickFail", "acceptError"}
INVARIANTS ReactorInBounds
