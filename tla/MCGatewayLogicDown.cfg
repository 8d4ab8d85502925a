SPECIFICATION Spec
CONSTANTS
    NULL = NULL
    Acceptor = Acceptor
    LOGIC = LOGIC
    SessionCount = 2
    ThreadCount = 1
    Cap = 3
    FdCount = 3
    Guid = {}
    Rows = {0}
    Buckets = {0, 1}
    RowOf <- MCRowOf
    BucketOf <- MCBucketOf
    Stray = {0}
    Faults = {"logicDown"}
INVARIANTS LogicDownReleasesAll
