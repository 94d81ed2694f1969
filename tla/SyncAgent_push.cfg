SPECIFICATION Spec
CONSTANTS
    p1 = p1
    p2 = p2
    v1 = v1
    v2 = v2
    Paths = {p1, p2}
    Contents = {v1, v2}
    None = None
    TextOf <- AllText
    BatchMax = 2
    ToolBatchMax = 1
    FlushMax = 2
    RetryMax = 2
    MaxEdits = 2
    MaxTroubles = 1
INVARIANT TypeOK
INVARIANT Accounted
INVARIANT PendingDrains
INVARIANT RevisionsTrail
SYMMETRY Symmetry
CHECK_DEADLOCK FALSE
