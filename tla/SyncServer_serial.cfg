SPECIFICATION LiveSpec
CONSTANTS
    p1 = p1
    p2 = p2
    v1 = v1
    v2 = v2
    x = x
    Paths = {p1, p2}
    Contents = {v1, v2, x}
    None = None
    SemanticContents = {v1, v2}
    Requests = {r1}
    Pollers = {}
    Worker = Worker
    Free = Free
    Batches <- SerialBatches
    QueueMax = 2
    ChunkMax = 1
    MaxPosts = 4
    MaxFaults = 0
    MaxCrashes = 0
INVARIANTS BarrierCurrent ExactCurrent DepthCounts
PROPERTIES EventuallyIndexed
CHECK_DEADLOCK FALSE
