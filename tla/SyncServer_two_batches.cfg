SPECIFICATION Spec
CONSTANTS
    p1 = p1
    p2 = p2
    v1 = v1
    v2 = v2
    x = x
    Paths = {p1}
    Contents = {v1, v2}
    None = None
    SemanticContents = {v1, v2}
    Requests = {r1, r2}
    Pollers = {}
    Worker = Worker
    Free = Free
    Batches <- RacingBatches
    QueueMax = 1
    ChunkMax = 1
    MaxPosts = 2
    MaxFaults = 0
    MaxCrashes = 0
PROPERTY AcceptedAdvances
CHECK_DEADLOCK FALSE
