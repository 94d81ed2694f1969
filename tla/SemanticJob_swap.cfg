SPECIFICATION JobSpec
CONSTANTS
    p1 = p1
    p2 = p2
    v1 = v1
    v2 = v2
    w = w
    Paths = {p1}
    Contents = {v1, v2}
    None = None
    SemanticContents = {v1, v2}
    Requests = {r1}
    Pollers = {}
    Worker = Worker
    Free = Free
    Batches <- TwoVersions
    QueueMax = 2
    ChunkMax = 2
    MaxPosts = 2
    MaxFaults = 0
    MaxCrashes = 0
    JobContents = {v1, v2}
    SelectedLimit = 0
    Kinds <- Staged
    JobBatchMax = 1
    MaxJobs = 1
INVARIANT SettledCurrent
CHECK_DEADLOCK FALSE
