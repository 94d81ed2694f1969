SPECIFICATION JobSpec
CONSTANTS
    p1 = p1
    p2 = p2
    v1 = v1
    v2 = v2
    w = w
    Paths = {p1, p2}
    Contents = {v1, w}
    None = None
    SemanticContents = {v1, w}
    Requests = {r1}
    Pollers = {}
    Worker = Worker
    Free = Free
    Batches <- JobBatches
    QueueMax = 2
    ChunkMax = 2
    MaxPosts = 2
    MaxFaults = 1
    MaxCrashes = 1
    JobContents = {v1}
    SelectedLimit = 1
    Kinds <- AllKinds
    JobBatchMax = 1
    MaxJobs = 2
INVARIANTS JobTypeOK RowsAccounted JobRepairs
PROPERTIES OneRunner
CHECK_DEADLOCK FALSE
