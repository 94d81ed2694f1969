SPECIFICATION Spec
CONSTANTS
    p1 = p1
    p2 = p2
    v1 = v1
    v2 = v2
    t1 = t1
    t2 = t2
    router = router
    job = job
    Paths = {p1, p2}
    Contents = {v1, v2}
    None = None
    Changes <- SomeChanges
    Revisions = {1, 2}
    Threads = {t1, t2}
    Writers = {t1}
    Instances = {router, job}
    StoreOf <- RouterAndJob
    Free = Free
    Missing = Missing
    Torn = Torn
    MaxCalls = 3
    MaxFaults = 1
    MaxCrashes = 1
INVARIANT RecordsHaveObjects
\* When index.json is torn before there is a status.json, every call raises.
CHECK_DEADLOCK FALSE
