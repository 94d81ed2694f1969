----------------------------- MODULE SyncServer -----------------------------
(***************************************************************************)
(* The cloud half of hybrid sync for one workspace: the /sync/batch,       *)
(* /sync/status and /sync/barrier handlers of api/v1/routers/sync.py, the  *)
(* one index worker behind them, the recovery a status request may run,    *)
(* and the snapshot store's two files (index.json and status.json).        *)
(*                                                                         *)
(* The handlers run on one event loop, so what a handler does between two  *)
(* awaits is one action; what it hands to a thread (a read or a write of   *)
(* the store, of the exact index, of the semantic index) is an action of   *)
(* its own.  A file's content stands for its hash.                         *)
(***************************************************************************)
EXTENDS WorkspaceTree, Sequences, FiniteSets

CONSTANTS
    SemanticContents,  \* the contents semantic_index_decision includes
    Requests,          \* handlers of /sync/batch that may be in flight
    Pollers,           \* handlers of /sync/status or /sync/barrier
    Worker,            \* the index worker
    Free,              \* nobody holds the store's workspace lock
    Batches,           \* the bodies clients send
    QueueMax,          \* maxsize of the index queue
    ChunkMax,          \* the most changed files of one coalesced group
    MaxPosts,          \* bound: batches posted in a behaviour
    MaxFaults,         \* bound: failing writes in a behaviour
    MaxCrashes         \* bound: restarts of the process

Indexers == Pollers \cup {Worker}
Procs == Requests \cup Indexers

\* What _enqueue_index_update puts in the queue.
Job == [rev : Nat, files : Tree, dels : SUBSET Paths]
\* A row of _SyncWorkspaceState.files: the content and its accepted_revision.
Row == [hash : Entry, rev : Nat]
Absent == [hash |-> None, rev |-> 0]
Revisions == [accepted : Nat, indexed : Nat]
\* The body of a /sync/batch request.
Body == [files : Tree, dels : SUBSET Paths, clientRevision : Nat]
NoBody == [files |-> NoFiles, dels |-> {}, clientRevision |-> 0]

ASSUME ConstantsAssumption ==
    /\ None \notin Contents
    /\ SemanticContents \subseteq Contents
    /\ Requests \cap Pollers = {}
    /\ Worker \notin Requests \cup Pollers
    /\ Free \notin Procs
    /\ Batches \subseteq Body
    /\ QueueMax \in Nat \ {0}
    /\ ChunkMax \in Nat \ {0}
    /\ MaxPosts \in Nat /\ MaxFaults \in Nat /\ MaxCrashes \in Nat

VARIABLES
    \* On disk: they survive a restart.
    snapshot,        \* index.json: the content recorded for each path
    storeAccepted,   \* index.json: accepted_revision
    storeIndexed,    \* index.json: indexed_revision
    summary,         \* status.json: the revisions, once it is written
    exact,           \* rows of the exact index
    exactRevision,   \* exact_indexed_revision
    semantic,        \* rows of the semantic index
    \* _SyncWorkspaceState: lost in a restart.
    accepted, indexed, files, deleted, loaded, depth, running, indexing, failed,
    \* The process around it.
    lock,            \* who holds the store's workspace lock
    queue,           \* the index queue
    drained,         \* jobs the worker took and has not started
    started,         \* the worker task exists
    pc, body, work, rev, seen,  \* program counter and locals of each process
    \* Bounds and history.
    acked,           \* the content last acknowledged for each path
    posts, faults, crashes

diskVars == <<snapshot, storeAccepted, storeIndexed, summary>>
indexVars == <<exact, exactRevision, semantic>>
stateVars == <<accepted, indexed, files, deleted, loaded, depth, running,
               indexing, failed>>
queueVars == <<queue, drained, started>>
bounds == <<posts, faults, crashes>>
vars == <<snapshot, storeAccepted, storeIndexed, summary, exact, exactRevision,
          semantic, accepted, indexed, files, deleted, loaded, depth, running,
          indexing, failed, lock, queue, drained, started, pc, body, work, rev,
          seen, acked, posts, faults, crashes>>

Init ==
    /\ snapshot = NoFiles /\ storeAccepted = 0 /\ storeIndexed = 0
    /\ summary = [written |-> FALSE, accepted |-> 0, indexed |-> 0]
    /\ exact = NoFiles /\ exactRevision = 0 /\ semantic = NoFiles
    /\ accepted = 0 /\ indexed = 0
    /\ files = [p \in Paths |-> Absent] /\ deleted = {}
    /\ loaded = FALSE /\ depth = 0
    /\ running = FALSE /\ indexing = FALSE /\ failed = FALSE
    /\ lock = Free /\ queue = <<>> /\ drained = <<>> /\ started = FALSE
    /\ pc = [x \in Procs |-> "idle"]
    /\ body = [r \in Requests |-> NoBody]
    /\ work = [x \in Procs |-> NoChange]
    /\ rev = [x \in Procs |-> 0]
    /\ seen = [x \in Procs |-> [accepted |-> 0, indexed |-> 0]]
    /\ acked = NoFiles
    /\ posts = 0 /\ faults = 0 /\ crashes = 0

Goto(x, label) == pc' = [pc EXCEPT ![x] = label]

\* The handler of x ends: its locals are gone.
Return(x) ==
    /\ Goto(x, "idle")
    /\ work' = [work EXCEPT ![x] = NoChange]
    /\ rev' = [rev EXCEPT ![x] = 0]
    /\ seen' = [seen EXCEPT ![x] = [accepted |-> 0, indexed |-> 0]]

\* The handler of batch r ends.
EndBatch(r) == Return(r) /\ body' = [body EXCEPT ![r] = NoBody]

Fault == faults < MaxFaults /\ faults' = faults + 1

-----------------------------------------------------------------------------
(* Loading the process state: _ensure_state_loaded and the final probe of  *)
(* sync_status.                                                            *)

\* CloudSnapshotStore.status: status.json without the lock, and index.json
\* under the lock only when there is no status.json.
ReadStatus(x) ==
    /\ pc[x] \in {"load", "probe"}
    /\ \/ /\ summary.written
          /\ seen' = [seen EXCEPT ![x] = [accepted |-> summary.accepted,
                                          indexed |-> summary.indexed]]
       \/ /\ ~summary.written /\ lock = Free
          /\ seen' = [seen EXCEPT ![x] = [accepted |-> storeAccepted,
                                          indexed |-> storeIndexed]]
    /\ Goto(x, IF pc[x] = "load" THEN "merge" ELSE "final")
    /\ UNCHANGED <<diskVars, indexVars, stateVars, lock, queueVars, body, work,
                   rev, acked, bounds>>

\* Variant for the mutation of MergeSeen: the reading replaces the state.
TakeSeen(x) ==
    /\ accepted' = seen[x].accepted
    /\ indexed' = seen[x].indexed
    /\ loaded' = TRUE
\* _apply_snapshot_status.
MergeSeen(x) ==
    /\ accepted' = Larger(accepted, seen[x].accepted)
    /\ indexed' = Larger(indexed, seen[x].indexed)
    /\ loaded' = TRUE

\* A batch goes on to read the recorded hashes, sync_status to the recovery;
\* sync_barrier answers.
MergeStatus(x) ==
    /\ pc[x] = "merge"
    /\ MergeSeen(x)
    /\ \/ x \in Requests /\ Goto(x, "hash") /\ UNCHANGED <<work, rev, seen>>
       \/ x \in Pollers /\ Goto(x, "check") /\ UNCHANGED <<work, rev, seen>>
       \/ x \in Pollers /\ Return(x)
    /\ UNCHANGED <<diskVars, indexVars, files, deleted, depth, running,
                   indexing, failed, lock, queueVars, body, acked, bounds>>

-----------------------------------------------------------------------------
(* push_sync_batch.                                                        *)

\* A validated body arrives.
PostBatch(r) ==
    /\ pc[r] = "idle" /\ posts < MaxPosts
    /\ posts' = posts + 1
    /\ \E b \in Batches : body' = [body EXCEPT ![r] = b]
    /\ Goto(r, IF loaded THEN "hash" ELSE "load")
    /\ UNCHANGED <<diskVars, indexVars, stateVars, lock, queueVars, work, rev,
                   seen, acked, faults, crashes>>

\* The files whose hash is not the recorded one are the batch's changes.
ReadHashes(r) ==
    /\ pc[r] = "hash" /\ lock = Free
    /\ work' = [work EXCEPT ![r] =
           [files |-> [p \in Paths |-> IF body[r].files[p] = snapshot[p]
                                       THEN None ELSE body[r].files[p]],
            dels |-> body[r].dels]]
    /\ Goto(r, "reserve")
    /\ UNCHANGED <<diskVars, indexVars, stateVars, lock, queueVars, body, rev,
                   seen, acked, bounds>>

Effective(c) == c.dels # {} \/ \E p \in Paths : c.files[p] # None

\* Variant for the mutation of NextRevision: no increment.
SameRevision(r) == Larger(accepted, body[r].clientRevision)
NextRevision(r) == Larger(accepted + 1, body[r].clientRevision)

\* The revision of the batch is computed from the process state, and reserved
\* nowhere.  A batch without changes takes the current revision and commits at
\* once: no await lies between.
Reserve(r) ==
    /\ pc[r] = "reserve"
    /\ IF Effective(work[r])
       THEN /\ rev' = [rev EXCEPT ![r] = NextRevision(r)]
            /\ Goto(r, "apply")
       ELSE /\ rev' = [rev EXCEPT ![r] = accepted]
            /\ Goto(r, "answer")
    /\ UNCHANGED <<diskVars, indexVars, stateVars, lock, queueVars, body, work,
                   seen, acked, bounds>>

\* Variant for the mutation of AcceptedAfter: an assignment.
RevisionOf(r) == rev[r]
\* _set_accepted_revision.
AcceptedAfter(r) == Larger(storeAccepted, rev[r])

\* apply_batch up to the replacement of index.json, under the store's lock.
ApplyBatch(r) ==
    /\ pc[r] = "apply" /\ lock = Free
    /\ lock' = r
    /\ snapshot' = FilesThenDeletes(snapshot, work[r])
    /\ storeAccepted' = AcceptedAfter(r)
    /\ seen' = [seen EXCEPT ![r] = [accepted |-> storeAccepted',
                                    indexed |-> storeIndexed]]
    /\ Goto(r, "save")
    /\ UNCHANGED <<storeIndexed, summary, indexVars, stateVars, queueVars, body,
                   work, rev, acked, bounds>>

\* Variant for the mutation of StatusFromIndex: accepted_revision stays behind.
StatusBehindIndex ==
    [written |-> TRUE, accepted |-> summary.accepted, indexed |-> storeIndexed]
StatusFromIndex ==
    [written |-> TRUE, accepted |-> storeAccepted, indexed |-> storeIndexed]

\* _save_status_summary: status.json follows index.json in a second
\* replacement, and the lock is released.
SaveSummary(x) ==
    /\ pc[x] \in {"save", "savemark"}
    /\ summary' = StatusFromIndex
    /\ lock' = Free
    /\ Goto(x, IF pc[x] = "save" THEN "exact" ELSE "finish")
    /\ UNCHANGED <<snapshot, storeAccepted, storeIndexed, indexVars, stateVars,
                   queueVars, body, work, rev, seen, acked, bounds>>

\* The rows of the batch, in one transaction of the exact index.
UpdateExact(r) ==
    /\ pc[r] = "exact"
    /\ exact' = DeletesThenFiles(exact, work[r])
    /\ exactRevision' = Larger(exactRevision, rev[r])
    /\ Goto(r, "commit")
    /\ UNCHANGED <<diskVars, semantic, stateVars, lock, queueVars, body, work,
                   rev, seen, acked, bounds>>

\* An error before the commit: the store refuses or fails (index.json keeps
\* its content), status.json cannot be replaced, or the exact index fails.
\* The process state is left alone and nothing is enqueued.
BatchFails(r) ==
    /\ \/ pc[r] = "apply" /\ lock = Free /\ UNCHANGED lock
       \/ pc[r] = "save" /\ lock' = Free
       \/ pc[r] = "exact" /\ UNCHANGED lock
    /\ Fault
    /\ EndBatch(r)
    /\ UNCHANGED <<diskVars, indexVars, stateVars, queueVars, acked, posts,
                   crashes>>

Acknowledge(r) == acked' = FilesThenDeletes(acked, body[r])

\* The second locked section and _enqueue_index_update.  With room in the
\* queue there is no await before the answer; without, the handler waits.
Commit(r) ==
    /\ pc[r] = "commit"
    /\ files' = [p \in Paths |->
           IF p \in work[r].dels THEN Absent
           ELSE IF work[r].files[p] # None
                THEN [hash |-> work[r].files[p], rev |-> rev[r]]
                ELSE files[p]]
    /\ deleted' = {p \in deleted : work[r].files[p] = None} \cup work[r].dels
    /\ accepted' = rev[r]
    /\ indexed' = Larger(indexed, seen[r].indexed)
    /\ loaded' = TRUE /\ indexing' = TRUE /\ failed' = FALSE
    /\ depth' = depth + 1
    /\ started' = TRUE
    /\ \/ /\ Len(queue) < QueueMax
          /\ queue' = Append(queue, [rev |-> rev[r], files |-> work[r].files,
                                     dels |-> work[r].dels])
          /\ Acknowledge(r)
          /\ EndBatch(r)
       \/ /\ Len(queue) >= QueueMax
          /\ Goto(r, "put")
          /\ UNCHANGED <<queue, body, work, rev, seen, acked>>
    /\ UNCHANGED <<diskVars, indexVars, running, lock, drained, bounds>>

\* The queue has room again for a handler that waits in queue.put.
PutJob(r) ==
    /\ pc[r] = "put" /\ Len(queue) < QueueMax
    /\ queue' = Append(queue, [rev |-> rev[r], files |-> work[r].files,
                               dels |-> work[r].dels])
    /\ Acknowledge(r)
    /\ EndBatch(r)
    /\ UNCHANGED <<diskVars, indexVars, stateVars, lock, drained, started,
                   bounds>>

\* A batch without changes is answered after its look at the exact index.
Answer(r) ==
    /\ pc[r] = "answer"
    /\ Acknowledge(r)
    /\ EndBatch(r)
    /\ UNCHANGED <<diskVars, indexVars, stateVars, lock, queueVars, bounds>>

-----------------------------------------------------------------------------
(* The index worker: _index_worker, _coalesce_index_jobs and               *)
(* _run_index_update_blocking.  The worker drains the queue and works      *)
(* through the jobs in groups, each a run of consecutive jobs.             *)

\* The paths with content among the first n jobs, each job's deletes taken
\* before its files.
ChangedPaths(jobs, n) ==
    {p \in Paths : \E i \in 1..n :
        /\ jobs[i].files[p] # None
        /\ \A k \in (i + 1)..n : p \in jobs[k].dels => jobs[k].files[p] # None}

\* The group of the first n - 1 jobs has room for job n.
Fits(jobs, n) ==
    Cardinality(ChangedPaths(jobs, n - 1))
      + Cardinality({p \in Paths : jobs[n].files[p] # None}) <= ChunkMax

\* The first k jobs are the next group.
IsGroup(jobs, k) ==
    /\ \A n \in 2..k : Fits(jobs, n)
    /\ k < Len(jobs) => ~Fits(jobs, k + 1)

\* changed_files of the group of the first k jobs: c is the last content of p
\* that the semantic index includes, and no later job of the group deletes p.
LastIncluded(jobs, k, p, c) ==
    \E i \in 1..k :
        /\ jobs[i].files[p] = c /\ c \in SemanticContents
        /\ \A n \in (i + 1)..k : /\ jobs[n].files[p] \notin SemanticContents
                                 /\ p \notin jobs[n].dels

\* Variant for the mutation of DeletedPaths: a later file leaves the path in.
EverDeleted(jobs, k) == {p \in Paths : \E i \in 1..k : p \in jobs[i].dels}
\* deleted_paths of the group.
DeletedPaths(jobs, k) ==
    {p \in Paths : \E i \in 1..k :
        /\ p \in jobs[i].dels /\ jobs[i].files[p] = None
        /\ \A n \in (i + 1)..k : jobs[n].files[p] = None}

GroupChange(jobs, k) ==
    [files |-> [p \in Paths |->
        IF \E c \in Contents : LastIncluded(jobs, k, p, c)
        THEN CHOOSE c \in Contents : LastIncluded(jobs, k, p, c)
        ELSE None],
     dels |-> DeletedPaths(jobs, k)]

\* index_queue_depth once a group of k jobs starts.  Variants for its mutation:
\* a group counts as one job; no lower bound.
DepthAfterOne(k) == Larger(depth - 1, 0)
DepthUnbounded(k) == depth - k
DepthAfter(k) == Larger(depth - k, 0)

\* The worker starts on the first group of jobs; its revision is the largest.
StartGroup(jobs) ==
    \E k \in 1..Len(jobs) : \E newest \in 1..k :
        /\ IsGroup(jobs, k)
        /\ \A i \in 1..k : jobs[i].rev <= jobs[newest].rev
        /\ work' = [work EXCEPT ![Worker] = GroupChange(jobs, k)]
        /\ rev' = [rev EXCEPT ![Worker] = jobs[newest].rev]
        /\ drained' = SubSeq(jobs, k + 1, Len(jobs))
        /\ depth' = DepthAfter(k)
        /\ running' = TRUE /\ indexing' = TRUE
        /\ Goto(Worker, "index")

TakeJobs ==
    /\ pc[Worker] = "idle" /\ queue # <<>>
    /\ queue' = <<>>
    /\ StartGroup(queue)
    /\ UNCHANGED <<diskVars, indexVars, accepted, indexed, files, deleted,
                   loaded, failed, lock, started, body, seen, acked, bounds>>

Upserts(c) == {p \in Paths : c.files[p] # None}
Touched(c) == c.dels \cup Upserts(c)

\* The thread's semantic updates, all of them.
UpdateSemantic(x) ==
    /\ pc[x] = "index"
    /\ semantic' = FilesThenDeletes(semantic, work[x])
    /\ Goto(x, "mark")
    /\ UNCHANGED <<diskVars, exact, exactRevision, stateVars, lock, queueVars,
                   body, work, rev, seen, acked, bounds>>

\* An unavailable engine writes nothing, one with an incompatible index stops
\* where the error is, and both go on to mark the revision; any other error
\* also stops there and is raised.  Deletes follow the files.
InterruptSemantic(x) ==
    /\ pc[x] = "index"
    /\ Fault
    /\ \E P \in SUBSET Upserts(work[x]), D \in SUBSET work[x].dels :
          /\ D # {} => P = Upserts(work[x])
          /\ semantic' = [p \in Paths |->
                 IF p \in D THEN None
                 ELSE IF p \in P THEN work[x].files[p] ELSE semantic[p]]
    /\ \/ Goto(x, "mark")
       \/ Goto(x, "failed")
    /\ UNCHANGED <<diskVars, exact, exactRevision, stateVars, lock, queueVars,
                   body, work, rev, seen, acked, posts, crashes>>

\* mark_indexed up to the replacement of index.json.  It raises when the
\* revision exceeds what the store accepted.
MarkIndexed(x) ==
    /\ pc[x] = "mark" /\ lock = Free
    /\ IF rev[x] > storeAccepted
       THEN Goto(x, "failed") /\ UNCHANGED <<storeIndexed, lock, seen>>
       ELSE /\ storeIndexed' = Larger(storeIndexed, rev[x])
            /\ seen' = [seen EXCEPT ![x].indexed = storeIndexed']
            /\ lock' = x
            /\ Goto(x, "savemark")
    /\ UNCHANGED <<snapshot, storeAccepted, summary, indexVars, stateVars,
                   queueVars, body, work, rev, acked, bounds>>

\* index.json or status.json cannot be replaced.
MarkFails(x) ==
    /\ \/ pc[x] = "mark" /\ lock = Free /\ UNCHANGED lock
       \/ pc[x] = "savemark" /\ lock' = Free
    /\ Fault
    /\ Goto(x, "failed")
    /\ UNCHANGED <<diskVars, indexVars, stateVars, queueVars, body, work, rev,
                   seen, acked, posts, crashes>>

\* Variant for the mutation of NextGroup: the groups left are forgotten.
NoNextGroup(busy) ==
    /\ drained' = <<>> /\ running' = FALSE /\ indexing' = busy
    /\ Return(Worker)
    /\ UNCHANGED depth
\* The worker reports its group and goes on: to the next group it drained, or
\* to wait for the queue.
NextGroup(busy) ==
    \/ /\ drained # <<>> /\ StartGroup(drained) /\ UNCHANGED seen
    \/ /\ drained = <<>> /\ running' = FALSE /\ indexing' = busy
       /\ Return(Worker)
       /\ UNCHANGED <<depth, drained>>

FinishGroup ==
    /\ pc[Worker] = "finish"
    /\ indexed' = seen[Worker].indexed
    /\ failed' = FALSE
    /\ NextGroup(depth > 0 \/ indexed' < accepted)
    /\ UNCHANGED <<diskVars, indexVars, accepted, files, deleted, loaded, lock,
                   queue, started, body, acked, bounds>>

\* A failed group is dropped.
FailGroup ==
    /\ pc[Worker] = "failed"
    /\ failed' = TRUE
    /\ NextGroup(depth > 0)
    /\ UNCHANGED <<diskVars, indexVars, accepted, indexed, files, deleted,
                   loaded, lock, queue, started, body, acked, bounds>>

-----------------------------------------------------------------------------
(* sync_status, with _recover_stalled_index_update, and sync_barrier.      *)

Poll(k) ==
    /\ pc[k] = "idle"
    /\ Goto(k, IF loaded THEN "check" ELSE "load")
    /\ UNCHANGED <<diskVars, indexVars, stateVars, lock, queueVars, body, work,
                   rev, seen, acked, bounds>>

WorkerBusy == started /\ (running \/ depth > 0)

\* Nothing to recover, or the worker is on it.
CheckPasses(k) ==
    /\ pc[k] = "check"
    /\ indexed >= accepted \/ WorkerBusy
    /\ Goto(k, "probe")
    /\ UNCHANGED <<diskVars, indexVars, stateVars, lock, queueVars, body, work,
                   rev, seen, acked, bounds>>

\* The rows the process remembers above indexed_revision, and every deleted
\* path it remembers, are indexed once more as the accepted revision.
Recover(k) ==
    /\ pc[k] = "check"
    /\ indexed < accepted /\ ~WorkerBusy
    /\ work' = [work EXCEPT ![k] =
           [files |-> [p \in Paths |->
                IF /\ files[p].rev > indexed
                   /\ files[p].hash \in SemanticContents
                THEN files[p].hash ELSE None],
            dels |-> deleted]]
    /\ rev' = [rev EXCEPT ![k] = accepted]
    /\ running' = TRUE /\ indexing' = TRUE
    /\ Goto(k, "index")
    /\ UNCHANGED <<diskVars, indexVars, accepted, indexed, files, deleted,
                   loaded, depth, failed, lock, queueVars, body, seen, acked,
                   bounds>>

FinishRecovery(k) ==
    /\ pc[k] = "finish"
    /\ indexed' = Larger(indexed, seen[k].indexed)
    /\ depth' = 0
    /\ running' = FALSE /\ indexing' = (indexed' < accepted) /\ failed' = FALSE
    /\ Goto(k, "probe")
    /\ UNCHANGED <<diskVars, indexVars, accepted, files, deleted, loaded, lock,
                   queueVars, body, work, rev, seen, acked, bounds>>

\* Variant for the mutation of FailRecovery: index_worker_running is not reset.
FailRecoveryRunning(k) ==
    /\ pc[k] = "failed"
    /\ indexing' = (depth > 0) /\ failed' = TRUE
    /\ Goto(k, "probe")
    /\ UNCHANGED <<diskVars, indexVars, accepted, indexed, files, deleted,
                   loaded, depth, running, lock, queueVars, body, work, rev,
                   seen, acked, bounds>>
FailRecovery(k) ==
    /\ pc[k] = "failed"
    /\ running' = FALSE /\ indexing' = (depth > 0) /\ failed' = TRUE
    /\ Goto(k, "probe")
    /\ UNCHANGED <<diskVars, indexVars, accepted, indexed, files, deleted,
                   loaded, depth, lock, queueVars, body, work, rev, seen, acked,
                   bounds>>

\* The status is answered from the cache, or the probe of the store times out:
\* the process state stays as it is.
SkipProbe(k) ==
    /\ pc[k] = "probe"
    /\ Return(k)
    /\ UNCHANGED <<diskVars, indexVars, stateVars, lock, queueVars, body, acked,
                   bounds>>

\* The status is answered with the probe of the store merged in.
AnswerStatus(k) ==
    /\ pc[k] = "final"
    /\ MergeSeen(k)
    /\ Return(k)
    /\ UNCHANGED <<diskVars, indexVars, files, deleted, depth, running,
                   indexing, failed, lock, queueVars, body, acked, bounds>>

-----------------------------------------------------------------------------
\* The process restarts: what is not on disk is gone.
Crash ==
    /\ crashes < MaxCrashes /\ crashes' = crashes + 1
    /\ accepted' = 0 /\ indexed' = 0
    /\ files' = [p \in Paths |-> Absent] /\ deleted' = {}
    /\ loaded' = FALSE /\ depth' = 0
    /\ running' = FALSE /\ indexing' = FALSE /\ failed' = FALSE
    /\ lock' = Free /\ queue' = <<>> /\ drained' = <<>> /\ started' = FALSE
    /\ pc' = [x \in Procs |-> "idle"]
    /\ body' = [r \in Requests |-> NoBody]
    /\ work' = [x \in Procs |-> NoChange]
    /\ rev' = [x \in Procs |-> 0]
    /\ seen' = [x \in Procs |-> [accepted |-> 0, indexed |-> 0]]
    /\ UNCHANGED <<diskVars, indexVars, acked, posts, faults>>

RequestStep(r) ==
    \/ ReadStatus(r) \/ MergeStatus(r) \/ ReadHashes(r) \/ Reserve(r)
    \/ ApplyBatch(r) \/ SaveSummary(r) \/ UpdateExact(r) \/ Commit(r)
    \/ PutJob(r) \/ Answer(r)

IndexStep(x) ==
    UpdateSemantic(x) \/ MarkIndexed(x) \/ SaveSummary(x)

WorkerStep == TakeJobs \/ IndexStep(Worker) \/ FinishGroup \/ FailGroup

PollStep(k) ==
    \/ ReadStatus(k) \/ MergeStatus(k) \/ CheckPasses(k) \/ Recover(k)
    \/ IndexStep(k) \/ FinishRecovery(k) \/ FailRecovery(k)
    \/ AnswerStatus(k)

Next ==
    \/ \E r \in Requests : PostBatch(r) \/ RequestStep(r) \/ BatchFails(r)
    \/ WorkerStep
    \/ \E k \in Pollers : Poll(k) \/ PollStep(k) \/ SkipProbe(k)
    \/ \E x \in Indexers : InterruptSemantic(x) \/ MarkFails(x)
    \/ Crash

Spec == Init /\ [][Next]_vars

\* The event loop keeps running: handlers and the worker go on, and clients
\* keep asking for the status.  A probe is not cut off by its timeout, or
\* answered from the cache, every time.
Fairness ==
    /\ \A r \in Requests : WF_vars(RequestStep(r))
    /\ WF_vars(WorkerStep)
    /\ \A k \in Pollers : WF_vars(Poll(k)) /\ WF_vars(PollStep(k))
                          /\ SF_vars(pc[k] = "probe" /\ ReadStatus(k))

LiveSpec == Spec /\ Fairness

-----------------------------------------------------------------------------
(* Properties. *)

Labels == {"idle", "load", "merge", "hash", "reserve", "apply", "save", "exact",
           "commit", "put", "answer", "check", "index", "mark", "savemark",
           "finish", "failed", "probe", "final"}

DiskTypes ==
    /\ snapshot \in Tree /\ storeAccepted \in Nat /\ storeIndexed \in Nat
    /\ summary \in [written : BOOLEAN, accepted : Nat, indexed : Nat]
IndexTypes ==
    exact \in Tree /\ exactRevision \in Nat /\ semantic \in Tree
StateTypes ==
    /\ accepted \in Nat /\ indexed \in Nat /\ depth \in Nat
    /\ files \in [Paths -> Row] /\ deleted \in SUBSET Paths
    /\ loaded \in BOOLEAN /\ running \in BOOLEAN
    /\ indexing \in BOOLEAN /\ failed \in BOOLEAN
QueueTypes ==
    queue \in Seq(Job) /\ drained \in Seq(Job) /\ started \in BOOLEAN
LocalTypes ==
    /\ lock \in Procs \cup {Free} /\ pc \in [Procs -> Labels]
    /\ body \in [Requests -> Body] /\ work \in [Procs -> Change]
    /\ rev \in [Procs -> Nat] /\ seen \in [Procs -> Revisions]
BoundTypes ==
    acked \in Tree /\ posts \in Nat /\ faults \in Nat /\ crashes \in Nat

\* The values every variable takes.
TypeOK ==
    /\ DiskTypes /\ IndexTypes /\ StateTypes
    /\ QueueTypes /\ LocalTypes /\ BoundTypes

\* The revisions _ensure_state_loaded would find after a restart now.
DurableAccepted == IF summary.written THEN summary.accepted ELSE storeAccepted
DurableIndexed == IF summary.written THEN summary.indexed ELSE storeIndexed

\* What the process reports and what the exact index carries is on disk where
\* a restart finds it, although index.json and status.json are replaced one
\* after the other: no restart takes a reported revision back.
RestartSafe ==
    /\ accepted <= DurableAccepted
    /\ indexed <= DurableIndexed
    /\ exactRevision <= DurableAccepted

\* status.json never runs ahead of index.json, and the store never claims to
\* have indexed what it has not accepted.
StoreOrder ==
    /\ storeIndexed <= storeAccepted
    /\ summary.accepted <= storeAccepted /\ summary.indexed <= storeIndexed
    /\ DurableIndexed <= DurableAccepted

\* mark_indexed never refuses a revision: whoever indexes, worker or recovery,
\* marks a revision that the store has accepted by then.
MarkNotRefused ==
    \A x \in Indexers : pc[x] = "mark" => rev[x] <= storeAccepted

\* What a restart would load never goes back.
DurableAdvances ==
    [][/\ DurableAccepted <= DurableAccepted'
       /\ DurableIndexed <= DurableIndexed']_vars

\* The rows the semantic index may have.
Indexable == SemanticContents \cup {None}
\* The changes on their way to the semantic index, the newest last.
UnderWay ==
    (IF pc[Worker] = "index" THEN <<work[Worker]>> ELSE <<>>)
      \o drained \o queue

\* The semantic index answers for the content c of p.
Searchable(p, c) == c \in Indexable => semantic[p] = c

\* /sync/barrier: when it is ready for every revision handed out, a search
\* finds each acknowledged file as acknowledged (unless a newer batch is about
\* to replace it).
BarrierCurrent ==
    indexed >= accepted =>
        \A p \in Paths : acked[p] = snapshot[p] => Searchable(p, acked[p])

\* An acknowledged file is in the exact index.
ExactCurrent ==
    \A p \in Paths : acked[p] = snapshot[p] => exact[p] = acked[p]

\* index_queue_depth counts the jobs in the queue, those drained and not
\* started, and those whose handler waits for room; index_worker_running says
\* that a group is being indexed.  Recovery relies on both.
DepthCounts ==
    /\ depth = Len(queue) + Len(drained)
               + Cardinality({r \in Requests : pc[r] = "put"})
    /\ running = (pc[Worker] # "idle")

\* A revision that the exact index carries is not given to another batch.
FreshRevision ==
    \A r \in Requests : pc[r] = "apply" => exactRevision < rev[r]

\* accepted_revision never goes back while the process runs.
AcceptedAdvances == [][accepted <= accepted' \/ crashes' > crashes]_vars

\* Each revision the process accepts is reported indexed in the end.
EventuallyIndexed ==
    \A n \in 1..MaxPosts : accepted >= n ~> indexed >= n

\* With failing writes and restarts, status requests bring the indexed revision
\* up to the accepted one in the end, in the process and on disk, and neither
\* the worker nor a recovery is left running, nor a job counted as queued.
Settles ==
    <>[](/\ DurableIndexed = DurableAccepted /\ indexed >= accepted
         /\ ~running /\ depth = 0)

-----------------------------------------------------------------------------
(* The inductive invariant behind RestartSafe, StoreOrder and              *)
(* MarkNotRefused.                                                         *)

\* The lock is held exactly between the two replacements of a save.
LockOK ==
    \A x \in Procs : (pc[x] \in {"save", "savemark"}) <=> (lock = x)

\* What a process has read or written is bounded by what is on disk: by
\* index.json until its save is complete, then by what a restart loads.
LocalOK(x) ==
    /\ pc[x] \in {"merge", "final"} => seen[x].accepted <= DurableAccepted
    /\ pc[x] \in {"merge", "final", "exact", "commit", "finish"} =>
           seen[x].indexed <= DurableIndexed
    /\ pc[x] \in {"exact", "commit"} => rev[x] <= DurableAccepted
    /\ pc[x] \in {"save", "savemark"} => seen[x].indexed <= storeIndexed
    /\ pc[x] \in {"save", "put", "index", "mark"} => rev[x] <= storeAccepted
LocalsOK == \A x \in Procs : LocalOK(x)

\* The store has accepted the revision of every job.
JobsOK ==
    /\ \A i \in 1..Len(queue) : queue[i].rev <= storeAccepted
    /\ \A i \in 1..Len(drained) : drained[i].rev <= storeAccepted

IInv == TypeOK /\ StoreOrder /\ RestartSafe /\ LockOK /\ LocalsOK /\ JobsOK
=============================================================================
