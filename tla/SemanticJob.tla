---------------------------- MODULE SemanticJob ----------------------------
(***************************************************************************)
(* The index job of api/v1/routers/search.py beside the sync server: a     *)
(* thread that lists the snapshot store and builds the semantic index from *)
(* it, in place or in a staging directory that replaces the active index   *)
(* at the end, while batches arrive and the index worker updates the       *)
(* active index.  A job can be paused, resumed and retried, also after a   *)
(* restart, for its record is on disk.                                     *)
(*                                                                         *)
(* The server's steps are those of SyncServer without status requests.     *)
(* The job has a snapshot store of its own; here its steps and those of    *)
(* the server's store take turns, and SnapshotStore has what happens when  *)
(* they do not.                                                            *)
(***************************************************************************)
EXTENDS SyncServer

CONSTANTS
    Kinds,        \* the jobs that are requested: [staged, force]
    JobContents,  \* contents semantic_index_decision includes for the job
    SelectedLimit, \* semantic_selected_file_limit, 0 for none
    JobBatchMax,  \* OMNICODE_SEMANTIC_FILE_BATCH_SIZE
    MaxJobs       \* bound: jobs started and retried

\* A job of scope "semantic" is staged, one of scope "exact_policy" and an
\* index request that is no job work in place.  The decision about a content
\* depends on the phase: the job asks with "semantic_full_bootstrap", which
\* leaves out tests the worker takes, the worker with the phase of the batch,
\* and "initial_sync" leaves out contents the job takes.  SemanticContents of
\* SyncServer is the worker's answer and JobContents the job's.
Kind == [staged : BOOLEAN, force : BOOLEAN]

ASSUME JobAssumption ==
    /\ Kinds \subseteq Kind
    /\ JobContents \subseteq Contents
    /\ SelectedLimit \in Nat
    /\ JobBatchMax \in Nat \ {0}
    /\ MaxJobs \in Nat

States == {"none", "running", "paused", "completed", "failed"}
JobRecord == [state : States, staged : BOOLEAN, force : BOOLEAN,
              resume : BOOLEAN]
NoJob ==
    [state |-> "none", staged |-> FALSE, force |-> FALSE, resume |-> FALSE]
NoList == [p \in Paths |-> Absent]

VARIABLES
    recordRev,  \* index.json: the revision of each record
    staging,    \* rows of the index in the staging directory
    saved,      \* the record of the job on disk
    job,        \* _SNAPSHOT_INDEX_JOBS: the job this process knows
    jpc,        \* the job's thread
    listed,     \* the records the thread has listed
    todo,       \* records it has still to index
    cutOff,     \* records it leaves because of selected_limit
    gone,       \* rows it has still to delete
    \* History.
    lost,       \* paths whose newest content missed the semantic index
    calm,       \* only the job has changed anything since it began
    jobs

jobVars == <<staging, saved, job, jpc, listed, todo, cutOff, gone, jobs>>
allVars == <<vars, recordRev, jobVars, lost, calm>>

JobInit ==
    /\ Init
    /\ recordRev = [p \in Paths |-> 0]
    /\ staging = NoFiles /\ saved = NoJob /\ job = NoJob /\ jpc = "idle"
    /\ listed = NoList /\ todo = {} /\ cutOff = {} /\ gone = {}
    /\ lost = {} /\ calm = FALSE /\ jobs = 0

-----------------------------------------------------------------------------
(* What the semantic index owes to the snapshot.                           *)

\* The index does not hold what the snapshot says.  A content that the worker
\* leaves out owes nothing; one that only the job leaves out does.
Stale == {p \in Paths : snapshot[p] \in Indexable /\ semantic[p] # snapshot[p]}

\* A change brings the snapshot's content of p.
Brings(c, p) ==
    snapshot[p] = IF c.files[p] # None THEN c.files[p] ELSE None

\* A batch the snapshot has and the queue has not.
InHandler == {r \in Requests : pc[r] \in {"save", "exact", "commit", "put"}}

\* The newest change of p on its way brings the snapshot's content.
Coming(p, changes) ==
    \/ \E r \in InHandler : p \in Touched(work[r]) /\ Brings(work[r], p)
    \/ \E i \in 1..Len(changes) :
          /\ p \in Touched(changes[i]) /\ Brings(changes[i], p)
          /\ \A k \in (i + 1)..Len(changes) : p \notin Touched(changes[k])
Missed == LET changes == UnderWay IN {p \in Stale : ~Coming(p, changes)}

-----------------------------------------------------------------------------
(* The server beside the job.                                              *)

\* apply_batch gives the records it writes the revision of the batch.
RecordRevisions ==
    recordRev' = [p \in Paths |->
        IF snapshot'[p] = None THEN 0
        ELSE IF \E r \in Requests :
                   /\ pc[r] = "apply" /\ pc'[r] = "save"
                   /\ work[r].files[p] # None
             THEN storeAccepted'
             ELSE recordRev[p]]

\* A step of the server after which the contents of some paths are lost to the
\* semantic index.
Server(step, losing) ==
    /\ step
    /\ RecordRevisions
    /\ lost' = lost \cup losing
    /\ calm' = (calm /\ snapshot' = snapshot /\ semantic' = semantic)
    /\ UNCHANGED jobVars

\* A batch that fails once index.json has it is never queued: sent again, its
\* files have the recorded hashes.
HandlerFails(r) ==
    Server(BatchFails(r), IF pc[r] = "apply" THEN {} ELSE Touched(work[r]))

\* A group that is not written as a whole is not taken up again.
GroupInterrupted ==
    Server(InterruptSemantic(Worker), Touched(work[Worker]))

\* The queue and the job's thread are gone; the job's record is not.
Restart ==
    /\ Crash
    /\ lost' = lost \cup Stale
    /\ job' = NoJob /\ jpc' = "idle"
    /\ listed' = NoList /\ todo' = {} /\ cutOff' = {} /\ gone' = {}
    /\ calm' = FALSE
    /\ UNCHANGED <<recordRev, staging, saved, jobs>>

-----------------------------------------------------------------------------
(* Requests about the job.                                                 *)

\* Variant for the mutation of MayStart: a paused job is not looked for.
MayStartPaused == job.state # "running"
\* _start_snapshot_index_job gives back a running or paused job as it is.
MayStart == job.state \notin {"running", "paused"}

\* The job is recorded in the process and on disk, and its thread started.
Launch(kind, resume) ==
    /\ jobs < MaxJobs /\ jobs' = jobs + 1
    /\ job' = [state |-> "running", staged |-> kind.staged,
               force |-> kind.force, resume |-> resume]
    /\ saved' = job' /\ jpc' = "prepare"
    /\ UNCHANGED <<vars, recordRev, staging, listed, todo, cutOff, gone, lost,
                   calm>>

StartJob(kind) == MayStart /\ Launch(kind, FALSE)

\* What can be retried: the job this process knows, else the one on disk, which
\* a restart has interrupted if it was running.
Previous == IF job = NoJob THEN saved ELSE job

\* Retry: the configuration of the previous job, and its staging directory.
RetryJob ==
    /\ Previous # NoJob /\ MayStart
    /\ Launch([staged |-> Previous.staged, force |-> Previous.force],
              Previous.staged)

\* The job is recorded in the process, the record on disk cannot be written,
\* and no thread is started.
LaunchFails(kind) ==
    /\ MayStart /\ Fault
    /\ jobs < MaxJobs /\ jobs' = jobs + 1
    /\ job' = [state |-> "running", staged |-> kind.staged,
               force |-> kind.force, resume |-> FALSE]
    /\ UNCHANGED <<diskVars, indexVars, stateVars, lock, queueVars, pc, body,
                   work, rev, seen, acked, posts, crashes, recordRev, staging,
                   saved, jpc, listed, todo, cutOff, gone, lost, calm>>

\* Pause and resume.
Control(from, to) ==
    /\ job.state = from
    /\ job' = [job EXCEPT !.state = to] /\ saved' = job'
    /\ UNCHANGED <<vars, recordRev, staging, jpc, listed, todo, cutOff, gone,
                   jobs, lost, calm>>

-----------------------------------------------------------------------------
(* The job's thread: _run_snapshot_index_blocking.                         *)

\* The index the thread builds.
Target == IF job.staged THEN staging ELSE semantic
Build(rows) ==
    IF job.staged THEN staging' = rows /\ UNCHANGED semantic
                  ELSE semantic' = rows /\ UNCHANGED staging

\* The variables of the server, but for the semantic index.
serverVars == <<diskVars, exact, exactRevision, stateVars, lock, queueVars,
                pc, body, work, rev, seen, acked, recordRev>>

\* The index is built from nothing: a new staging directory, or a reset.
Cleared == IF job.staged THEN ~job.resume ELSE job.force

Prepare ==
    /\ jpc = "prepare"
    /\ Build(IF Cleared THEN NoFiles ELSE Target)
    /\ jpc' = "list"
    /\ calm' = TRUE
    /\ UNCHANGED <<serverVars, bounds, saved, job, listed, todo, cutOff, gone,
                   jobs>>
    /\ lost' = lost \cup Missed'

\* list_records.
ListRecords ==
    /\ jpc = "list" /\ lock = Free
    /\ listed' = [p \in Paths |-> [hash |-> snapshot[p], rev |-> recordRev[p]]]
    /\ jpc' = "survey"
    /\ UNCHANGED <<vars, recordRev, staging, saved, job, todo, cutOff, gone,
                   lost, calm, jobs>>

\* scan_force: the rows that are there are not looked at.
ScanForced == job.force /\ ~job.staged
\* trust_revision_watermark: a record without rows was indexed and found empty
\* if its revision was indexed.
TrustsRevision ==
    ~job.staged /\ ~job.force /\ \E p \in Paths : semantic[p] # None

\* A record the thread passes over: its rows have its hash, or it has none and
\* its revision is trusted.
PassedOver(p) ==
    /\ ~ScanForced
    /\ \/ Target[p] = listed[p].hash
       \/ Target[p] = None /\ TrustsRevision /\ listed[p].rev <= DurableIndexed

\* Variant for the mutation of ToIndex: semantic_index_decision is not asked.
AllToIndex == {p \in Paths : listed[p].hash # None /\ ~PassedOver(p)}
\* semantic_index_decision with the job's phase.
ToIndex == {p \in Paths : listed[p].hash \in JobContents /\ ~PassedOver(p)}

\* The records the thread takes: all of them, or as many as selected_limit lets
\* through; a staged job has no limit.
Selections ==
    IF job.staged \/ SelectedLimit = 0 THEN {ToIndex}
    ELSE {P \in SUBSET ToIndex :
            \/ Cardinality(P) = SelectedLimit
            \/ P = ToIndex /\ Cardinality(P) < SelectedLimit}

\* Variant for the mutation of ToDelete: rows of deleted files stay.
NothingToDelete == {}
ToDelete ==
    {p \in Paths : ~ScanForced /\ Target[p] # None /\ listed[p].hash = None}

\* The watermark and the hashes of the rows decide what there is to do.
Survey ==
    /\ jpc = "survey"
    /\ \E P \in Selections : todo' = P /\ cutOff' = ToIndex \ P
    /\ gone' = ToDelete
    /\ jpc' = "scan"
    /\ UNCHANGED <<vars, recordRev, staging, saved, job, listed, lost, calm,
                   jobs>>

\* The thread waits in its progress report while the job is paused.
GoesOn == jpc = "scan" /\ job.state # "paused"

NextFiles == {P \in SUBSET todo : P # {} /\ Cardinality(P) <= JobBatchMax}

\* flush_batch: the contents that were listed, whatever they are now.
IndexFiles(P) ==
    /\ GoesOn
    /\ Build([p \in Paths |-> IF p \in P THEN listed[p].hash ELSE Target[p]])
    /\ todo' = todo \ P
    /\ UNCHANGED <<serverVars, bounds, saved, job, jpc, listed, cutOff, gone,
                   calm, jobs>>
    /\ lost' = lost \cup Missed'

\* The embedding backend has become unavailable: nothing is written, and the
\* thread goes on.
SkipFiles(P) ==
    /\ GoesOn
    /\ Fault
    /\ todo' = todo \ P /\ calm' = FALSE
    /\ UNCHANGED <<serverVars, semantic, posts, crashes, staging, saved, job,
                   jpc, listed, cutOff, gone, lost, jobs>>

\* delete_file_index for a path that was not listed, whether it is back or not.
DeleteRows(p) ==
    /\ GoesOn /\ todo = {}
    /\ Build([Target EXCEPT ![p] = None])
    /\ gone' = gone \ {p}
    /\ UNCHANGED <<serverVars, bounds, saved, job, jpc, listed, todo, cutOff,
                   calm, jobs>>
    /\ lost' = lost \cup Missed'

\* The last progress report is through: a pause comes too late from here on.
EndScan ==
    /\ GoesOn /\ todo = {} /\ gone = {}
    /\ jpc' = IF job.staged THEN "activate" ELSE "mark"
    /\ UNCHANGED <<vars, recordRev, staging, saved, job, listed, todo, cutOff,
                   gone, lost, calm, jobs>>

\* replace_semantic_index_from: the staging index takes the place of the active
\* one, with all that the worker has written there meanwhile.
Activate ==
    /\ jpc = "activate"
    /\ semantic' = staging /\ staging' = NoFiles
    /\ jpc' = "mark"
    /\ UNCHANGED <<serverVars, bounds, saved, job, listed, todo, cutOff, gone,
                   calm, jobs>>
    /\ lost' = lost \cup Missed'

\* mark_indexed with the accepted revision of now, not of the list, and
\* record_external_indexed_revision.
MarkAll ==
    /\ jpc = "mark" /\ lock = Free
    /\ storeIndexed' = storeAccepted
    /\ summary' = [written |-> TRUE, accepted |-> storeAccepted,
                   indexed |-> storeIndexed']
    /\ indexed' = Larger(indexed, storeIndexed')
    /\ indexing' = (depth > 0 \/ indexed' < accepted)
    /\ failed' = FALSE
    /\ jpc' = "finish"
    /\ UNCHANGED <<snapshot, storeAccepted, indexVars, accepted, files, deleted,
                   loaded, depth, running, lock, queueVars, pc, body, work, rev,
                   seen, acked, bounds, recordRev, staging, saved, job, listed,
                   todo, cutOff, gone, lost, calm, jobs>>

\* The thread ends; a job that was paused too late is completed all the same.
EndJob(state) ==
    /\ job' = [job EXCEPT !.state = state] /\ saved' = job'
    /\ jpc' = "idle" /\ calm' = FALSE
    /\ listed' = NoList /\ todo' = {} /\ cutOff' = {} /\ gone' = {}

Finish ==
    /\ jpc = "finish"
    /\ EndJob("completed")
    /\ UNCHANGED <<vars, recordRev, staging, lost, jobs>>

\* An error anywhere ends the job.  A batch of files that was being written has
\* lost its rows.
JobFails ==
    /\ jpc # "idle"
    /\ Fault
    /\ \E P \in IF jpc = "scan" THEN NextFiles \cup {{}} ELSE {{}} :
          Build([p \in Paths |-> IF p \in P THEN None ELSE Target[p]])
    /\ EndJob("failed")
    /\ UNCHANGED <<serverVars, posts, crashes, jobs>>
    /\ lost' = lost \cup Missed'

-----------------------------------------------------------------------------

ServerNext ==
    \/ \E r \in Requests : \/ Server(PostBatch(r) \/ RequestStep(r), {})
                           \/ HandlerFails(r)
    \/ Server(WorkerStep \/ MarkFails(Worker), {})
    \/ GroupInterrupted
    \/ Restart

Thread ==
    \/ Prepare \/ ListRecords \/ Survey \/ EndScan \/ Activate \/ MarkAll
    \/ Finish
    \/ \E P \in NextFiles : IndexFiles(P) \/ SkipFiles(P)
    \/ \E p \in gone : DeleteRows(p)

JobNext ==
    \/ ServerNext
    \/ \E kind \in Kinds : StartJob(kind) \/ LaunchFails(kind)
    \/ RetryJob
    \/ Control("running", "paused") \/ Control("paused", "running")
    \/ Thread
    \/ JobFails

JobSpec == JobInit /\ [][JobNext]_allVars

-----------------------------------------------------------------------------
(* Properties. *)

\* The values the job's variables take; the semantic index, active or staged,
\* holds no content that both the worker and the job are to leave out of it, and
\* the staged one none the job is to leave out.
JobTypeOK ==
    /\ recordRev \in [Paths -> Nat]
    /\ semantic \in [Paths -> Indexable \cup JobContents]
    /\ staging \in [Paths -> JobContents \cup {None}]
    /\ saved \in JobRecord /\ job \in JobRecord
    /\ jpc \in {"idle", "prepare", "list", "survey", "scan", "activate",
                "mark", "finish"}
    /\ listed \in [Paths -> Row]
    /\ todo \subseteq Paths /\ cutOff \subseteq Paths /\ gone \subseteq Paths
    /\ lost \subseteq Paths /\ calm \in BOOLEAN /\ jobs \in Nat

\* A path whose content the semantic index does not have has a newer change on
\* its way, or was lost in one of these ways: its batch failed after
\* apply_batch, its group was interrupted, the process restarted, or the job
\* wrote an older state over it, by a batch of files, a delete, or the swap.
RowsAccounted == Missed \subseteq lost

\* A job beside which nothing changed leaves each file as the snapshot has it,
\* whatever was lost before and also when it goes on with the staging directory
\* of one that was interrupted.  The exceptions are contents the job's policy
\* leaves out, files beyond the limit of a job in place, and files an unforced
\* job in place finds without rows and trusts the indexed revision for.  After a
\* job that built the index from nothing these have no rows at all.
JobRepairs ==
    jpc = "finish" /\ calm => \A p \in Paths :
        /\ \/ semantic[p] = snapshot[p]
           \/ snapshot[p] \in Contents \ JobContents
           \/ ~job.staged /\ p \in cutOff
           \/ ~job.staged /\ ~job.force /\ semantic[p] = None
        /\ Cleared => semantic[p] \in {snapshot[p], None}

\* No job starts while the thread of another is at work on the staging
\* directory and the active index.
OneRunner == [][jpc' = "prepare" /\ jpc # "prepare" => jpc = "idle"]_allVars

\* /sync/barrier: once the worker and the job are idle and the barrier is ready
\* for every revision handed out, a semantic search finds each file as it was
\* accepted.
SettledCurrent ==
    /\ jpc = "idle" /\ queue = <<>>
    /\ \A x \in Procs : pc[x] = "idle"
    /\ indexed >= accepted
    => Stale = {}
=============================================================================
