# OmniCode-MCP: a TLA+ verification project

OmniCode-MCP is a code intelligence service for AI editors. In its hybrid
mode the files live on a developer's machine and are searched in the cloud: an
agent pushes changed files in batches, the cloud records them in a snapshot
store, indexes them in the background, and tells the editor through revisions
and a barrier whether its answers are current. That protocol is the part of the
program where the order of steps, restarts and failing writes decide whether an
answer is right. This project models both halves of it, the index job that
rebuilds the semantic index beside it, and the patches with which files are
edited and rolled back.

## 1. Inventory

Only the components that keep state or decide something about it are described
here; `PROJECT.json` lists all of them with the reason for what is left out.

### Cloud half of sync

* **Sync router** (`api/v1/routers/sync.py`). Keeps one `_SyncWorkspaceState`
  per workspace in the process: `accepted_revision`, `indexed_revision`, the
  rows of the files (`files`), `deleted_paths`, the flags `is_indexing` and
  `index_worker_running`, `index_queue_depth` and `last_index_error`; one
  `asyncio.Queue` and one index worker per event loop.
  Operations: `push_sync_batch`, `sync_status` (which may run
  `_recover_stalled_index_update`), `sync_barrier`, the worker
  (`_index_worker`, `_coalesce_index_jobs`, `_run_index_update_blocking`).
  *Hard:* the handlers are coroutines that interleave at every await; the
  state's lock is held in two separate sections of a batch; threads write to
  disk meanwhile; the queue may be full; probes time out; the process restarts.
  *Correct when* revisions advance, a revision reported as indexed is indexed,
  a barrier that is ready means that a search sees what was acknowledged,
  and every accepted revision is indexed in the end.
* **Snapshot store** (`omnicode_core/workspace/snapshot_store.py`). Keeps
  `index.json` (revisions and a record per path), `status.json` (a summary that
  `status()` trusts when it exists), objects and a mirror of the workspace.
  Operations: `apply_batch`, `mark_indexed`, `status`, `file_hashes`, `upsert`,
  `delete`. *Hard:* two files are replaced one after the other; the lock belongs
  to an instance of the store and other parts of the service make their own, so
  that two of them may write one temporary file.
  *Correct when* what a restart loads never goes back, and
  `indexed_revision <= accepted_revision`.
* **Snapshot exact index** (`omnicode_core/workspace/exact_index.py`). A SQLite
  table of contents with a revision. `update_batch` is one transaction.
  *Correct when* an acknowledged file is found as acknowledged.
* **Semantic bootstrap** (`api/v1/routers/search.py`). A background job that
  lists the store's records, builds the semantic index from them, in place or in
  a staging directory that then replaces the active index, and marks the
  accepted revision indexed with a store instance of its own. Keeps
  `_SNAPSHOT_INDEX_JOBS` in the process, a JSON record of the job on disk, and
  the staging directory. Operations: start, pause, resume, retry, and the thread
  (`_run_snapshot_index_blocking`). *Hard:* it races the router's batches and the
  index worker; it is paused at a progress report only; it is interrupted by a
  restart and retried from its record. *Correct when* a job that runs undisturbed
  leaves a current index, and no content goes missing beside a job.
* **Readiness contract, semantic index policy**
  (`omnicode_core/workspace/readiness.py`, `semantic_index_policy.py`). Pure
  decisions on the status payload and on a file.

### Local half of sync

* **Manifest and sync queue** (`omnicode_core/workspace/manifest.py`,
  `sync_queue.py`). `manifest.json` records the hash of each file, local and
  accepted revisions and the list of pending changes; the queue makes batches of
  that list.
* **Agent client and watcher** (`omnicode_adapters/agent/`). The watcher collects
  file events into bursts; for each burst the client first flushes the pending
  list, then pushes the modified paths in chunks and deletes the deleted ones,
  with retries, and records what was accepted or failed. It starts with a sync
  of all files.
* **Sync client** (`sync_client.py`) and the MCP tools that edit files. After a
  patch, `_mark_local_sync_pending` marks the path in the manifest and pushes on
  its own, in another process than the agent's.
  *Hard:* the manifest is a file that two processes load, change and save through
  one temporary file, without a lock;
  answers get lost, come late, and the post is repeated; a file is edited
  between its entry in the manifest and the reading of its content.
  *Correct when* no change is forgotten, and the pending list drains once the
  edits stop.

### Edits, credentials, limits

* **Patch manager** (`omnicode_core/edit/patch.py`), used by the server's routers
  and by the local MCP tool on the same directory `.data`. Keeps a snapshot and a
  session file per patch and a baseline per preview. Operations: `preview_patch`,
  `apply_patch` (read, snapshot, write, session record, in this order) and
  `rollback_patch`. *Hard:* two processes and the user change the same file
  between its steps; it may break off at any of them.
  **Idempotency store** (`omnicode_core/observability/idempotency.py`): a lookup
  and a store with the patch between them. *Correct when* a rollback restores
  what its patch replaced, no edit of the user disappears unnoticed, and a key
  applies its patch once.
* **Key rotation** (`omnicode_core/auth/rotation.py`): re-encrypts the rows of a
  database and replaces the key file. *Correct when* a stop at any point leaves
  every row readable with some key at hand.
* **Rate limiter, log broker**: bounded tables with eviction.
* **The rest** (AST engine, LSP bridge, language model router, ranking, git
  context, linters, front ends): mostly I/O, parsing and heuristics; no protocol
  worth a model.

### How the parts interact

The agent posts `/sync/batch`. The router reads the hashes recorded in the
store, computes a revision under the state's lock, releases the lock, hands
`apply_batch` and then the exact index's `update_batch` to threads, takes the
lock again to commit the process state and puts a job in the queue. The worker
drains the queue, coalesces jobs into groups, updates the graph and the semantic
index in a thread, calls `mark_indexed` in the store, and reports the revision
in the process state. Status requests merge the store's revisions into the
process state and, when the indexed revision is behind and the worker seems
idle, index the rows the process remembers themselves. An index job lists the
store, writes the index the worker writes too (or replaces it), and marks the
accepted revision in the store and in the router's process state
(`record_external_indexed_revision`). The agent, the MCP tool and the user share
the files of the workspace, and the first two `manifest.json`.

## 2. Modules

| module | what it is |
|---|---|
| `WorkspaceTree` | the files of a workspace and what a batch does to them; shared by the others |
| `SyncServer` | the cloud half for one workspace: router, worker, recovery, store, exact and semantic index |
| `MCSyncServer` | the batches of the small instances |
| `SyncServer_proofs` | type correctness, the inductive invariant and what follows from it |
| `SyncClient_proofs` | what the server promises a client that sends one batch at a time |
| `AtomicStore` | what the snapshot store promises: batches and marks in one step, reports that lag |
| `SnapshotStore` | the store by its reads, writes and replacements of files, called through several instances |
| `MCSnapshotStore` | the changes and the instances of the small instances |
| `SnapshotStore_proofs` | the refinement of `AtomicStore`, and what is true of several instances |
| `SemanticJob` | the index job beside the sync server; extends `SyncServer` and composes its steps with the job's |
| `MCSemanticJob` | the batches and the kinds of job of the small instances |
| `SemanticJob_proofs` | type correctness of the job, its repairs, and that no row goes missing unnamed |
| `SyncAgent` | the local half: watcher, agent, manifest, queue, and the tool that pushes its own patches |
| `MCSyncAgent` | the texts and the symmetry of the small instance |
| `SyncAgent_proofs` | type correctness, the inductive invariant of `SyncAgent` and what follows from it |
| `SyncDrain_proofs` | how many bursts the agent needs to empty its pending list |
| `Patches` | preview, apply, rollback and the idempotency keys, by two processes beside the user |
| `MCPatches` | the contents and the patch of the small instance |
| `Patches_proofs` | the inductive invariant of `Patches` and its seven properties |

The modules split the system where its parts meet through little. `SemanticJob`
is the whole cloud half: every step of `SyncServer` (without status requests)
interleaved with those of the job, over the same store, index and process state.
`SyncAgent` sees the cloud as one step per post, `Receive`, which is what a batch
amounts to once `SyncServer` has worked through it; in return it has a network
that loses, repeats and delays. `Patches` meets the sync only in the files it
writes, which for `SyncAgent` are edits (`ToolWrite`).

`SyncServer` uses the store at the grain its handlers can observe: the two
replacements. `SnapshotStore` looks inside them, and shows under which condition
(one instance of the store per process) the coarser grain is right.

### SyncServer and the code

Processes: each of `Requests` is a `/sync/batch` handler that may be in flight,
each of `Pollers` a `/sync/status` or `/sync/barrier` handler, `Worker` the
index worker. `pc` is where a process stands, `body`, `work`, `rev` and `seen`
are its locals: the request's body, the changes in hand, the revision in hand,
and the revisions read from the store.

The grain of an action is the stretch of code between two awaits, because the
handlers share one event loop. What is handed to a thread is an action of its
own, and a save of the store is two: `index.json` is replaced (`ApplyBatch`,
`MarkIndexed`), then `status.json` (`SaveSummary`), with the store's lock held
in between. `Crash` may come after any action; it resets everything but the
files of the store and the indexes.

| code | model |
|---|---|
| `_SyncWorkspaceState` | `accepted`, `indexed`, `files`, `deleted`, `loaded`, `depth`, `running`, `indexing`, `failed` |
| `index.json`, `status.json` | `snapshot`, `storeAccepted`, `storeIndexed`; `summary` |
| exact and semantic index | `exact`, `exactRevision`; `semantic` |
| queue, drained jobs, worker task | `queue`, `drained`, `started` |
| `push_sync_batch` | `PostBatch`, `ReadStatus`, `MergeStatus`, `ReadHashes`, `Reserve`, `ApplyBatch`, `SaveSummary`, `UpdateExact`, `Commit`, `PutJob`, `Answer`, `BatchFails` |
| `_coalesce_index_jobs` | `Fits`, `IsGroup`, `GroupChange` |
| `_index_worker`, `_run_index_update_blocking` | `TakeJobs`, `UpdateSemantic`, `InterruptSemantic`, `MarkIndexed`, `MarkFails`, `FinishGroup`, `FailGroup` |
| `sync_status`, `_recover_stalled_index_update`, `sync_barrier` | `Poll`, `CheckPasses`, `Recover`, `FinishRecovery`, `FailRecovery`, `SkipProbe`, `AnswerStatus` |

What is abstracted:

* A content stands for its hash, a path is a model value, and a workspace is the
  only one: the code's maps are per workspace and do not interact.
* `SemanticContents` are the contents `semantic_index_decision` includes.
  Contents it leaves out reach the store and the exact index, not the semantic
  one.
* The limits on a coalesced group (files and bytes) are one limit, `ChunkMax`,
  on the number of files. Coalescing is stated as what a group *is* (the last
  included content of each path, the paths left deleted), not as the fold that
  computes it.
* The semantic updates of one group are one action. When an error or an
  unavailable engine stops them, `InterruptSemantic` leaves any prefix done;
  an unavailable engine counts against the bound on faults.
* Graph updates, coverage labels, counters and timings are left out: graph
  errors are swallowed, and none of them influences a revision.
* A batch does not name one path both as a file and as deleted.

### SnapshotStore and the code

Processes: `Threads` that call `apply_batch` (those in `Writers`),
`mark_indexed` or `status` through the instance `StoreOf` names. Each instance
has a lock of its own: `CloudSnapshotStore` keeps its locks per workspace in a
field, `sync.py` has one module-level instance, and the search router makes
another for every indexing job.

| code | model |
|---|---|
| `index.json`, `index.json.tmp`, `status.json` | `index`, `indexTmp`, `summary` |
| objects directory, mirror directory | `objects`, `mirror` |
| `_workspace_locks` | `lock` |
| the locals of a call | `pc`, `change`, `revision`, `todo`, `loaded` |
| the file `write_text` has open, and who else writes to it | `handle`, `mixed` |
| `apply_batch` | `ApplyBatch`, `WriteFile`, `DeleteFile`, `OpenIndex`, `FlushIndex`, `FillIndex`, `ReplaceIndex`, `SaveSummary`, `Fails` |
| `mark_indexed` | `MarkIndexed`, then the last six |
| `status` | `Status` |

Three variables are history: `seen` is what each thread was last told,
`recorded` what the batches that took effect amount to, and `cut` the paths of
batches that were cut off.

`index.json.tmp` is one file for all instances. `OpenIndex` empties it; while a
call fills it, any part of its text may be on disk (`FlushIndex`), which is
`Torn`, a text that `json.loads` refuses; `FillIndex` closes it. When a second
instance opens the file in the meantime, both write to it, and it is left with what
one of them wrote, with records and revisions of several (`Blends`), or torn. A
replacement moves the file whatever is in it, and a call that has it open goes on
writing to what is now `index.json` (`handle`), as on POSIX. A torn `index.json`
makes every later call raise. What is abstracted:

* A file of a batch is one action, from its object to its record in memory;
  `Fails` stops it in between. The files of a batch are written in any order.
* `status.json` is replaced in one step, without its temporary file: two instances
  can collide there as they do on `index.json.tmp`. What is said of `status.json`
  is said of one instance. The object's temporary file is left out too, since two
  writers of one hash write the same bytes.
* Writers of one file leave whole values or a torn file: a text that happens to
  parse and that no combination of the written records gives is not a state.
* Tombstones and coverage labels of the index are left out: no revision and no
  content depends on them. `upsert` and `delete` are called by tests only.
* A call that is refused (a mark above the accepted revision) changes nothing and is
  not an action of its own.

### SemanticJob and the code

The server's processes are those of `SyncServer`; `jpc` is where the job's thread
stands.

| code | model |
|---|---|
| `_SNAPSHOT_INDEX_JOBS`, the record of the job on disk | `job`, `saved` |
| staging directory, active semantic index | `staging`, `semantic` |
| the revision of each record in `index.json` | `recordRev` |
| the listed records, what is left to index and to delete | `listed`, `todo`, `gone` |
| start, retry, pause, resume | `StartJob`, `RetryJob`, `LaunchFails`, `Control` |
| preparing the staging directory, or the reset | `Prepare` |
| `list_records`; hashes of the rows, `trust_revision_watermark`, deleted paths | `ListRecords`, `Survey` |
| `flush_batch`, `delete_file_index` | `IndexFiles`, `SkipFiles`, `DeleteRows` |
| the last progress report, `replace_semantic_index_from` | `EndScan`, `Activate` |
| `mark_indexed`, `record_external_indexed_revision` | `MarkAll` |
| end of the thread, an error, a restart of the process | `Finish`, `JobFails`, `Restart` |

The worker and the job ask `semantic_index_decision` with different phases. Under
the default test mode the job (`semantic_full_bootstrap`) leaves out tests that
the worker takes, and the worker leaves out in an initial sync what the job takes;
`SemanticContents` is the worker's answer and `JobContents` the job's. A run in place
with scope `exact_policy` takes at most `semantic_selected_file_limit()` files
(`SelectedLimit`, `Selections`); which ones depends on the order of the records, any
of them here, and `cutOff` are the rest.

`lost` is history: the paths whose newest content missed the semantic index, and
why is fixed by the action that adds them. `calm` says that only the job has
changed anything since it began. What is abstracted:

* The store's steps of the job and of the server take turns. What happens when
  they overlap is `SnapshotStore` with two instances.
* An index request that is no job runs in the request; it is a job of the kind
  that works in place. It never runs beside a job here.
* A batch of files is one step of the index. A stop inside one leaves the
  batch without rows (`JobFails`); a stop between the commit of the row table
  and the save of the vectors, or between the two renames of the swap, is left
  out.
* The batches of one behaviour have one phase: `SemanticContents` does not change.
* A staged job with `force` is the same as one without: a new staging directory is
  empty.
* `LaunchFails` is the code as it is: the job is entered before its record is
  written, and when that fails it stays "running" without a thread until the
  process restarts.

### SyncAgent and the code

Processes: the user, the watcher's thread (the agent), the MCP tool, and posts
that were given up and still arrive.

| code | model |
|---|---|
| the files; file events not yet in a burst; the watch loop | `disk`; `events`; `watching` |
| `manifest.json` | `manifest`: `files`, `pending`, `local`, `accepted`; `unreadable` when it is torn |
| the copies that agent and tool load and save; where the file is that each has open | `own`, `copy`; `handle` |
| what the cloud has accepted | `cloud`, `accepted` |
| the burst loop of the watcher | `TakeBurst`, `EndBurst` |
| `_sync_burst` | `CallPush`, `CallDelete` |
| `flush_pending`, `SyncQueue.next_batch` | `FlushFirst`, `FlushBatch`, `EndFlush`, `NextBatch` |
| `push_batch`, `delete_file` of the agent | `SendChunk`, `SendDelete`, `EndCall` |
| `_post` with its retries | `PostAnswered`, `PostUnanswered`, `PostFails` |
| `_record_manifest_ack`, `_record_manifest_failure` | `RecordManifestAck`; `LoadManifest`, `RecordManifestFailure`; `LeaveUnrecorded` |
| `LocalManifest.save`, by the agent and by the tool | `BeginSave`, `SaveManifest`, `SaveCollides`; `ToolBeginSave`, `ToolSave`; `WriteThrough` |
| `LocalManifest.mark_changed` | `Changed`, `MarkChanged` |
| the tool's `_mark_local_sync_pending` | `ToolWrite`, `ToolLoad`, `ToolMark`, `ToolBeginSave`, `ToolSave`, `ToolPostAnswered`, `ToolPostFails`, `ToolAck` |
| start of the agent and the initial sync | `Restart` |

The agent and the tool are two processes. Each loads `manifest.json`, changes its
copy and saves it, and nothing keeps one from saving between the other's load and
save: what the other recorded in between is overwritten. The save itself is two
steps, the opening of `manifest.json.tmp`, which both share, and its replacement
(`ReplaceBy`). When both have the file open, it holds the manifest of one of them or
is torn, the second replacement finds no file and raises, and the one that still has it
open writes on through what is now `manifest.json` (`WriteThrough`). An exception
in the tool's save ends the tool; one in the agent's leaves `watcher.run` and ends
the agent, which is started again (`SaveCollides`). A torn manifest cannot be loaded:
then the agent records nothing and the tool gives up before it posts.

`adrift` and `quiet` are history: the paths on which the agent has lost its
grip, which each action that lets go of one names, and the number of bursts
since anything disturbed the agent. What is abstracted:

* A content stands for the hash of its bytes; `TextOf` is what decoding and
  newline conversion leave of it, and is what is posted. `next_batch` decodes the
  bytes without converting newlines: of a file with CR LF its text has the hash that
  was recorded, and the cloud accepts an entry that the model refuses. No run has
  such a file, and `AllTextual` leaves it out of the theorem about the pending list.
* POSIX semantics: a file stays open when it is moved or replaced. What is left of two
  writes into one file at once is one of the two manifests, or counts as torn.
* `flush_pending` loads the manifest and puts its batch together in one step, as
  `_record_manifest_ack` loads and changes its copy: the files it reads in between
  may change before or after as well.
* The agent is not stopped inside its save: without a save of the tool, a stop
  before the replacement is one before the save.
* Batches limited by bytes are batches of fewer entries.
* The agent sends a `client_revision` one above an accepted revision it was told,
  which is never above the cloud's next one; it is left out. The tool's is its
  local revision, which may be, and is kept.
* Ignored and oversized files, the polling fallback of the watcher, `push_file`,
  which only a script calls, and the cap on the initial sync are left out.
* At most one post is on its way after its sender has given it up.

### Patches and the code

Processes: the server (its handlers await nothing inside a patch, so there is one
operation at a time), the local tool, and the user.

| code | model |
|---|---|
| the files | `disk` |
| `.data/snapshots`, `.data/edit_sessions`, `.data/patch_previews` | `snaps`, `sessions`, `baselines` |
| `.data/idempotency.db` | `cached` |
| `preview_patch` | `Preview` |
| `IdempotencyStore.lookup` with its pruning and its errors; `store` | `Lookup`, `LookupFails`, `Expire`; `AnswerApply` |
| `apply_patch` | `Ask`, `Read`, `TakeSnapshot`, `WriteFile`, `SaveSession`, `DropBaseline`, `AnswerApply`, in the order `ApplyOrder` |
| `rollback_patch` | `AskRollback`, `RestoreFile`, `MarkRolledBack` |
| what the tool does for a file that was new | `Stat`, `Unlink` |
| a write that fails, a process that dies | `Break` |

The other variables are history: what each patch has overwritten, who wrote a
file last, which sessions and edits were overtaken (`raced`, `lost`), how often a
key applied its patch. What is abstracted:

* A write of a file is one step; one that breaks off leaves a file cut short,
  for which `Empty` stands. `TextOf` is what reading a file leaves of its bytes:
  those that cannot be decoded are dropped (`errors="ignore"`).
* `validate_patch`'s temporary file, `explain_patch` and the lists are left out.
  The file routes that write and create go through `apply_patch` and are an
  apply without a preview.

The model keeps what the code does even where a reader may expect more: a
rollback does not compare the file with what the patch wrote; a new file is
left empty by the server's rollback and removed by the tool's, which also
removes one that was empty before; a baseline belongs to a path and a content and
not to a client; a replay under a key answers "applied" after the patch was
rolled back; and an apply that breaks off between the write and the session
record leaves a patched file without a session, although its snapshot exists.

## 3. Runs

| run | question | result |
|---|---|---|
| `sync_serial` | one client, a lagging worker, nothing failing: is the barrier right? | holds |
| `sync_concurrent` | two batches, a status request, a failing write, a restart: is any revision lost? | holds |
| `sync_recovery` | a failing write and a restart: are revisions fresh, and does the system settle? | holds |
| `sync_poll_in_batch` | is the barrier right when a status request comes in the middle of a batch? | violated |
| `sync_two_batches` | does the accepted revision only advance with two batches in flight? | violated |
| `store_one` | one instance: is the store atomic, with failing writes and restarts? | holds |
| `store_two` | two instances: can every record of an index that loads be read? | holds |
| `store_lost_update` | two instances: does accepted content stay? | violated |
| `agent_push` | agent, tool and user over a lossy network: is a change forgotten? | holds, but for the listed ways |
| `semantic_job` | jobs of every kind beside batches, failures and a restart: which content goes missing, and does a job repair it? | holds, but for the listed ways |
| `semantic_job_swap` | is a barrier right after a staged job ran beside a batch? | violated |
| `patches` | server, tool and user on one file: what do a session, a preview and a key guarantee? | holds |

**`sync_serial`.** Two paths, two contents that are indexed and one that is not,
four batches out of five (a version of a file, another, an excluded one, a
deletion, two files at once), a queue of two jobs and groups of one file. Four
posts are what it takes to fill the queue while the worker holds drained jobs
and a handler waits in `queue.put`; groups of one file make the worker split a
drain into several groups, and a path that is deleted and brought back, or
changed to an excluded content, occurs within and across groups.
`BarrierCurrent`: when `indexed_revision >= accepted_revision` a semantic search
sees the acknowledged content. `ExactCurrent`: so does the exact index, at once.
`DepthCounts`: `index_queue_depth` and `index_worker_running` say what recovery
relies on. `EventuallyIndexed`: every accepted revision is reported indexed.

**`sync_concurrent`.** Two handlers with batches for one path (one of a client
two revisions ahead), one status request in a loop, one failing write, one
restart. `RestartSafe` and `DurableAdvances`: neither a restart nor a failure
takes back a revision that was reported, although two files are replaced in
turn. `StoreOrder`: neither file claims more indexed than accepted, and the
summary does not run ahead. `MarkNotRefused`: nobody calls `mark_indexed` with a
revision the store has not accepted. One path and two posts are enough because
these properties concern revisions: two handlers give every crossing of two
reservations, two applications and two commits.

**`sync_recovery`.** One client, a failing write, a restart, a status request in
a loop. `FreshRevision`: no batch gets a revision the exact index already
carries, even after a batch failed halfway or the process restarted.
`AcceptedAdvances`: `accepted_revision` does not go back while the process runs.
`Settles`: in the end the indexed revision reaches the accepted one, in the
process and on disk, and no flag or counter is left set.

**`store_one`.** Two threads, one instance, two paths, two contents, revisions 1 and 2
in any order. `StoreIsAtomic`: the store implements `AtomicStore`, whose steps are whole
batches and marks. `ReadingsAdvance`: what a thread is told never goes back, whether a
batch's answer, `status.json` or `index.json` told it. `IndexLoads`: `index.json` is a
whole file at every step, for a write that is cut short stays in the temporary file.
`MirrorFollows`: text search reads the mirror, and the mirror shows what `index.json`
records, but for paths being written and paths of a batch that was cut off. The last
exception is the code's: a failed batch leaves its files in the mirror, and a batch that
takes the edit back is filtered as unchanged, so that nothing repairs it.

**`store_two`.** One thread with the router's instance, one with that of an
indexing job, a failing write and a restart. `RecordsHaveObjects`: an object is
written before any index that names it, so every record of an `index.json` that can be
loaded can be read, even though the instances overwrite each other's files and may
leave a blend of two. Every call raises while `index.json` is torn, and before there
is a `status.json` no status is answered either: this run may stop.

**`agent_push`.** Two paths, two contents, two edits (by the user or by a patch), one
trouble (a post without an answer or with an error, or a restart), the agent's limits at
two (two entries per batch, two batches per flush, two tries per post) and the tool's
batch at one entry. So a flush may leave entries behind, a chunk may split a burst, the
tool may post another entry than its own, and a late post may overtake newer ones; a
load or a save of the tool falls between any two steps of the agent. One trouble is
enough for each way in which a path is lost to happen; what two of them do to each other
is left to the theorems, which have no bound. `Accounted`: a file the cloud has
otherwise than the disk is in a burst, in hand, in a post of the agent, or pending,
unless it was lost in one of eight ways which the actions name: behind a flush that
failed, by a failure that `mark_changed` takes for recorded, by a failure that finds
`manifest.json` torn, by a delete sent for a file that is back, in a restart or the
initial sync, to a manifest that one of agent and tool saves over entries of the other
(or into the same file), by a post of the tool with older text, by a late post. So an
entry that the agent records between the tool's load and its save is erased, as in the
code, and `Accounted` holds because the save names the path (`Overwritten`). A batch of
the tool does not count as "in a post": the tool never repeats it, and what it carries
is pending as well. `PendingDrains`: after `CalmMax` undisturbed bursts nothing is
pending: one for each path, whose recorded hash may have to be corrected, and as many as
the paths fill flushes of `FlushMax` batches (three in this run). `RevisionsTrail`: the
manifest never claims a revision the cloud has not reached. Paths and contents are
interchangeable, so symmetry is sound for these invariants. In this run every content is
text: the entry of a file that is not text is refused by the cloud each time, and every
later flush fails behind it, which `PendingDrains` would show at once.

**`semantic_job`.** Two paths, a content that worker and job index and one that the
worker indexes and the job leaves out, two batches (both files; the deletion of one with
a version of the other that the job leaves out), a limit of one file for a job in place,
a fault, a restart, two jobs of three kinds, batches of one file. Two jobs are a job and
its retry, or a job that repairs what an earlier one lost. `RowsAccounted`: a path whose
content the index lacks has a change on its way, or was lost in one of the ways named.
`JobRepairs`: a job beside which nothing changed leaves each file as the snapshot has
it, whatever was lost before, but for contents its own policy leaves out, files beyond
the limit of a run in place, and, for an unforced run in place, files without rows,
since it trusts the indexed revision; after a job that built the index from nothing,
what it has not indexed has no rows at all. `OneRunner`: never two threads on the
staging directory, across pauses, failed starts and retries.

**`patches`.** One file, four contents (empty, two texts, bytes that decode to
one of them), one payload, two patches, one edit, one trouble; every apply of the
server has the same key. Two patches are the least for a replay, for a rollback of the
older of two sessions, and for two processes inside `apply_patch` on one file; with one
payload all previews meet at one baseline. `SessionsRestore`, `RollbackRestores`:
a session gives back what its patch overwrote. `EditsKept`: an edit of the user is
in the file or in a snapshot. `KeyAppliesOnce`, `AnswersHold`: a key applies its
patch once, and its stored answer names a session that can be loaded.
`PreviewGuards`: a patch overwrites what its preview showed. Each names the races
in which the code does not keep it, and these are reached.

**Fairness.** `LiveSpec` assumes that the event loop keeps running: weak
fairness for the steps of each handler and of the worker. Nothing makes a write
fail, a client post, or the process stop; these have no fairness. Recovery is
run by status requests only, so `Settles` needs clients that keep asking (weak
fairness of `Poll`; the agent and the editor's status tool poll). A status
is answered from a cache for a moment, and its probe of the store is cut off by
a timeout; strong fairness of the probe says that this does not happen
every time.

**Bounds.** `MaxPosts`, `MaxFaults` and `MaxCrashes` bound the behaviours,
`QueueMax` and `ChunkMax` are the code's own limits made small. In the store's
runs `MaxCalls` is three, two calls that cross and one that sees the result, with
one failing write and one restart; two paths let a batch be cut off between its
files, and one batch writes a path while it deletes the other.

### What the four violations show

* `sync_poll_in_batch`. A status request falls between `apply_batch` and
  the commit of a batch. It merges the store's accepted revision into the process
  state, sees the indexed revision behind, no queued job and an idle worker, and
  recovers with the rows of the process state, which the batch has not reached
  yet. It marks the batch's revision indexed with no files. The batch then commits
  and its job waits, while `/sync/barrier` is ready for its revision and a
  semantic search does not find the file, until the worker gets there.
  `docs/architecture.md:140-142` says that the barrier blocks analysis when
  the index is stale.
* `sync_two_batches`. The revision of a batch is computed under the lock and not
  reserved, and the commit assigns it. With two batches in flight the slower one
  with the lower revision takes `accepted_revision` of the process back; the
  comment at `sync.py:521-523` calls the advance monotonic.
* `store_lost_update`. An indexing job of the search router reads `index.json`
  with its own instance to mark a revision, the router's batch is written and
  answered, and the job replaces `index.json` by its copy, without the batch: its
  files and its revision are gone from disk. `docs/architecture.md:138-141` says
  that the snapshot store is what the accepted revisions are kept in. The same two
  instances can leave a torn index: the job has written `index.json.tmp`, the router
  opens it for its batch, which empties it, and the job moves it to `index.json`,
  which `_load_index` cannot parse. If the router's call then fails or stops, every
  later batch and mark raises. TLC finds this when `IndexLoads` is checked with the
  constants of this run.
* `semantic_job_swap`. A staged job lists the records. A newer version of a file is
  accepted and indexed. The job replaces the active index by its staging index
  (`search.py:1319`), with the older rows, and marks the accepted revision of
  that moment. The barrier is ready and a semantic search finds the old content,
  until the file changes again or another job runs. `docs/architecture.md:140-142`
  says that the barrier blocks analysis when the index is stale.

## 4. Proofs

`SyncServer_proofs` proves for all values of the constants, from
`ConstantsAssumption` alone (so for any number of handlers, paths, contents,
batches, failures and restarts):

| theorem | property |
|---|---|
| `TypeCorrect` | `TypeOK` |
| `IInvHolds` | `IInv`, the inductive invariant |
| `RestartsAreSafe` | `RestartSafe` |
| `StoreIsOrdered` | `StoreOrder` |
| `MarksAreAccepted` | `MarkNotRefused` |
| `DurableRevisionsAdvance` | `DurableAdvances` |

None of the three invariants is inductive by itself. `RestartSafe` is broken by
a step that copies a local into the process state, so `LocalsOK` bounds what each
process holds by what is on disk: by `index.json` while its save is not
complete, by what a restart would load afterwards. That is only kept because a
save cannot overlap another, so `LockOK` says that the lock is held exactly by the process
between the two replacements. `MarkNotRefused` needs `JobsOK`: the store has
accepted the revision of every job in the queue or drained. The argument has two
halves. `DiskNext` shows that no step lowers anything on disk, which keeps every
bound of a process that does not move (`RestartFrame`, `LocalFrame`,
`JobsFrame`). `SafeNext` then needs to look only at the process that moves, one
step per action.

`SyncClient_proofs` proves what `SyncServer` promises only under conditions, each
written as an assumption of its theorem. `OneClient` is one batch at a time (at most
one handler), `CleanBatches` that no batch names a path both as a file and as a
delete, `Undisturbed` that no write fails and the process is not restarted.
Everything else (paths, contents, batches, the limits of the queue and of a group)
stays arbitrary.

| theorem | property | holds for |
|---|---|---|
| `DepthIsCounted` | `DepthCounts` | any clients, faults and restarts, while no status request runs |
| `RevisionsAreFresh` | `FreshRevision` | one client, with faults, restarts and status requests |
| `AcceptedNeverDrops` | `AcceptedAdvances` | one client, with faults and restarts, and either no status requests or one client revision in every batch |
| `ExactAnswersForAcked` | `ExactCurrent` | one client with clean batches, undisturbed, with status requests |
| `BarrierAnswersForAcked` | `BarrierCurrent` | the same without status requests |

None of these conditions is there for the prover's sake: with any one of them dropped,
TLC finds the property violated on an instance with one path, two posts and at most one
failing write or restart. `DepthIsCounted` also assumes that there are finitely many
handlers, for the depth counts those that wait for room in the queue.

* A recovery sets the depth and the running flag to what it believes (`DepthCounts`),
  and marks a batch in flight indexed without its rows (`BarrierCurrent`, the run
  `sync_poll_in_batch`).
* Two handlers compute the same revision (`FreshRevision`), commit in the other order
  (`AcceptedAdvances`, the run `sync_two_batches`), and apply and index their batches
  in different orders (`ExactCurrent`, `BarrierCurrent`).
* A batch that fails, or is cut off by a restart, after `apply_batch` has its hashes
  recorded; when it is sent again, its files are filtered as unchanged, and the
  answer acknowledges what neither index has.
* The exact index deletes first and writes then, the store the other way round.
* A batch from a client at revision 2 fails after the store has taken it; the next
  batch, from a client at revision 0, gets revision 1, a status request merges 2 from
  the store meanwhile, and the commit takes the process back to 1. With the same client
  revision in every batch the store is ahead by one batch at most (`AheadBy`), and the next
  batch reaches past it. (The server takes the larger of its own next revision and the
  client's, so the revision 0 stands for every client at or behind the server.)

`DepthOK` is `DepthCounts` and that an idle worker has drained nothing. `FreshOK` bounds
the revision of the exact index by the accepted revision, by the batch's own from the
moment it has one, and after a restart by what the process reads before it can reserve
a revision. `AheadOK` says that the revision a handler carries is not below the accepted
one until its commit.

`ExactOK` follows one batch through its handler: before `apply` what the handler carries
is what the body changes of the snapshot (`DeltaOK`: the files left out are recorded
with the same content), between `apply` and `exact` the snapshot is ahead by just that,
and afterwards the two agree. `BarrierOK` does the same for the semantic index with the
whole way of a change: `RevsOK` says that the revisions in the queue, of the drained
jobs and of the group being indexed rise and are all beyond the store's indexed one
(`Rising`, `Above`), so a barrier that is ready means that nothing is on its way; and
`AckedRows` that what is on its way leaves the semantic index, in the end, with the
content that was acknowledged (`Leaves`). Each step of the worker keeps `Leaves`
(`WayWorker`): taking jobs as one group needs that the group has what the last of its
jobs has (`GroupLeaves`, from `GroupChange`), writing the group that its files and its
deletes name different paths (`GroupOK`).

`SnapshotStore_proofs` proves, from `StoreAssumption` and `MissingAssumption`:

| theorem | property |
|---|---|
| `TypesAndObjects` | `TypeOK` and `ObjectsOK`, for any number of instances |
| `RecordsAreReadable` | `RecordsHaveObjects`, for any number of instances |
| `CallsAreAlone` | `LockOK` and `CallsOK`, for one instance |
| `IndexAlwaysLoads` | `IndexLoads`, for one instance |
| `StoreImplementsAtomic` | `StoreIsAtomic`, for one instance |
| `ReadingsNeverGoBack` | `ReadingsAdvance`, for one instance |
| `MirrorIsCurrent` | `MirrorFollows`, for one instance |

The theorems for one instance have `OneInstance` as an assumption, which
`store_lost_update` shows to be needed. `RecordsHaveObjects` is about an `index.json`
that loads; `ObjectsOK` says the same of the temporary file, of every copy in memory and
of what other calls write into the same file (`mixed`), any of which may become part of
`index.json`. A blend of indexes whose records have objects is one as well. For one
instance, `CallsOK` has that the temporary file of a call that is about to replace is
what the call wrote, so `index.json` always loads. The refinement needs `CallsOK`: the
copy a call works on is `index.json` with the part of the batch it has dealt with, which
holds because the caller is alone with the lock (`LockOK`). Then only `ReplaceIndex`
changes the abstract store, by a whole batch or mark, and `SaveSummary` publishes it.
`ReportOK` orders what a thread was told, what `status` reports and what is on disk.
`MirrorIsCurrent` needs to know where a batch is (`MirrorCalls`): the paths whose mirror
is ahead are those the batch has dealt with and not yet recorded, or they are in `cut`.

`Patches_proofs` proves, from `PatchAssumption`:

| theorem | property |
|---|---|
| `Types` | `TypeOK` |
| `Restoring` | `SessionsRestore` |
| `Keeping` | `EditsKept` |
| `RollingBack` | `RollbackRestores` |
| `Once` | `KeyAppliesOnce` |
| `Answering` | `AnswersHold` |
| `Guarding` | `PreviewGuards` |

The inductive invariant `IInv` says where an operation can be and what it
carries (`OpsOK`), that two applies under way have different ids (`IdsOK`: an id
is the length of `patches`, which only grows), what an apply and a rollback have
established at each step (`AppliesOK`, `RestoresOK`), what is on disk for every
session (`SessionsOK`: sessions never become "none" again and a snapshot does not
change once taken), and how often a key can still apply its patch (`KeysOK`: a
request that is under way or a stored answer, or the key is in `unsure`). The
proof has a lemma per action; `Frames` and `Parts` carry the conjuncts that an
action's process does not touch. `PreviewGuards` follows from `AppliesOK`, which ties
the baseline to the text an apply has read.

`SyncAgent_proofs` proves, from `AgentAssumption` (finitely many paths; the text of
a text is itself; positive limits):

| theorem | property |
|---|---|
| `AgentTypes` | `TypeOK` |
| `NothingForgotten` | `Accounted` |
| `ManifestTrailsCloud` | `RevisionsTrail` |

`Accounted` is not inductive. An acknowledgement takes the paths of a message out of the
pending list, so the message must have carried what the disk holds, or a newer change
must be on its way (`PostOK`); what a message carries comes from the pending list, so a
pending delete of a file that is there must be about to be corrected (`PendingOK`); what
a push skips because the file is gone must be about to be deleted (`BurstOK`, from
`EventsOK`: the watcher saw the removal); and a failure leaves an entry alone when the
manifest has the hash of the disk already, so entries and manifest must agree
(`FilesOK`). `ControlOK` says where the agent and the tool can be, and `RevisionsOK`
bounds the revisions that are kept anywhere. The last conjuncts (`PendingOK`, `PostOK`
and `Accounted` itself) are shown together, action by action, path by path (`Now`,
`Later` turn the sets into quantifiers). What is known of the pending list
(`WithoutFacts`) is an induction over its length, written with the least element of a
set of naturals. Two entries of `adrift` come from the proof rather than from the run: a
pending delete of a file that has come back since, saved again by the tool's copy of the
manifest or left behind a flush that failed. Either needs more edits than the run has.

The copy that a process is going to save (`own`, `copy`) is not `manifest.json`. The
invariant therefore speaks of both: `OwnOK` says of the agent's copy that, once it is
saved, what the message carried is dealt with or pending, until then `Named(msg)` stays
in sight; and a save puts into `adrift` whatever was pending in
`manifest.json` and is not in what was saved (`Overwritten`). So the theorem names
each entry that one process erases, and claims nothing for it.

`SyncDrain_proofs` proves, on top of it:

| theorem | property |
|---|---|
| `PendingListDrains` | `PendingDrains`, when every file is text |

The pending list need not get shorter with a burst. A flush posts up to `FlushMax`
batches, and a byte limit may leave a batch with one entry; a batch with one stale hash
is refused, ends the flush, and only corrects the entry. So the proof keeps accounts:
the agent owes `FlushMax` for each pending file whose recorded hash is not the disk's
(`StaleIn`) and one for each pending path. An accepted batch takes at least one path off
the debt (`AckPays`), a refused one at least one stale hash (`FailurePays`), for a batch
of the list is refused for nothing else (`BatchOfList`). While the agent saves, the
manifest that counts is the one it is going to save (`Current`). `Within` says that each
burst since the last disturbance has paid `FlushMax`, the present one as much as it has
flushed, unless nothing was pending; `CalmPays` is the arithmetic that `CalmMax` bursts
pay for the largest debt. The hypothesis that files are text (`AllTextual`) is needed:
what is read of another file never has the hash that was recorded, so its entry never
leaves the list. TLC refutes `PendingDrains` in `agent_push` when two contents have the
same text.

`SemanticJob_proofs` proves, from `ConstantsAssumption` and `JobAssumption`, on top
of the types of `SyncServer_proofs` and the lemmas of `SyncClient_proofs` about
groups and what is on its way:

| theorem | property |
|---|---|
| `JobTypeCorrect` | `JobTypeOK` |
| `OneThread` | `OneRunner` |
| `JobsRepair` | `JobRepairs` |
| `RowsAreAccounted` | `RowsAccounted`, for one client whose batches name a path once |

`OneThread` rests on `Busy`: while a thread is at work, the job the process reports
is running or paused, which is what the start and the retry look for. `RepairOK`
says for each phase what a calm job has achieved: after `list` the records are the
snapshot's, during the scan the index under construction is right but for the paths
still to do, those in `cutOff`, and contents the job's policy leaves out
(`SurveyFinds`: whatever the survey passes over is right already, or its
revision was trusted), and the swap carries this over. `RowsAccounted` asks that
*some* newest change brings the content; `RowsOK` says more, namely that the newest
change on its way to a path that is not lost brings what the snapshot has, and that
without one the rows are right. That is kept when a change joins the queue
(`LeavesAppended`), when the worker writes one (`LeavesWritten`) and when it takes
several as a group (`GroupLeaves`: the group has what the last of its jobs has). It
needs one client, since two handlers may apply their batches in one order and queue
them in the other, and clean batches, since the store and the worker would otherwise
disagree on a path that is written and deleted at once.

Model-checked only: the two liveness properties, `EventuallyIndexed` and `Settles`,
since the prover does not reason about fairness. `SyncAgent` has no liveness property:
`PendingDrains` is the safety form of "the pending list drains", with the number
of bursts it takes.

## 5. Plan

1. `KeyRotation`: rotation with a stop at every step. `rotation.py` replaces the key
   file and then writes the rows back; its docstring promises that the original
   key is restored on any error.
2. `SyncAlgorithms`: coalescing as the code's fold against `GroupChange`, the
   coverage labels of the semantic policy, the readiness contract, the rate
   limiter's eviction; checked on bounded inputs.

## 6. Not modelled

Most of the source, by lines, is not protocol: parsers, language server
bridges, graph and ranking heuristics, language model clients, editing
pipelines, tool descriptions and front ends. `PROJECT.json` lists them with the
reasons. In particular:

* the graph index: its updates run beside the semantic ones, their errors are
  swallowed, and no revision depends on it;
* the readiness contract and the tool router: pure decisions on a status;
* the audit log, metrics and the log broker: append-only, nothing depends on them;
* providers, users and migrations: single SQLite transactions;
* several workspaces or event loops in one process: the state is per workspace.
