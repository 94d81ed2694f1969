---------------------------- MODULE SnapshotStore ----------------------------
(***************************************************************************)
(* CloudSnapshotStore (omnicode_core/workspace/snapshot_store.py) for one  *)
(* workspace: index.json and status.json, each written to a temporary file *)
(* that then replaces it, the objects, and the mirror of the workspace.    *)
(*                                                                         *)
(* Threads call the store through instances of it, each of which has a     *)
(* lock of its own for the workspace.  The sync router keeps one instance; *)
(* the search router makes another for each indexing job.                  *)
(*                                                                         *)
(* write_text empties index.json.tmp when it opens it and fills it through *)
(* its handle, which stays with the file when another instance moves it to *)
(* index.json in between (as on POSIX).  status.json and the objects are   *)
(* written in one step: what is said of them is said of one instance, or   *)
(* of objects, which one instance writes.                                  *)
(***************************************************************************)
EXTENDS WorkspaceTree

CONSTANTS
    Changes,     \* what a batch may change
    Revisions,   \* revisions batches and indexers come with
    Threads,     \* threads that call the store
    Writers,     \* those that call apply_batch
    Instances,   \* CloudSnapshotStore objects
    StoreOf,     \* the instance each thread calls
    Free,        \* nobody holds the lock of an instance
    Missing,     \* index.json.tmp is not there
    Torn,        \* a file that json.loads refuses
    MaxCalls,    \* bound: calls in a behaviour
    MaxFaults,   \* bound: failing writes in a behaviour
    MaxCrashes   \* bound: restarts of the process

ASSUME StoreAssumption ==
    /\ None \notin Contents
    /\ Changes \subseteq Change /\ Revisions \subseteq Nat
    /\ Writers \subseteq Threads
    /\ StoreOf \in [Threads -> Instances]
    /\ Free \notin Threads
    /\ MaxCalls \in Nat /\ MaxFaults \in Nat /\ MaxCrashes \in Nat

\* What index.json holds, and what status() returns.
Index == [files : Tree, accepted : Nat, indexed : Nat]
EmptyIndex == [files |-> NoFiles, accepted |-> 0, indexed |-> 0]
RevisionPair == [accepted : Nat, indexed : Nat]
NoRevisions == [accepted |-> 0, indexed |-> 0]
ASSUME MissingAssumption ==
    Missing \notin Index /\ Torn \notin Index /\ Missing # Torn

VARIABLES
    \* On disk.
    index,      \* index.json
    indexTmp,   \* index.json.tmp
    summary,    \* status.json: the revisions, once it is written
    objects,    \* the contents that have an object file
    mirror,     \* the mirror of the workspace
    \* In the process.
    lock,       \* of each instance: the thread that holds it
    pc, change, revision, todo, loaded,  \* the call of each thread
    handle,     \* the name of the file that write_text of each thread fills:
                \* "tmp", "index", "gone" once replaced, "none" if not open
    mixed,      \* what other threads write to that file at the same time
    \* Bounds and history.
    seen,       \* the revisions the store last gave each thread
    recorded,   \* the content of each path after the batches so far
    cut,        \* paths named by a batch that was cut off, and by none since
    calls, faults, crashes

disk == <<index, indexTmp, summary, objects, mirror>>
locals == <<pc, change, revision, todo, loaded, handle, mixed>>
history == <<seen, recorded, cut>>
bounds == <<calls, faults, crashes>>
vars == <<index, indexTmp, summary, objects, mirror, lock, pc, change, revision,
          todo, loaded, handle, mixed, seen, recorded, cut, calls, faults,
          crashes>>

Init ==
    /\ index = EmptyIndex /\ indexTmp = Missing
    /\ summary = [written |-> FALSE, accepted |-> 0, indexed |-> 0]
    /\ objects = {} /\ mirror = NoFiles
    /\ lock = [s \in Instances |-> Free]
    /\ pc = [t \in Threads |-> "idle"]
    /\ change = [t \in Threads |-> NoChange]
    /\ revision = [t \in Threads |-> 0]
    /\ todo = [t \in Threads |-> {}]
    /\ loaded = [t \in Threads |-> EmptyIndex]
    /\ handle = [t \in Threads |-> "none"]
    /\ mixed = [t \in Threads |-> {}]
    /\ seen = [t \in Threads |-> NoRevisions]
    /\ recorded = NoFiles /\ cut = {}
    /\ calls = 0 /\ faults = 0 /\ crashes = 0

\* The paths a change names.
Named(c) == c.dels \cup {p \in Paths : c.files[p] # None}

RevisionsOf(i) == [accepted |-> i.accepted, indexed |-> i.indexed]

Goto(t, label) == pc' = [pc EXCEPT ![t] = label]

\* The call of t ends, with an answer or an exception: its locals are gone.
Return(t) ==
    /\ Goto(t, "idle")
    /\ change' = [change EXCEPT ![t] = NoChange]
    /\ revision' = [revision EXCEPT ![t] = 0]
    /\ todo' = [todo EXCEPT ![t] = {}]
    /\ loaded' = [loaded EXCEPT ![t] = EmptyIndex]
    /\ mixed' = [mixed EXCEPT ![t] = {}]

\* Variant for the mutation of Acquire: the lock is not looked at.
TakeAnyway(t) == lock' = [lock EXCEPT ![StoreOf[t]] = t]
Acquire(t) ==
    lock[StoreOf[t]] = Free /\ lock' = [lock EXCEPT ![StoreOf[t]] = t]
Release(t) == lock' = [lock EXCEPT ![StoreOf[t]] = Free]

Fault == faults < MaxFaults /\ faults' = faults + 1
Call == calls < MaxCalls /\ calls' = calls + 1

\* apply_batch: the lock is taken and index.json read; if it cannot be loaded,
\* the call raises, which changes nothing.
ApplyBatch(t) ==
    /\ t \in Writers /\ pc[t] = "idle" /\ index # Torn
    /\ Call
    /\ Acquire(t)
    /\ loaded' = [loaded EXCEPT ![t] = index]
    /\ \E c \in Changes, r \in Revisions :
          /\ change' = [change EXCEPT ![t] = c]
          /\ revision' = [revision EXCEPT ![t] = r]
          /\ todo' = [todo EXCEPT ![t] = Named(c)]
    /\ Goto(t, "apply")
    /\ UNCHANGED <<disk, handle, mixed, history, faults, crashes>>

\* Variant for the mutation of FilesToWrite: a deleted path is taken for a file.
EveryPath(t) == todo[t]
\* The files of the batch that are still to be written.
FilesToWrite(t) == todo[t] \ change[t].dels

\* Variant for the mutation of WithObject: a first object is enough.
FirstObject(c) == IF objects = {} THEN {c} ELSE objects
\* An object is written unless it is there.
WithObject(c) == objects \cup {c}

\* A file of the batch: its object, then its mirror, then its record.
WriteFile(t) ==
    /\ pc[t] = "apply"
    /\ \E p \in FilesToWrite(t) :
          LET c == change[t].files[p] IN
          /\ objects' = WithObject(c)
          /\ mirror' = [mirror EXCEPT ![p] = c]
          /\ loaded' = [loaded EXCEPT ![t].files[p] = c]
          /\ todo' = [todo EXCEPT ![t] = todo[t] \ {p}]
    /\ UNCHANGED <<index, indexTmp, summary, lock, pc, change, revision,
                   handle, mixed, history, bounds>>

\* Variant for the mutation of MirrorWithout: _delete_mirror is not called.
MirrorWith(p) == mirror
MirrorWithout(p) == [mirror EXCEPT ![p] = None]

\* A deleted path of the batch, once all files are written.
DeleteFile(t) ==
    /\ pc[t] = "apply"
    /\ FilesToWrite(t) = {}
    /\ \E p \in todo[t] :
          /\ mirror' = MirrorWithout(p)
          /\ loaded' = [loaded EXCEPT ![t].files[p] = None]
          /\ todo' = [todo EXCEPT ![t] = todo[t] \ {p}]
    /\ UNCHANGED <<index, indexTmp, summary, objects, lock, pc, change,
                   revision, handle, mixed, history, bounds>>

\* Variant for the mutation of Accepted: the batch's revision is assigned.
RevisionAlone(i, r) == r
\* _set_accepted_revision.
Accepted(i, r) == Larger(i.accepted, r)

\* mark_indexed: the lock is taken and index.json read; a revision above the
\* accepted one is refused, which changes nothing.
MarkIndexed(t) ==
    /\ pc[t] = "idle" /\ index # Torn
    /\ Call
    /\ Acquire(t)
    /\ \E r \in Revisions :
          /\ r <= index.accepted
          /\ loaded' = [loaded EXCEPT ![t] =
                 [index EXCEPT !.indexed = Larger(index.indexed, r)]]
    /\ Goto(t, "mark")
    /\ UNCHANGED <<disk, change, revision, todo, handle, mixed, history,
                   faults, crashes>>

\* A batch that is done with its files, or a mark, opens index.json.tmp, which
\* empties it.  A thread of another instance that is filling it goes on: the two
\* write to one file.
OpenIndex(t) ==
    /\ \/ /\ pc[t] = "apply" /\ todo[t] = {}
          /\ loaded' = [loaded EXCEPT
                 ![t].accepted = Accepted(loaded[t], revision[t])]
       \/ pc[t] = "mark" /\ UNCHANGED loaded
    /\ indexTmp' = Torn
    /\ handle' = [handle EXCEPT ![t] = "tmp"]
    /\ mixed' = [u \in Threads |->
           IF u = t THEN {loaded[v] : v \in {w \in Threads : handle[w] = "tmp"}}
           ELSE IF handle[u] = "tmp" THEN mixed[u] \cup {loaded'[t]}
           ELSE mixed[u]]
    /\ Goto(t, "fill")
    /\ UNCHANGED <<index, summary, objects, mirror, lock, change, revision,
                   todo, history, bounds>>

\* The file that t fills becomes i.
FileBecomes(t, i) ==
    /\ indexTmp' = IF handle[t] = "tmp" THEN i ELSE indexTmp
    /\ index' = IF handle[t] = "index" THEN i ELSE index

\* What writers of one file at the same time may leave: the content of one, or
\* records and revisions of several.
Blends(contents) ==
    {[files |-> [p \in Paths |-> from[p].files[p]],
      accepted |-> i.accepted, indexed |-> j.indexed] :
        from \in [Paths -> contents], i \in contents, j \in contents}

\* write_text is done and closes the file: its content is what t wrote, unless
\* others wrote to it at the same time.
FillIndex(t) ==
    /\ pc[t] = "fill"
    /\ \E i \in Blends({loaded[t]} \cup mixed[t]) \cup
               (IF mixed[t] = {} THEN {} ELSE {Torn}) : FileBecomes(t, i)
    /\ handle' = [handle EXCEPT ![t] = "none"]
    /\ mixed' = [mixed EXCEPT ![t] = {}]
    /\ Goto(t, "replace")
    /\ UNCHANGED <<summary, objects, mirror, lock, change, revision, todo,
                   loaded, history, bounds>>

\* Part of what t writes is on disk.
FlushIndex(t) ==
    /\ pc[t] = "fill"
    /\ FileBecomes(t, Torn)
    /\ UNCHANGED <<summary, objects, mirror, lock, locals, history, bounds>>

\* index.json.tmp replaces index.json.  Another instance may have opened the
\* temporary file again, or moved it away: then os.replace raises.
ReplaceIndex(t) ==
    /\ pc[t] = "replace"
    /\ IF indexTmp = Missing
       THEN /\ cut' = cut \cup Named(change[t])
            /\ Release(t) /\ Return(t)
            /\ UNCHANGED <<index, indexTmp, handle, recorded>>
       ELSE /\ index' = indexTmp /\ indexTmp' = Missing
            /\ handle' = [u \in Threads |->
                   CASE handle[u] = "tmp" -> "index"
                     [] handle[u] = "index" -> "gone"
                     [] OTHER -> handle[u]]
            /\ recorded' = FilesThenDeletes(recorded, change[t])
            /\ cut' = cut \ Named(change[t])
            /\ Goto(t, "summary")
            /\ UNCHANGED <<lock, change, revision, todo, loaded, mixed>>
    /\ UNCHANGED <<summary, objects, mirror, seen, bounds>>

\* _save_status_summary, the release of the lock and the answer.
SaveSummary(t) ==
    /\ pc[t] = "summary"
    /\ summary' = [written |-> TRUE, accepted |-> loaded[t].accepted,
                   indexed |-> loaded[t].indexed]
    /\ seen' = [seen EXCEPT ![t] = RevisionsOf(loaded[t])]
    /\ Release(t) /\ Return(t)
    /\ UNCHANGED <<index, indexTmp, objects, mirror, handle, recorded, cut,
                   bounds>>

\* A write fails, or the content of a file is not what its hash says: whatever
\* was written stays, and the exception leaves the lock.
Fails(t) ==
    /\ \/ /\ pc[t] = "apply"
          /\ \/ UNCHANGED <<objects, mirror>>
             \/ \E p \in FilesToWrite(t) :
                   /\ objects' = WithObject(change[t].files[p])
                   /\ mirror' \in {mirror,
                                   [mirror EXCEPT ![p] = change[t].files[p]]}
       \/ /\ pc[t] \in {"mark", "fill", "replace", "summary"}
          /\ UNCHANGED <<objects, mirror>>
    /\ Fault
    /\ cut' = IF pc[t] = "summary" THEN cut ELSE cut \cup Named(change[t])
    /\ handle' = [handle EXCEPT ![t] = "none"]
    /\ Release(t) /\ Return(t)
    /\ UNCHANGED <<index, indexTmp, summary, seen, recorded, calls, crashes>>

\* status(): status.json without the lock, and index.json under the lock only
\* when there is no status.json.
Status(t) ==
    /\ pc[t] = "idle"
    /\ \/ /\ summary.written
          /\ seen' = [seen EXCEPT ![t] = [accepted |-> summary.accepted,
                                          indexed |-> summary.indexed]]
       \/ /\ ~summary.written /\ lock[StoreOf[t]] = Free /\ index # Torn
          /\ seen' = [seen EXCEPT ![t] = RevisionsOf(index)]
    /\ UNCHANGED <<disk, lock, locals, recorded, cut, bounds>>

\* The process restarts: the files stay as they are.
Crash ==
    /\ crashes < MaxCrashes /\ crashes' = crashes + 1
    /\ lock' = [s \in Instances |-> Free]
    /\ pc' = [t \in Threads |-> "idle"]
    /\ change' = [t \in Threads |-> NoChange]
    /\ revision' = [t \in Threads |-> 0]
    /\ todo' = [t \in Threads |-> {}]
    /\ loaded' = [t \in Threads |-> EmptyIndex]
    /\ handle' = [t \in Threads |-> "none"]
    /\ mixed' = [t \in Threads |-> {}]
    /\ cut' = cut \cup UNION {Named(change[t]) : t \in
                                   {u \in Threads : pc[u] # "summary"}}
    /\ UNCHANGED <<disk, seen, recorded, calls, faults>>

Next ==
    \/ \E t \in Threads :
          \/ ApplyBatch(t) \/ WriteFile(t) \/ DeleteFile(t) \/ MarkIndexed(t)
          \/ OpenIndex(t) \/ FillIndex(t) \/ FlushIndex(t)
          \/ ReplaceIndex(t) \/ SaveSummary(t) \/ Fails(t) \/ Status(t)
    \/ Crash

Spec == Init /\ [][Next]_vars

-----------------------------------------------------------------------------
(* Properties. *)

Labels == {"idle", "apply", "mark", "fill", "replace", "summary"}

\* The values every variable takes.
TypeOK ==
    /\ index \in Index \cup {Torn}
    /\ indexTmp \in Index \cup {Missing, Torn}
    /\ summary \in [written : BOOLEAN, accepted : Nat, indexed : Nat]
    /\ objects \in SUBSET Contents /\ mirror \in Tree
    /\ lock \in [Instances -> Threads \cup {Free}]
    /\ pc \in [Threads -> Labels] /\ change \in [Threads -> Change]
    /\ revision \in [Threads -> Nat] /\ todo \in [Threads -> SUBSET Paths]
    /\ loaded \in [Threads -> Index] /\ seen \in [Threads -> RevisionPair]
    /\ handle \in [Threads -> {"none", "tmp", "index", "gone"}]
    /\ mixed \in [Threads -> SUBSET Index]
    /\ recorded \in Tree /\ cut \in SUBSET Paths
    /\ calls \in Nat /\ faults \in Nat /\ crashes \in Nat

\* The revisions status() returns.
Reported ==
    IF summary.written
    THEN [accepted |-> summary.accepted, indexed |-> summary.indexed]
    ELSE RevisionsOf(index)

Atomic == INSTANCE AtomicStore WITH
    files <- index.files, accepted <- index.accepted, indexed <- index.indexed,
    reported <- Reported

\* With one instance, reading, changing and replacing index.json takes effect
\* as one step, also with failing writes and restarts, and the two files in
\* turn tell of the same store.
StoreIsAtomic == Atomic!Spec

\* index.json is replaced by whole files only: _load_index can always parse it.
IndexLoads == index # Torn

\* Whenever index.json can be loaded, each of its records can be read: its
\* object is there, whatever was interrupted and whoever wrote beside.
RecordsHaveObjects ==
    index # Torn =>
        \A p \in Paths : index.files[p] # None => index.files[p] \in objects

\* A thread holds the lock of its instance with a batch that names p, and has
\* not replaced index.json.
BeingWritten(p) ==
    \E t \in Threads :
        pc[t] \in {"apply", "fill", "replace"} /\ p \in Named(change[t])

\* The mirror, which text search reads, shows what index.json records: but for
\* a path that is being written, or whose last batch was cut off.
MirrorFollows ==
    \A p \in Paths :
        BeingWritten(p) \/ p \in cut \/ mirror[p] = index.files[p]

\* What the store tells one thread never goes back: whether it comes from a
\* batch's answer, from status.json or from index.json, and across restarts.
ReadingsAdvance ==
    [][\A t \in Threads : /\ seen[t].accepted <= seen'[t].accepted
                          /\ seen[t].indexed <= seen'[t].indexed]_vars

\* Accepted content stays: when nobody is in the store, index.json records for
\* each path what the batches so far made of it, if it can be loaded.
AcceptedStays ==
    index # Torn /\ (\A t \in Threads : pc[t] = "idle")
        => index.files = recorded

-----------------------------------------------------------------------------
(* The inductive invariants behind RecordsHaveObjects (for any instances)  *)
(* and behind IndexLoads and StoreIsAtomic (for one).                      *)

\* A tree has an object for each content.
HaveObjects(tree) == \A p \in Paths : tree[p] # None => tree[p] \in objects

\* What a call has in memory, and what others write to its file, has objects.
CallObjects(t) ==
    /\ HaveObjects(loaded[t].files)
    /\ \A i \in mixed[t] : HaveObjects(i.files)
    /\ todo[t] \subseteq Named(change[t])

\* The records that a call has written have their objects, in memory and in
\* the temporary file too.
ObjectsOK ==
    /\ index # Torn => HaveObjects(index.files)
    /\ indexTmp \notin {Missing, Torn} => HaveObjects(indexTmp.files)
    /\ \A t \in Threads : CallObjects(t)

OneInstance == \A t, u \in Threads : StoreOf[t] = StoreOf[u]

\* A call is in progress only with the lock of its instance.
LockOK == \A t \in Threads : pc[t] # "idle" => lock[StoreOf[t]] = t

\* index.json after a batch, and after a mark.
AfterBatch(c, r) == [files |-> FilesThenDeletes(index.files, c),
                     accepted |-> Larger(index.accepted, r),
                     indexed |-> index.indexed]
AfterMark(r) == [files |-> index.files, accepted |-> index.accepted,
                 indexed |-> Larger(index.indexed, r)]
IsMark(i) == \E r \in Revisions : r <= index.accepted /\ i = AfterMark(r)

\* The files a batch has dealt with are in its copy of the index as the batch
\* names them, the others as index.json has them.
BatchOK(t) ==
    /\ change[t] \in Changes /\ revision[t] \in Revisions
    /\ loaded[t].accepted = index.accepted /\ loaded[t].indexed = index.indexed
    /\ \A p \in Paths : loaded[t].files[p] =
           IF p \in todo[t] THEN index.files[p]
           ELSE FilesThenDeletes(index.files, change[t])[p]

\* What the call of t has read is still in index.json.
CallOK(t) ==
    /\ pc[t] = "apply" => BatchOK(t)
    /\ pc[t] = "mark" => IsMark(loaded[t])
    /\ pc[t] = "fill" => handle[t] = "tmp"
    /\ pc[t] # "fill" => handle[t] = "none"
    /\ mixed[t] = {}
    /\ pc[t] = "replace" => indexTmp = loaded[t]
    /\ pc[t] \in {"fill", "replace"} =>
           \/ IsMark(loaded[t])
           \/ \E c \in Changes, r \in Revisions : loaded[t] = AfterBatch(c, r)
    /\ pc[t] = "summary" => loaded[t] = index
CallsOK == index # Torn /\ \A t \in Threads : CallOK(t)

AtMost(v, w) == v.accepted <= w.accepted /\ v.indexed <= w.indexed
\* status.json is behind index.json, and what a thread was told behind both.
ReportOK ==
    /\ AtMost(Reported, index)
    /\ \A t \in Threads : AtMost(seen[t], Reported)
=============================================================================
