------------------------------ MODULE SyncAgent ------------------------------
(***************************************************************************)
(* The local side of the sync protocol for one workspace: the file watcher *)
(* and AgentClient (omnicode_adapters/agent), LocalManifest and SyncQueue  *)
(* (omnicode_core/workspace), and the MCP tool that applies a patch and    *)
(* then pushes it on its own, from another process.  The cloud is what the *)
(* sync router makes of a batch as a whole: module SyncServer has its      *)
(* steps.                                                                  *)
(*                                                                         *)
(* A content stands for the hash of its bytes.  The payload of a file is   *)
(* text: TextOf gives what decoding its bytes leaves of a content.  It is  *)
(* the text of push_batch, which converts newlines; next_batch keeps them, *)
(* so that of a text file with CR LF the model refuses an entry that the   *)
(* cloud accepts.  No run has such a file, and what is proved of the       *)
(* pending list leaves them out.                                           *)
(*                                                                         *)
(* manifest.json.tmp is one file to the two processes, and an open file    *)
(* stays open when it is moved (as on POSIX).  What is left when both have *)
(* written to it is the manifest of one of them, or counts as torn.        *)
(***************************************************************************)
EXTENDS WorkspaceTree, FiniteSets, Sequences, SequencesExt

CONSTANTS
    TextOf,       \* the text of each content
    BatchMax,     \* batch_max_files
    ToolBatchMax, \* max_files of the tool's next_batch
    FlushMax,     \* max_batches of flush_pending
    RetryMax,     \* max_retries of _post
    MaxEdits,     \* bound: changes of files, by the user and by the tool
    MaxTroubles   \* bound: failing posts and restarts of the agent

ASSUME AgentAssumption ==
    /\ None \notin Contents /\ IsFiniteSet(Paths)
    /\ TextOf \in [Contents -> Contents]
    /\ \A c \in Contents : TextOf[TextOf[c]] = TextOf[c]
    /\ {BatchMax, ToolBatchMax, FlushMax, RetryMax} \subseteq Nat \ {0}
    /\ {MaxEdits, MaxTroubles} \subseteq Nat

\* An entry of the pending list: the hash of an upsert, None for a delete.
PendingEntry == [path : Paths, hash : Entry]
Manifest == [files : Tree, pending : Seq(PendingEntry), local : Nat,
             accepted : Nat]
EmptyManifest ==
    [files |-> NoFiles, pending |-> <<>>, local |-> 0, accepted |-> 0]

\* A body of /sync/batch: text and hash of each file, deletes, client_revision.
Message == [text : Tree, hash : Tree, dels : SUBSET Paths, revision : Nat]
NoMessage ==
    [text |-> NoFiles, hash |-> NoFiles, dels |-> {}, revision |-> 0]

VARIABLES
    disk,       \* the files of the workspace
    events,     \* what the watcher has not taken yet: <<kind, path>>
    watching,   \* the watch loop runs: not during the initial sync
    \* manifest.json: what it holds, whether it is torn and cannot be loaded,
    \* and where the file is that the agent and the tool have open to save it.
    manifest, unreadable, handle,
    cloud,      \* the files the cloud has accepted
    accepted,   \* the accepted revision of the cloud
    inflight,   \* posts given up by their sender that may still arrive
    \* The agent.
    pc, burst, call, hand, msg, flushing, flushes, tries, told,
    own,        \* the manifest it has loaded and is going to save
    \* The tool: its step, its copy of the manifest, its batch, its answer.
    tool, copy, batch, answer,
    \* Bounds and history.
    adrift,     \* paths on which the agent has lost its grip
    quiet,      \* bursts since something disturbed the agent
    edits, troubles

workspace == <<disk, events, watching>>
store == <<manifest, unreadable, handle>>
remote == <<cloud, accepted, inflight>>
agentVars ==
    <<pc, burst, call, hand, msg, flushing, flushes, tries, told, own>>
toolVars == <<tool, copy, batch, answer>>
bounds == <<edits, troubles>>
vars == <<disk, events, watching, manifest, unreadable, handle, cloud,
          accepted, inflight, pc, burst, call, hand, msg, flushing, flushes,
          tries, told, own, tool, copy, batch, answer, adrift, quiet, edits,
          troubles>>

\* The two processes that load, change and save manifest.json without a lock.
Savers == {"agent", "tool"}

NoBurst == [modified |-> {}, deleted |-> {}]
\* Bursts without a disturbance after which nothing may be pending: each
\* corrects a recorded hash, or flushes FlushMax batches of at least one path,
\* or all.
CalmMax ==
    Cardinality(Paths) + (Cardinality(Paths) + FlushMax - 1) \div FlushMax

Init ==
    /\ disk = NoFiles /\ events = {} /\ watching = TRUE
    /\ manifest = EmptyManifest /\ unreadable = FALSE
    /\ handle = [x \in Savers |-> "none"]
    /\ cloud = NoFiles /\ accepted = 0 /\ inflight = {}
    /\ pc = "idle" /\ burst = NoBurst /\ call = "none" /\ hand = {}
    /\ msg = NoMessage /\ flushing = FALSE /\ flushes = 0 /\ tries = 0
    /\ told = 0 /\ own = EmptyManifest
    /\ tool = "idle" /\ copy = EmptyManifest /\ batch = NoMessage /\ answer = 0
    /\ adrift = {} /\ quiet = 0
    /\ edits = 0 /\ troubles = 0

Named(m) == m.dels \cup {p \in Paths : m.text[p] # None}
PendingPaths(mf) == {mf.pending[i].path : i \in DOMAIN mf.pending}
Trouble == troubles < MaxTroubles /\ troubles' = troubles + 1

\* The text the cloud should hold for a path, and the paths of a set for which
\* a tree holds another one.
DiskText(p) == IF disk[p] = None THEN None ELSE TextOf[disk[p]]
Apart(tree, paths) == {p \in paths : tree[p] # DiskText(p)}
\* Files that are there and that the pending list is going to delete.
Contradicted(mf) ==
    {p \in Paths : disk[p] # None /\
                   \E i \in DOMAIN mf.pending :
                      mf.pending[i] = [path |-> p, hash |-> None]}

-----------------------------------------------------------------------------
(* LocalManifest and SyncQueue.                                            *)

\* The pending list without the entries of some paths.
Without(pending, paths) ==
    LET kept[n \in 0..Len(pending)] ==
          IF n = 0 THEN <<>>
          ELSE IF pending[n].path \in paths THEN kept[n - 1]
          ELSE Append(kept[n - 1], pending[n])
    IN kept[Len(pending)]

\* Variant for the mutation of Changed: a file that is gone is not recorded.
ChangedFiles(mf, paths, force) ==
    {p \in paths : disk[p] # None /\ (force \/ mf.files[p] # disk[p])}
\* The paths among some for which mark_changed records a change: the disk is
\* compared with the hash the manifest holds.
Changed(mf, paths, force) == {p \in paths : force \/ mf.files[p] # disk[p]}

\* mark_changed for each path of a sequence: one entry of the pending list and
\* one local revision each.
MarkChanged(mf, order) ==
    [mf EXCEPT
        !.files = [p \in Paths |-> IF p \in Range(order) THEN disk[p]
                                   ELSE mf.files[p]],
        !.pending = Without(mf.pending, Range(order)) \o
                    [i \in DOMAIN order |-> [path |-> order[i],
                                             hash |-> disk[order[i]]]],
        !.local = mf.local + Len(order)]

\* next_batch: the first entries of the pending list.  An upsert whose file is
\* gone becomes a delete; the text of a file is read now, its hash is the one
\* that was recorded with the change.
NextBatch(mf, limit) ==
    LET taken == {mf.pending[i] : i \in
                     {j \in DOMAIN mf.pending : j <= limit}}
        sent == {e \in taken : e.hash # None /\ disk[e.path] # None}
        HashOf(p) == (CHOOSE e \in sent : e.path = p).hash
        In(p) == \E e \in sent : e.path = p
    IN [text |-> [p \in Paths |-> IF In(p) THEN TextOf[disk[p]] ELSE None],
        hash |-> [p \in Paths |-> IF In(p) THEN HashOf(p) ELSE None],
        dels |-> {e.path : e \in taken \ sent},
        revision |-> mf.local]

-----------------------------------------------------------------------------
(* Saving manifest.json: both processes write manifest.json.tmp, and replace *)
(* manifest.json by it.                                                      *)

Doc(x) == IF x = "agent" THEN own ELSE copy
\* The ones that have manifest.json.tmp open: they write to one file.
Writers == {x \in Savers : handle[x] = "tmp"}

Holds(doc) == manifest' = doc /\ unreadable' = FALSE
Torn == manifest' = EmptyManifest /\ unreadable' = TRUE

\* x opens manifest.json.tmp, which empties it.
OpenTmp(x) == handle' = [handle EXCEPT ![x] = "tmp"]

\* x has written its manifest, and moves manifest.json.tmp over manifest.json.
\* When the other one has it open as well, manifest.json is what either wrote
\* or a mixture, and the other one writes to it from now on.  When x finds none,
\* for the other one has moved it away, replace raises.
ReplaceBy(x) ==
    /\ IF Writers = {} THEN UNCHANGED <<manifest, unreadable>>
       ELSE \/ \E y \in Writers : Holds(Doc(y))
            \/ Writers # {x} /\ Torn
    /\ handle' = [y \in Savers |->
                     IF y = x THEN "none"
                     ELSE IF y \in Writers THEN "file"
                     ELSE IF handle[y] = "file" /\ Writers # {} THEN "gone"
                     ELSE handle[y]]

\* Paths that were pending, or are among some, and are not in what was saved.
Overwritten(paths) ==
    Apart(cloud, (PendingPaths(manifest) \cup paths) \ PendingPaths(manifest'))

\* x goes on writing what has become manifest.json in the meantime.
WriteThrough(x) ==
    /\ handle[x] = "file"
    /\ Holds(Doc(x)) \/ Torn
    /\ adrift' = adrift \cup Overwritten({}) \cup Contradicted(manifest')
    /\ quiet' = 0
    /\ UNCHANGED <<workspace, handle, remote, agentVars, toolVars, bounds>>

-----------------------------------------------------------------------------
(* The cloud's side of a post.                                             *)

\* _validate_file_payload: one wrong hash refuses the whole batch.
Valid(m) == m.text = m.hash
\* Files the cloud has are filtered out, deletes are not.
HasEffect(m) ==
    m.dels # {} \/ \E p \in Paths : m.text[p] \notin {None, cloud[p]}

\* The cloud works through a post.
Receive(m) ==
    IF Valid(m) /\ HasEffect(m)
    THEN /\ cloud' = FilesThenDeletes(cloud, [files |-> m.text,
                                              dels |-> m.dels])
         /\ accepted' = Larger(accepted + 1, m.revision)
    ELSE UNCHANGED <<cloud, accepted>>

\* Bound: one post at a time is on its way.
StillOnItsWay(m) == inflight = {} /\ inflight' = {m}

\* A post whose answer does not come: it was lost before the cloud saw it, it
\* was received, or it is still on its way.
Unanswered(m) ==
    \/ UNCHANGED remote
    \/ Receive(m) /\ UNCHANGED inflight
    \/ StillOnItsWay(m) /\ UNCHANGED <<cloud, accepted>>

\* A post arrives after its sender has given it up.
Arrive ==
    /\ \E m \in inflight :
          /\ Receive(m)
          /\ inflight' = inflight \ {m}
          /\ adrift' = adrift \cup Apart(cloud', Named(m))
    /\ quiet' = 0
    /\ UNCHANGED <<workspace, store, agentVars, toolVars, bounds>>

-----------------------------------------------------------------------------
(* The user, and the watcher's view of the workspace.                      *)

\* The watcher sees a change unless it has not started to watch.
Seen(kind, p) ==
    IF watching
    THEN events' = events \cup {<<kind, p>>} /\ UNCHANGED adrift
    ELSE adrift' = adrift \cup {p} /\ UNCHANGED events

KindOf(c) == IF c = None THEN "deleted" ELSE "modified"

\* A file is written, created or deleted.
Edit(p) ==
    /\ edits < MaxEdits /\ edits' = edits + 1
    /\ \E c \in Entry \ {disk[p]} :
          disk' = [disk EXCEPT ![p] = c] /\ Seen(KindOf(c), p)
    /\ quiet' = 0
    /\ UNCHANGED <<watching, store, remote, agentVars, toolVars,
                   troubles>>

\* A file is saved with the content it had.  Bound: only while the agent waits
\* and nothing is queued, for beside other events it adds a path to a burst.
Touch(p) ==
    /\ disk[p] # None /\ watching /\ pc = "idle" /\ events = {}
    /\ events' = events \cup {<<"modified", p>>}
    /\ UNCHANGED <<disk, watching, store, remote, agentVars, toolVars,
                   adrift, quiet, bounds>>

-----------------------------------------------------------------------------
(* The agent: one thread, from the watcher's burst to the manifest.        *)

OfKind(kind) == {p \in Paths : <<kind, p>> \in events}
Calmer == IF quiet = CalmMax THEN CalmMax ELSE quiet + 1

\* The watcher takes what it has seen: modified paths and deleted paths, and a
\* path that was deleted and created again is both.
TakeBurst ==
    /\ pc = "idle" /\ events # {}
    /\ burst' = [modified |-> OfKind("modified"), deleted |-> OfKind("deleted")]
    /\ adrift' = adrift \ (burst'.modified \cup burst'.deleted)
    /\ events' = {}
    /\ pc' = "burst" /\ quiet' = Calmer
    /\ UNCHANGED <<disk, watching, store, remote, call, hand, msg, flushing,
                   flushes, tries, told, own, toolVars, bounds>>

\* Variant for the mutation of FlushFirst: the pending list is left for later.
StraightOn == pc' = "send" /\ flushing' = FALSE /\ flushes' = 0
\* push_batch and delete_file begin with flush_pending.
FlushFirst == pc' = "flush" /\ flushing' = TRUE /\ flushes' = 0

\* _sync_burst: push_batch for the modified paths.
CallPush ==
    /\ pc = "burst" /\ burst.modified # {}
    /\ call' = "push" /\ hand' = burst.modified
    /\ burst' = [burst EXCEPT !.modified = {}]
    /\ FlushFirst
    /\ UNCHANGED <<workspace, store, remote, msg, tries, told, own, toolVars,
                   adrift, quiet, bounds>>

\* _sync_burst: delete_file for one deleted path after the other.
CallDelete ==
    /\ pc = "burst" /\ burst.modified = {}
    /\ \E p \in burst.deleted :
          /\ call' = "delete" /\ hand' = {p}
          /\ burst' = [burst EXCEPT !.deleted = @ \ {p}]
    /\ FlushFirst
    /\ UNCHANGED <<workspace, store, remote, msg, tries, told, own, toolVars,
                   adrift, quiet, bounds>>

\* The burst is done; after the initial sync the watch loop starts.
EndBurst ==
    /\ pc = "burst" /\ burst = NoBurst
    /\ pc' = "idle" /\ watching' = TRUE
    /\ UNCHANGED <<disk, events, store, remote, burst, call, hand, msg,
                   flushing, flushes, tries, told, own, toolVars, adrift, quiet,
                   bounds>>

\* Variant for the mutation of FlushesLeft: one batch too many.
FlushesUpTo == flushes <= FlushMax
FlushesLeft == flushes < FlushMax

\* flush_pending: the next batch of the pending list, if there is one left and
\* the limit of batches is not reached.  Fewer entries than batch_max_files are
\* taken when they have batch_max_bytes.  The agent's client_revision is one
\* above an accepted revision it was told, which has no say in the next one.
FlushBatch ==
    /\ pc = "flush"
    /\ manifest.pending # <<>> /\ FlushesLeft
    /\ \E n \in 1..BatchMax :
          msg' = [NextBatch(manifest, n) EXCEPT !.revision = 0]
    /\ flushes' = flushes + 1
    /\ tries' = 0 /\ pc' = "post"
    /\ UNCHANGED <<workspace, store, remote, burst, call, hand, flushing,
                   told, own, toolVars, adrift, quiet, bounds>>

\* The flush is over, and the call goes on to its own paths.
EndFlush ==
    /\ pc = "flush"
    /\ manifest.pending = <<>> \/ ~FlushesLeft
    /\ flushing' = FALSE /\ flushes' = 0 /\ pc' = "send"
    /\ UNCHANGED <<workspace, store, remote, burst, call, hand, msg, tries,
                   told, own, toolVars, adrift, quiet, bounds>>

\* The next chunk of a push_batch: files that can be read, with the hash of
\* the text that was read.
SendChunk ==
    /\ pc = "send" /\ call = "push"
    /\ \E chunk \in SUBSET {p \in hand : disk[p] # None} :
          /\ chunk # {} /\ Cardinality(chunk) <= BatchMax
          /\ LET text == [p \in Paths |-> IF p \in chunk THEN TextOf[disk[p]]
                                          ELSE None]
             IN msg' = [NoMessage EXCEPT !.text = text, !.hash = text]
          /\ hand' = hand \ chunk
    /\ tries' = 0 /\ pc' = "post"
    /\ UNCHANGED <<workspace, store, remote, burst, call, flushing, flushes,
                   told, own, toolVars, adrift, quiet, bounds>>

\* The one delete of a delete_file.  The disk is not looked at: a path that
\* was deleted and created again is deleted in the cloud.
SendDelete ==
    /\ pc = "send" /\ call = "delete" /\ hand # {}
    /\ msg' = [NoMessage EXCEPT !.dels = hand]
    /\ adrift' = adrift \cup {p \in hand : disk[p] # None}
    /\ hand' = {}
    /\ tries' = 0 /\ pc' = "post"
    /\ UNCHANGED <<workspace, store, remote, burst, call, flushing, flushes,
                   told, own, toolVars, quiet, bounds>>

\* The call is over: what is left in hand is not on the disk and is skipped.
EndCall ==
    /\ pc = "send" /\ \A p \in hand : call = "push" /\ disk[p] = None
    /\ hand' = {} /\ pc' = "burst" /\ call' = "none"
    /\ UNCHANGED <<workspace, store, remote, burst, msg, flushing, flushes,
                   tries, told, own, toolVars, adrift, quiet, bounds>>

\* The post is answered: accepted, or refused for a wrong hash.
PostAnswered ==
    /\ pc = "post"
    /\ Receive(msg)
    /\ IF Valid(msg) THEN pc' = "ack" /\ told' = accepted'
                     ELSE pc' = "fail" /\ UNCHANGED told
    /\ UNCHANGED <<workspace, store, inflight, burst, call, hand, msg,
                   flushing, flushes, tries, own, toolVars, adrift, quiet,
                   bounds>>

\* The post gets no answer, and is repeated while there are retries left: all
\* of them count as one trouble.
PostUnanswered ==
    /\ pc = "post"
    /\ IF tries = 0 THEN Trouble ELSE UNCHANGED troubles
    /\ Unanswered(msg)
    /\ IF tries + 1 < RetryMax THEN tries' = tries + 1 /\ UNCHANGED pc
                               ELSE pc' = "fail" /\ UNCHANGED tries
    /\ quiet' = 0
    /\ UNCHANGED <<workspace, store, burst, call, hand, msg, flushing,
                   flushes, told, own, toolVars, adrift, edits>>

\* The cloud answers with an error, before or after it took the batch.
PostFails ==
    /\ pc = "post"
    /\ Trouble
    /\ Receive(msg) \/ UNCHANGED <<cloud, accepted>>
    /\ pc' = "fail" /\ quiet' = 0
    /\ UNCHANGED <<workspace, store, inflight, burst, call, hand, msg,
                   flushing, flushes, tries, told, own, toolVars, adrift,
                   edits>>

\* What _record_manifest_ack makes of the manifest.
AfterAck(mf, m, revision) ==
    [files |-> [p \in Paths |-> IF p \in Named(m) THEN m.hash[p]
                                ELSE mf.files[p]],
     pending |-> Without(mf.pending, Named(m)),
     local |-> Larger(mf.local, revision), accepted |-> revision]

\* _record_manifest_ack: the manifest is loaded and changed.
RecordManifestAck ==
    /\ pc = "ack" /\ ~unreadable
    /\ own' = AfterAck(manifest, msg, told)
    /\ told' = 0 /\ tries' = 0 /\ pc' = "save"
    /\ UNCHANGED <<workspace, store, remote, burst, call, hand, msg, flushing,
                   flushes, toolVars, adrift, quiet, bounds>>

\* A failing flush ends the call; another failure does not.
AfterFailure ==
    /\ flushing' = FALSE /\ flushes' = 0
    /\ IF flushing THEN hand' = {} /\ call' = "none"
                   ELSE UNCHANGED <<hand, call>>
Dropped == IF flushing THEN hand ELSE {}

\* manifest.json cannot be loaded: neither an acknowledgement nor a failure is
\* recorded.
LeaveUnrecorded ==
    /\ pc \in {"ack", "fail"} /\ unreadable
    /\ IF pc = "ack"
       THEN /\ pc' = IF flushing THEN "flush" ELSE "send"
            /\ UNCHANGED <<call, hand, flushing, flushes, adrift>>
       ELSE /\ pc' = IF flushing THEN "burst" ELSE "send"
            /\ AfterFailure
            /\ adrift' = adrift \cup Apart(cloud, Named(msg) \cup Dropped)
    /\ msg' = NoMessage /\ told' = 0 /\ tries' = 0
    /\ UNCHANGED <<workspace, store, remote, burst, own, toolVars, quiet,
                   bounds>>

\* _record_manifest_failure: the manifest is loaded.
LoadManifest ==
    /\ pc = "fail" /\ ~unreadable
    /\ own' = manifest /\ pc' = "mark"
    /\ UNCHANGED <<workspace, store, remote, burst, call, hand, msg, flushing,
                   flushes, tries, told, toolVars, adrift, quiet, bounds>>

\* _record_manifest_failure: the paths of the batch whose disk content is not
\* what the manifest has become pending, and it is saved if there are any.  The
\* paths in hand of a failing flush are neither sent nor recorded.
RecordManifestFailure ==
    /\ pc = "mark"
    /\ LET changed == Changed(own, Named(msg), FALSE)
           left == {p \in Named(msg) : own.files[p] = disk[p]} \cup Dropped
       IN /\ IF changed = {}
             THEN /\ own' = EmptyManifest /\ msg' = NoMessage
                  /\ pc' = IF flushing THEN "burst" ELSE "send"
             ELSE /\ \E order \in SetToSeqs(changed) :
                        own' = MarkChanged(own, order)
                  /\ pc' = "save" /\ UNCHANGED msg
          /\ adrift' = adrift \cup Apart(cloud, left)
                \cup (left \cap (Contradicted(manifest) \cup
                                Contradicted(own')))
    /\ AfterFailure /\ tries' = 0
    /\ UNCHANGED <<workspace, store, remote, burst, told, toolVars, quiet,
                   bounds>>

BeginSave ==
    /\ pc = "save"
    /\ OpenTmp("agent") /\ pc' = "saving"
    /\ UNCHANGED <<workspace, manifest, unreadable, remote, burst, call, hand,
                   msg, flushing, flushes, tries, told, own, toolVars, adrift,
                   quiet, bounds>>

\* The post is dealt with: on to the next of the flush, of the call, or to the
\* next call.
GoOn ==
    /\ own' = EmptyManifest /\ msg' = NoMessage
    /\ pc' = IF flushing THEN "flush" ELSE IF call = "none" THEN "burst"
             ELSE "send"

\* The manifest is saved, over what the tool has saved since it was loaded.
SaveManifest ==
    /\ pc = "saving" /\ Writers = {"agent"}
    /\ ReplaceBy("agent")
    /\ adrift' = adrift \cup (Overwritten({}) \ Named(msg))
    /\ GoOn
    /\ UNCHANGED <<workspace, remote, burst, call, hand, flushing, flushes,
                   tries, told, toolVars, quiet, bounds>>

\* The agent starts: the initial sync takes the files that are there, before it
\* watches.  What it had seen and had in hand is gone.
StartAgain ==
    /\ burst' = [NoBurst EXCEPT !.modified = {p \in Paths : disk[p] # None}]
    /\ pc' = "burst" /\ watching' = FALSE /\ events' = {}
    /\ call' = "none" /\ hand' = {} /\ msg' = NoMessage
    /\ flushing' = FALSE /\ flushes' = 0 /\ tries' = 0 /\ told' = 0
    /\ own' = EmptyManifest
    /\ adrift' = Apart(cloud, {p \in Paths : disk[p] = None})
                   \ PendingPaths(manifest')

\* The save meets one of the tool.  What replace raises ends the agent, and it
\* is started again.
SaveCollides ==
    /\ pc = "saving" /\ Writers # {"agent"}
    /\ ReplaceBy("agent")
    /\ IF Writers = {}
       THEN StartAgain
       ELSE /\ adrift' = adrift \cup Overwritten(Named(msg))
                           \cup Contradicted(manifest')
            /\ GoOn
            /\ UNCHANGED <<events, watching, burst, call, hand, flushing,
                           flushes, tries, told>>
    /\ quiet' = 0
    /\ UNCHANGED <<disk, remote, toolVars, bounds>>

\* The agent stops and starts.  Not while it saves: a stop before replace is
\* the same as one before the save, but for one that meets a save of the tool.
Restart ==
    /\ Trouble /\ pc # "saving"
    /\ UNCHANGED <<disk, store, cloud, accepted, toolVars, edits>>
    /\ StartAgain
    /\ \/ UNCHANGED inflight
       \/ pc = "post" /\ StillOnItsWay(msg)
    /\ quiet' = 0

-----------------------------------------------------------------------------
(* The tool: a patch is written, _mark_local_sync_pending follows.         *)

ToolEnds ==
    /\ tool' = "idle" /\ copy' = EmptyManifest /\ batch' = NoMessage
    /\ answer' = 0

\* A patch, which is text, is on the disk, and the watcher sees it as any other
\* change.
ToolWrite(p) ==
    /\ tool = "idle"
    /\ edits < MaxEdits /\ edits' = edits + 1
    /\ \E c \in Contents \ {disk[p]} :
          TextOf[c] = c /\ disk' = [disk EXCEPT ![p] = c]
    /\ Seen("modified", p)
    /\ tool' = "load" /\ batch' = [NoMessage EXCEPT !.dels = {p}]
    /\ quiet' = 0
    /\ UNCHANGED <<watching, store, remote, agentVars, copy, answer,
                   troubles>>

\* The manifest is loaded; one that cannot be loaded ends the tool.
ToolLoad ==
    /\ tool = "load"
    /\ IF unreadable THEN ToolEnds
       ELSE copy' = manifest /\ tool' = "mark" /\ UNCHANGED <<batch, answer>>
    /\ quiet' = 0
    /\ UNCHANGED <<workspace, store, remote, agentVars, adrift, bounds>>

\* mark_changed with force.
ToolMark ==
    /\ tool = "mark"
    /\ copy' = MarkChanged(copy, SetToSeq(batch.dels))
    /\ tool' = "save" /\ quiet' = 0
    /\ UNCHANGED <<workspace, store, remote, agentVars, batch, answer, adrift,
                   bounds>>

\* The copy is saved after the mark, and again after the answer.
ToolBeginSave ==
    /\ tool \in {"save", "resave"}
    /\ OpenTmp("tool")
    /\ tool' = IF tool = "save" THEN "saving" ELSE "resaving"
    /\ quiet' = 0
    /\ UNCHANGED <<workspace, manifest, unreadable, remote, agentVars, copy,
                   batch, answer, adrift, bounds>>

\* The copy is saved over what the agent has saved since it was loaded: entries
\* are lost, and entries that were sent come back.  After the first save the
\* first batch of the copy is put together; what replace raises ends the tool.
ToolSave ==
    /\ tool \in {"saving", "resaving"}
    /\ ReplaceBy("tool")
    /\ adrift' = adrift \cup Overwritten({}) \cup Contradicted(manifest')
    /\ IF tool = "saving" /\ Writers # {}
       THEN /\ batch' = NextBatch(copy, ToolBatchMax)
            /\ tool' = "post" /\ UNCHANGED <<copy, answer>>
       ELSE ToolEnds
    /\ quiet' = 0
    /\ UNCHANGED <<workspace, remote, agentVars, bounds>>

\* The tool posts once.  Its batch may hold older text than what the agent has
\* pushed in the meantime.
ToolPostAnswered ==
    /\ tool = "post"
    /\ Receive(batch)
    /\ adrift' = adrift \cup
           (IF Valid(batch) THEN Apart(cloud', Named(batch)) ELSE {})
    /\ IF Valid(batch)
       THEN tool' = "ack" /\ answer' = accepted' /\ UNCHANGED <<copy, batch>>
       ELSE ToolEnds
    /\ quiet' = 0
    /\ UNCHANGED <<workspace, store, inflight, agentVars, bounds>>

\* No answer, or an error: the entries stay pending in the saved manifest.
ToolPostFails ==
    /\ tool = "post"
    /\ Trouble
    /\ Unanswered(batch)
    /\ adrift' = adrift \cup Apart(cloud', Named(batch))
    /\ ToolEnds
    /\ quiet' = 0
    /\ UNCHANGED <<workspace, store, agentVars, edits>>

\* Variant for the mutation of MarkAccepted: the batch's own revision, which
\* stands in when the answer has none.
MarkOwnRevision(mf, m, revision) ==
    [mf EXCEPT !.accepted = m.revision,
               !.pending = Without(mf.pending, Named(m)),
               !.files = [p \in Paths |-> IF p \in m.dels THEN None
                                          ELSE mf.files[p]]]
\* mark_accepted: the hashes that were recorded with the change stay.
MarkAccepted(mf, m, revision) ==
    [mf EXCEPT !.accepted = revision,
               !.pending = Without(mf.pending, Named(m)),
               !.files = [p \in Paths |-> IF p \in m.dels THEN None
                                          ELSE mf.files[p]]]

\* mark_accepted on the copy.
ToolAck ==
    /\ tool = "ack"
    /\ copy' = MarkAccepted(copy, batch, answer)
    /\ tool' = "resave" /\ batch' = NoMessage /\ answer' = 0
    /\ quiet' = 0
    /\ UNCHANGED <<workspace, store, remote, agentVars, adrift, bounds>>

-----------------------------------------------------------------------------

\* A step of the agent's thread after a burst was taken.
Agent ==
    \/ CallPush \/ CallDelete \/ EndBurst \/ FlushBatch \/ EndFlush
    \/ SendChunk \/ SendDelete \/ EndCall
    \/ PostAnswered \/ PostUnanswered \/ PostFails
    \/ RecordManifestAck \/ LeaveUnrecorded
    \/ LoadManifest \/ RecordManifestFailure
    \/ BeginSave \/ SaveManifest \/ SaveCollides

\* A step of the tool after its patch was written.
Tool ==
    \/ ToolLoad \/ ToolMark \/ ToolBeginSave \/ ToolSave
    \/ ToolPostAnswered \/ ToolPostFails \/ ToolAck

Next ==
    \/ \E p \in Paths : Edit(p) \/ Touch(p) \/ ToolWrite(p)
    \/ TakeBurst \/ Agent \/ Restart \/ Arrive
    \/ Tool \/ \E x \in Savers : WriteThrough(x)

Spec == Init /\ [][Next]_vars

-----------------------------------------------------------------------------
(* Properties. *)

\* The values every variable takes.
TypeOK ==
    /\ disk \in Tree /\ cloud \in Tree /\ accepted \in Nat
    /\ events \subseteq {"modified", "deleted"} \X Paths
    /\ watching \in BOOLEAN
    /\ {manifest, own, copy} \subseteq Manifest
    /\ unreadable \in BOOLEAN
    /\ handle \in [Savers -> {"none", "tmp", "file", "gone"}]
    /\ inflight \subseteq Message
    /\ pc \in {"idle", "burst", "flush", "send", "post", "ack", "fail", "mark",
              "save", "saving"}
    /\ burst \in [modified : SUBSET Paths, deleted : SUBSET Paths]
    /\ call \in {"none", "push", "delete"} /\ hand \subseteq Paths
    /\ msg \in Message /\ batch \in Message
    /\ flushing \in BOOLEAN
    /\ flushes \in 0..FlushMax /\ tries \in 0..(RetryMax - 1)
    /\ {told, answer, edits, troubles} \subseteq Nat
    /\ tool \in {"idle", "load", "mark", "save", "saving", "post", "ack",
                "resave", "resaving"}
    /\ adrift \subseteq Paths /\ quiet \in 0..CalmMax

\* What the agent will still deal with: on its way to a post, and all of it.
Ahead ==
    OfKind("modified") \cup OfKind("deleted")
      \cup burst.modified \cup burst.deleted \cup hand
InSight == PendingPaths(manifest) \cup Named(msg) \cup Ahead

\* A file that differs in the cloud is queued, in hand, being posted or
\* pending, whatever the tool does: what the agent loses sight of, it loses
\* behind a flush that failed, by a failure that mark_changed does not record or
\* that finds manifest.json torn, by a delete sent for a file that is back, in a
\* restart or before it watches, to a manifest that one of the two saves over
\* entries of the other or while the other saves, to a post of the tool with
\* older text, or to a post that arrives late.
Accounted == Apart(cloud, Paths) \subseteq InSight \cup adrift

\* The pending list drains: after a few bursts in which nobody edits, no post
\* fails and the tool is away, nothing is pending.
PendingDrains ==
    pc = "idle" /\ quiet = CalmMax => manifest.pending = <<>>

\* The manifest never claims a revision the cloud has not reached.
RevisionsTrail == manifest.accepted <= accepted
=============================================================================
