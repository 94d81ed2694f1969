------------------------------ MODULE Patches ------------------------------
(***************************************************************************)
(* Patches with snapshots: PatchManager (omnicode_core/edit/patch.py) as   *)
(* the routers of the server and the local MCP tool use it on one          *)
(* workspace, and the Idempotency-Key cache of POST /patch/apply.          *)
(*                                                                         *)
(* No handler awaits anything while it uses PatchManager, so the server    *)
(* and the tool each have one operation at a time; the two are separate    *)
(* processes, share the directory .data, and take turns at every file they *)
(* read or write, as the user does.  An operation may break off anywhere:  *)
(* the process dies, or a write fails.                                     *)
(***************************************************************************)
EXTENDS WorkspaceTree, Sequences

CONSTANTS
    Empty,        \* the content of a file of size 0
    Start,        \* the workspaces it starts with
    TextOf,       \* the text _read finds in a content
    Server, Tool, \* the two processes
    Headers,      \* the Idempotency-Key of requests, None without one
    Payloads,     \* what clients ask for: <<path, new text>>
    MaxPatches,   \* bound: patches that get a session id
    MaxEdits,     \* bound: changes of files by the user
    MaxTroubles   \* bound: operations that break off, errors of the key
                  \* database and rows that expire

Keys == Headers \ {None}
Texts == {TextOf[c] : c \in Contents}

Actors == {Server, Tool}
Ids == 1..MaxPatches
\* What a row of the key database answers to a payload: a session.
Answer == [payload : Payloads, id : Ids]
ASSUME PatchAssumption ==
    /\ Empty \in Contents /\ None \notin Contents
    /\ Server # Tool /\ None \notin Actors \cup Answer
    /\ TextOf \in [Contents -> Contents] /\ TextOf[Empty] = Empty
    /\ \A c \in Contents : TextOf[TextOf[c]] = TextOf[c]
    /\ {MaxPatches, MaxEdits, MaxTroubles} \subseteq Nat
    /\ Start \subseteq Tree
    /\ Payloads \subseteq Paths \X Texts

\* The operation of an actor: its key, the text it has read, its session.
Operation == [kind : {"apply", "rollback"}, path : Paths, new : Texts,
              key : Keys \cup {None}, orig : Texts, id : 0..MaxPatches]
Nothing == [kind |-> "none"]
\* Who wrote a file, and for which session.
Writers == {"user", "apply", "rollback", "unlink", "break"} \X (0..MaxPatches)
ByUser == <<"user", 0>>

VARIABLES
    disk,      \* the files
    snaps,     \* .data/snapshots: the text of each snapshot
    sessions,  \* .data/edit_sessions: what each file says of its session
    baselines, \* .data/patch_previews: the text (its hash) that was previewed
    cached,    \* .data/idempotency.db: the answer under each key
    pc, op,
    \* History.
    patches,   \* the patches with an id, and what each has overwritten
    raced,     \* patches whose file changed between their read and write
    last,      \* who wrote each file last, and for which session
    edit,      \* the text of the user's last edit of each file
    lost,      \* files whose last edit was overwritten without a look at it
    torn,      \* sessions whose rollback broke off in the save
    viewer,    \* who made the preview a baseline is of
    runs,      \* patches written under each key
    unsure,    \* keys whose answer was lost
    edits, troubles

dataVars == <<snaps, sessions, baselines, cached>>
fileHistory == <<patches, raced, last, edit, lost, torn>>
keyHistory == <<runs, unsure>>
bounds == <<edits, troubles>>
vars == <<disk, snaps, sessions, baselines, cached, pc, op, patches, raced,
          last, edit, lost, torn, viewer, runs, unsure, edits, troubles>>

\* The text of a file: one that is not there reads as an empty one.
Text(c) == IF c = None THEN Empty ELSE TextOf[c]
TextAt(p) == Text(disk[p])

Init ==
    /\ disk \in Start /\ edit = [p \in Paths |-> TextAt(p)]
    /\ snaps = [i \in Ids |-> None] /\ sessions = [i \in Ids |-> "none"]
    /\ baselines = [x \in Payloads |-> None]
    /\ cached = [k \in Keys |-> None]
    /\ pc = [a \in Actors |-> "idle"] /\ op = [a \in Actors |-> Nothing]
    /\ patches = <<>> /\ raced = {} /\ lost = {} /\ torn = {}
    /\ last = [p \in Paths |-> ByUser]
    /\ viewer = [x \in Payloads |-> None]
    /\ runs = [k \in Keys |-> 0] /\ unsure = {}
    /\ edits = 0 /\ troubles = 0

LastWriter(p, kind, i) == last' = [last EXCEPT ![p] = <<kind, i>>]

Goto(a, label) == pc' = [pc EXCEPT ![a] = label]
Done(a) == Goto(a, "idle") /\ op' = [op EXCEPT ![a] = Nothing]
Trouble == troubles < MaxTroubles /\ troubles' = troubles + 1

-----------------------------------------------------------------------------
(* preview_patch, and requests to apply.                                   *)

\* The text of the file is recorded for this payload, also when there is no
\* file.
Preview(a, x) ==
    /\ pc[a] = "idle"
    /\ baselines' = [baselines EXCEPT ![x] = TextAt(x[1])]
    /\ viewer' = [viewer EXCEPT ![x] = a]
    /\ UNCHANGED <<disk, snaps, sessions, cached, pc, op, fileHistory,
                   keyHistory, bounds>>

\* apply_patch is asked for; only the server is given keys.
Ask(a, x, key) ==
    /\ pc[a] = "idle" /\ Len(patches) < MaxPatches
    /\ op' = [op EXCEPT ![a] = [kind |-> "apply", path |-> x[1], new |-> x[2],
                                key |-> key, orig |-> Empty, id |-> 0]]
    /\ Goto(a, IF key = None THEN "read" ELSE "lookup")
    /\ UNCHANGED <<disk, dataVars, fileHistory, viewer, keyHistory, bounds>>

\* lookup: a row is the answer to its payload and a conflict with another one;
\* without a row the patch is applied.
Lookup ==
    /\ pc[Server] = "lookup"
    /\ IF cached[op[Server].key] = None
       THEN Goto(Server, "read") /\ UNCHANGED op
       ELSE Done(Server)
    /\ UNCHANGED <<disk, dataVars, fileHistory, viewer, keyHistory, bounds>>

\* The database fails, and the patch is applied.
LookupFails ==
    /\ pc[Server] = "lookup" /\ Trouble
    /\ Goto(Server, "read")
    /\ unsure' = unsure \cup {op[Server].key}
    /\ UNCHANGED <<disk, dataVars, op, fileHistory, viewer, runs, edits>>

\* A lookup removes the rows of more than a day ago.
Expire(k) ==
    /\ pc[Server] = "lookup" /\ cached[k] # None /\ Trouble
    /\ cached' = [cached EXCEPT ![k] = None]
    /\ unsure' = unsure \cup {k}
    /\ UNCHANGED <<disk, snaps, sessions, baselines, pc, op, fileHistory,
                   viewer, runs, edits>>

-----------------------------------------------------------------------------
(* apply_patch.                                                            *)

\* Variants for the mutation of ApplyOrder: the file is written before its
\* snapshot, the session is saved first, and the answer is stored first.
WriteFirst == <<"read", "write", "snapshot", "save", "unlist", "answer">>
SaveFirst == <<"read", "save", "snapshot", "write", "unlist", "answer">>
AnswerFirst == <<"read", "snapshot", "write", "answer", "save", "unlist">>
ApplyOrder == <<"read", "snapshot", "write", "save", "unlist", "answer">>

\* The operation of a goes on to its next step, or is done.
Advance(a) ==
    LET at == CHOOSE n \in DOMAIN ApplyOrder : ApplyOrder[n] = pc[a]
    IN IF at = Len(ApplyOrder) THEN Done(a)
       ELSE Goto(a, ApplyOrder[at + 1]) /\ UNCHANGED op

\* Variant for the mutation of Conflict: a file that is gone is no conflict.
ConflictOnDisk(x) ==
    disk[x[1]] # None /\ baselines[x] \notin {None, TextAt(x[1])}
\* _preview_conflict: the file is not what the preview has shown.
Conflict(x) == baselines[x] \notin {None, TextAt(x[1])}

\* The file is read and the patch gets its id, unless there is a conflict.
Read(a) ==
    /\ pc[a] = "read"
    /\ LET o == op[a] IN
       IF Conflict(<<o.path, o.new>>)
       THEN Done(a) /\ UNCHANGED patches
       ELSE /\ Len(patches) < MaxPatches
            /\ patches' = Append(patches, [path |-> o.path, new |-> o.new,
                                           before |-> None])
            /\ op' = [op EXCEPT ![a].orig = TextAt(o.path),
                                ![a].id = Len(patches')]
            /\ Goto(a, ApplyOrder[2])
    /\ UNCHANGED <<disk, dataVars, raced, last, edit, lost, torn, viewer,
                   keyHistory, bounds>>

\* Variants for the mutation of SnapshotText: the file is read once more, and
\* its bytes are copied.
TextNow(o) == TextAt(o.path)
BytesNow(o) == IF disk[o.path] = None THEN Empty ELSE disk[o.path]
\* The text that was read goes to the snapshot.
SnapshotText(o) == o.orig

TakeSnapshot(a) ==
    /\ pc[a] = "snapshot"
    /\ snaps' = [snaps EXCEPT ![op[a].id] = SnapshotText(op[a])]
    /\ Advance(a)
    /\ UNCHANGED <<disk, sessions, baselines, cached, fileHistory, viewer,
                   keyHistory, bounds>>

\* The file of a's operation becomes c, whatever it has become since a read it.
\* A rollback has not read it.
Overwrite(a, c) ==
    LET o == op[a]
        applies == o.kind = "apply"
        changed == TextAt(o.path) # o.orig
    IN /\ disk' = [disk EXCEPT ![o.path] = c]
       /\ patches' = IF applies THEN [patches EXCEPT ![o.id].before =
                                          disk[o.path]]
                                ELSE patches
       /\ raced' = IF applies /\ changed THEN raced \cup {o.id} ELSE raced
       /\ lost' = IF last[o.path] = ByUser /\ (applies => changed)
                  THEN lost \cup {o.path} ELSE lost

WriteFile(a) ==
    /\ pc[a] = "write" /\ op[a].kind = "apply"
    /\ Overwrite(a, op[a].new) /\ LastWriter(op[a].path, "apply", op[a].id)
    /\ runs' = [k \in Keys |-> IF k = op[a].key THEN runs[k] + 1 ELSE runs[k]]
    /\ Advance(a)
    /\ UNCHANGED <<dataVars, edit, torn, viewer, unsure, bounds>>

SaveSession(a) ==
    /\ pc[a] = "save" /\ op[a].kind = "apply"
    /\ sessions' = [sessions EXCEPT ![op[a].id] = "applied"]
    /\ Advance(a)
    /\ UNCHANGED <<disk, snaps, baselines, cached, fileHistory, viewer,
                   keyHistory, bounds>>

\* _delete_preview_baseline: whose preview it was does not matter.
DropBaseline(a) ==
    /\ pc[a] = "unlist"
    /\ LET x == <<op[a].path, op[a].new>> IN
       /\ baselines' = [baselines EXCEPT ![x] = None]
       /\ viewer' = [viewer EXCEPT ![x] = None]
    /\ Advance(a)
    /\ UNCHANGED <<disk, snaps, sessions, cached, fileHistory, keyHistory,
                   bounds>>

\* Variant for the mutation of Kept: a patch that changes nothing is not kept.
KeptIfChanged(o) == o.key # None /\ o.new # o.orig
Kept(o) == o.key # None

\* The answer of an apply with a key is stored, and given.
AnswerApply(a) ==
    /\ pc[a] = "answer"
    /\ LET o == op[a] IN
       cached' = IF Kept(o)
                 THEN [cached EXCEPT ![o.key] =
                          [payload |-> <<o.path, o.new>>, id |-> o.id]]
                 ELSE cached
    /\ Advance(a)
    /\ UNCHANGED <<disk, snaps, sessions, baselines, fileHistory, viewer,
                   keyHistory, bounds>>

-----------------------------------------------------------------------------
(* rollback_patch, and what the tool does after it.                        *)

\* A session that can be loaded, is not rolled back and has its snapshot.
AskRollback(a, i) ==
    /\ pc[a] = "idle"
    /\ sessions[i] = "applied" /\ snaps[i] # None
    /\ op' = [op EXCEPT ![a] =
           [kind |-> "rollback", path |-> patches[i].path, new |-> snaps[i],
            key |-> None, orig |-> snaps[i], id |-> i]]
    /\ Goto(a, "write")
    /\ UNCHANGED <<disk, dataVars, fileHistory, viewer, keyHistory, bounds>>

\* The snapshot replaces the file, whatever the file has become.
RestoreFile(a) ==
    /\ pc[a] = "write" /\ op[a].kind = "rollback"
    /\ Overwrite(a, op[a].new)
    /\ LastWriter(op[a].path, "rollback", op[a].id)
    /\ Goto(a, "save")
    /\ UNCHANGED <<dataVars, op, edit, torn, viewer, keyHistory, bounds>>

\* The server is done; the tool goes on when original_hash is that of an empty
\* text, which it takes for a file that was not there.
MarkRolledBack(a) ==
    /\ pc[a] = "save" /\ op[a].kind = "rollback"
    /\ sessions' = [sessions EXCEPT ![op[a].id] = "rolled_back"]
    /\ IF a = Tool /\ op[a].new = Empty
       THEN Goto(a, "stat") /\ UNCHANGED op
       ELSE Done(a)
    /\ UNCHANGED <<disk, snaps, baselines, cached, fileHistory, viewer,
                   keyHistory, bounds>>

\* Variant for the mutation of IsStub: any file that is there.
IsFile(p) == disk[p] # None
\* The file has size 0.
IsStub(p) == disk[p] = Empty

\* The tool looks at the size of the file.
Stat ==
    /\ pc[Tool] = "stat"
    /\ IF IsStub(op[Tool].path)
       THEN /\ op' = [op EXCEPT ![Tool].orig = TextAt(op[Tool].path)]
            /\ Goto(Tool, "unlink")
       ELSE Done(Tool)
    /\ UNCHANGED <<disk, dataVars, fileHistory, viewer, keyHistory, bounds>>

\* The tool removes the file, whatever was written to it after the look.
Unlink ==
    /\ pc[Tool] = "unlink"
    /\ LET o == op[Tool]  p == o.path IN
       /\ disk' = [disk EXCEPT ![p] = None]
       /\ IF last[p] = <<"rollback", o.id>> THEN UNCHANGED last
                                           ELSE LastWriter(p, "unlink", o.id)
       /\ lost' = IF last[p] = ByUser /\ TextAt(p) # o.orig
                  THEN lost \cup {p} ELSE lost
    /\ Done(Tool)
    /\ UNCHANGED <<dataVars, patches, raced, edit, torn, viewer, keyHistory,
                   bounds>>

-----------------------------------------------------------------------------

\* The user, or a program of his, writes, creates or deletes a file.
Edit(p) ==
    /\ edits < MaxEdits /\ edits' = edits + 1
    /\ \E c \in Contents \cup {None} :
          /\ c # disk[p]
          /\ disk' = [disk EXCEPT ![p] = c]
          /\ edit' = [edit EXCEPT ![p] = Text(c)]
    /\ last' = [last EXCEPT ![p] = ByUser]
    /\ lost' = lost \ {p}
    /\ UNCHANGED <<dataVars, pc, op, patches, raced, torn, viewer, keyHistory,
                   troubles>>

\* A file that was being written is left cut short, which Empty stands for.
BreakInWrite(a) ==
    /\ pc[a] = "write"
    /\ Overwrite(a, Empty) /\ LastWriter(op[a].path, "break", op[a].id)
    /\ UNCHANGED <<sessions, edit, torn>>

\* The file of a session that was being saved cannot be read any more.
BreakInSave(a) ==
    /\ pc[a] = "save"
    /\ sessions' = [sessions EXCEPT ![op[a].id] = "torn"]
    /\ torn' = IF op[a].kind = "rollback" THEN torn \cup {op[a].id} ELSE torn
    /\ UNCHANGED <<disk, patches, raced, last, edit, lost>>

\* The operation of a breaks off, in the middle of a write or before a step.
Break(a) ==
    /\ pc[a] \notin {"idle", "lookup", "read"}
    /\ Trouble
    /\ \/ BreakInWrite(a)
       \/ BreakInSave(a)
       \/ UNCHANGED <<disk, sessions, fileHistory>>
    /\ unsure' = unsure \cup ({op[a].key} \ {None})
    /\ Done(a)
    /\ UNCHANGED <<snaps, baselines, cached, viewer, runs, edits>>

Step(a) ==
    \/ Read(a) \/ TakeSnapshot(a) \/ WriteFile(a) \/ SaveSession(a)
    \/ DropBaseline(a) \/ AnswerApply(a)
    \/ RestoreFile(a) \/ MarkRolledBack(a)

Next ==
    \/ \E a \in Actors, x \in Payloads :
          \/ Preview(a, x)
          \/ \E key \in IF a = Server THEN Headers ELSE {None} : Ask(a, x, key)
    \/ \E a \in Actors : \/ \E i \in Ids : AskRollback(a, i)
                         \/ Step(a) \/ Break(a)
    \/ Lookup \/ LookupFails \/ (\E k \in Keys : Expire(k))
    \/ Stat \/ Unlink
    \/ \E p \in Paths : Edit(p)

Spec == Init /\ [][Next]_vars

-----------------------------------------------------------------------------
(* Properties. *)

Labels == {"idle", "lookup", "read", "snapshot", "write", "save", "unlist",
           "answer", "stat", "unlink"}

\* The values every variable takes; an operation under way knows its session
\* from its first write on.
TypeOK ==
    /\ disk \in Tree
    /\ snaps \in [Ids -> Texts \cup {None}]
    /\ sessions \in [Ids -> {"none", "torn", "applied", "rolled_back"}]
    /\ baselines \in [Payloads -> Texts \cup {None}]
    /\ cached \in [Keys -> Answer \cup {None}]
    /\ pc \in [Actors -> Labels] /\ op \in [Actors -> Operation \cup {Nothing}]
    /\ \A a \in Actors :
          /\ op[a] = Nothing <=> pc[a] = "idle"
          /\ pc[a] # "idle" =>
                (op[a].id = 0 <=> pc[a] \in {"lookup", "read"})
    /\ patches \in Seq([path : Paths, new : Texts, before : Entry])
    /\ raced \subseteq Ids /\ lost \subseteq Paths /\ torn \subseteq Ids
    /\ last \in [Paths -> Writers]
    /\ edit \in [Paths -> Texts]
    /\ viewer \in [Payloads -> Actors \cup {None}]
    /\ runs \in [Keys -> Nat] /\ unsure \subseteq Keys
    /\ edits \in Nat /\ troubles \in Nat

\* Every session on disk can give back what its patch has overwritten, unless
\* the file changed between the read and the write of the patch.
SessionsRestore ==
    \A i \in Ids : sessions[i] # "none" =>
        /\ snaps[i] # None
        /\ i \in raced \/ snaps[i] = Text(patches[i].before)

\* The user's last edit of a file is in the file or in a snapshot, even of a
\* patch that broke off, unless it came between the read and the write of a
\* patch, a rollback replaced it, or it came between the tool's look at the
\* size and its unlink.
EditsKept ==
    \A p \in Paths : \/ last[p] = ByUser
                     \/ p \in lost
                     \/ \E i \in 1..Len(patches) :
                           patches[i].path = p /\ snaps[i] = edit[p]

\* A patch that its actor has previewed overwrites the text of the preview,
\* unless the file changed after the patch read it or another actor previewed
\* or applied the same payload meanwhile.
PreviewGuards ==
    [][\A a \in Actors : LET x == <<op[a].path, op[a].new>> IN
          WriteFile(a) /\ viewer[x] = a =>
              baselines[x] = TextAt(x[1]) \/ op[a].id \in raced']_vars

\* A file that was last written by a rollback, the tool's unlink included, has
\* the text that the patch of that session had overwritten, whatever came in
\* between, unless the file changed between the read and the write of that
\* patch.  A file that was not there is left empty by the server.
RollbackRestores ==
    \A p \in Paths, i \in 1..Len(patches) :
        last[p] = <<"rollback", i>> =>
            i \in raced \/ TextAt(p) = Text(patches[i].before)

\* A key applies its patch once, unless its request broke off before the answer
\* was stored, or the row was not found or expired.
KeyAppliesOnce == \A k \in Keys : k \notin unsure => runs[k] <= 1

\* A client that is given a stored answer can load the session it names, unless
\* the rollback of that session broke off, and the session is one of its patch.
AnswersHold ==
    \A k \in Keys : cached[k] # None =>
        LET i == cached[k].id IN
        /\ sessions[i] \in {"applied", "rolled_back"} \/ i \in torn
        /\ cached[k].payload = <<patches[i].path, patches[i].new>>
=============================================================================
