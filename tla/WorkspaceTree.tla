---------------------------- MODULE WorkspaceTree ----------------------------
(***************************************************************************)
(* The files of one workspace as the sync protocol sees them: the content  *)
(* of each path, a content standing for its hash, and the changes a batch  *)
(* makes to them.                                                          *)
(***************************************************************************)
EXTENDS Integers

CONSTANTS
    Paths,     \* workspace-relative paths
    Contents,  \* file contents
    None       \* no file, or no entry for a path

Entry == Contents \cup {None}
Tree == [Paths -> Entry]
NoFiles == [p \in Paths |-> None]

\* A batch or an index job: the content of each changed path, and the
\* deleted paths.
Change == [files : Tree, dels : SUBSET Paths]
NoChange == [files |-> NoFiles, dels |-> {}]

Larger(m, n) == IF m >= n THEN m ELSE n

\* A tree after a change.  CloudSnapshotStore.apply_batch writes the files and
\* then deletes; the exact index deletes and then writes.
FilesThenDeletes(tree, c) ==
    [p \in Paths |-> IF p \in c.dels THEN None
                     ELSE IF c.files[p] # None THEN c.files[p] ELSE tree[p]]

\* Variant for the mutation of DeletesThenFiles: the deletes are forgotten.
FilesOnly(tree, c) ==
    [p \in Paths |-> IF c.files[p] # None THEN c.files[p] ELSE tree[p]]
DeletesThenFiles(tree, c) ==
    [p \in Paths |-> IF c.files[p] # None THEN c.files[p]
                     ELSE IF p \in c.dels THEN None ELSE tree[p]]
=============================================================================
