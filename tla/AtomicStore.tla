----------------------------- MODULE AtomicStore -----------------------------
(***************************************************************************)
(* What CloudSnapshotStore promises about one workspace: a batch takes     *)
(* effect as a whole, a revision is marked indexed only when it has been   *)
(* accepted, neither revision goes back, and what status() reports is the  *)
(* store as it is or as it was before, never older than what it reported.  *)
(***************************************************************************)
EXTENDS WorkspaceTree

CONSTANTS
    Changes,   \* the changes batches make: a subset of Change
    Revisions  \* the revisions batches and the indexer name: numbers

VARIABLES
    files,     \* the content recorded for each path
    accepted,  \* accepted_revision
    indexed,   \* indexed_revision
    reported   \* the revisions status() returns

vars == <<files, accepted, indexed, reported>>

Init ==
    /\ files = NoFiles /\ accepted = 0 /\ indexed = 0
    /\ reported = [accepted |-> 0, indexed |-> 0]

\* The report catches up or stays behind.
Publish == reported' \in {reported, [accepted |-> accepted',
                                     indexed |-> indexed']}

Apply(change, revision) ==
    /\ files' = FilesThenDeletes(files, change)
    /\ accepted' = Larger(accepted, revision)
    /\ UNCHANGED indexed
    /\ Publish

Mark(revision) ==
    /\ revision <= accepted
    /\ indexed' = Larger(indexed, revision)
    /\ UNCHANGED <<files, accepted>>
    /\ Publish

CatchUp ==
    UNCHANGED <<files, accepted, indexed>> /\ Publish

Next ==
    \/ \E change \in Changes, revision \in Revisions : Apply(change, revision)
    \/ \E revision \in Revisions : Mark(revision)
    \/ CatchUp

Spec == Init /\ [][Next]_vars
=============================================================================
