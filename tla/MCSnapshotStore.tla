-------------------------- MODULE MCSnapshotStore --------------------------
(* SnapshotStore on small instances. *)
EXTENDS SnapshotStore

CONSTANTS p1, p2, v1, v2, t1, t2, router, job

Put(p, c) ==
    [NoChange EXCEPT !.files = [q \in Paths |-> IF q = p THEN c ELSE None]]

\* Two versions of a file, its deletion, and a batch that writes one file and
\* deletes another.
SomeChanges ==
    {Put(p1, v1), Put(p1, v2), [NoChange EXCEPT !.dels = {p1}],
     [Put(p2, v1) EXCEPT !.dels = {p1}]}

RouterOnly == [t \in Threads |-> router]
\* The second thread belongs to an indexing job.
RouterAndJob == [t \in Threads |-> IF t = t1 THEN router ELSE job]
=============================================================================
