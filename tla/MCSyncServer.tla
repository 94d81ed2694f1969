---------------------------- MODULE MCSyncServer ----------------------------
(* SyncServer on small instances. *)
EXTENDS SyncServer

CONSTANTS p1, p2, v1, v2, x

Put(c) == [files |-> c, dels |-> {}, clientRevision |-> 0]
Only(p, c) == [q \in Paths |-> IF q = p THEN c ELSE None]
Delete(p) == [files |-> NoFiles, dels |-> {p}, clientRevision |-> 0]

\* Two versions of a file, a version of it that the semantic index leaves out,
\* its deletion, and a batch of two files.
SerialBatches ==
    {Put(Only(p1, v1)), Put(Only(p1, v2)), Put(Only(p1, x)), Delete(p1),
     Put([p \in Paths |-> v1])}

\* Two versions of a file from clients at different revisions.
RacingBatches ==
    {Put(Only(p1, v1)), [Put(Only(p1, v2)) EXCEPT !.clientRevision = 2]}

\* The same and its deletion from one client, a revision ahead of a fresh store.
AheadBatches ==
    {[b EXCEPT !.clientRevision = 2] : b \in RacingBatches \cup {Delete(p1)}}
=============================================================================
