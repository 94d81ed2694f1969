--------------------------- MODULE MCSemanticJob ---------------------------
(* SemanticJob on small instances. *)
EXTENDS SemanticJob

CONSTANTS p1, p2, v1, v2, w

Put(c) == [files |-> c, dels |-> {}, clientRevision |-> 0]
Only(p, c) == [q \in Paths |-> IF q = p THEN c ELSE None]

\* Two files at once, one more than the job's limit, and the deletion of one of
\* them with a version of the other that the worker takes and the job does not.
JobBatches ==
    {Put([p \in Paths |-> v1]),
     [files |-> Only(p2, w), dels |-> {p1}, clientRevision |-> 0]}
\* Two versions of a file.
TwoVersions == {Put(Only(p1, v1)), Put(Only(p1, v2))}

\* A new staging index is empty with force and without.
AllKinds == Kind \ {[staged |-> TRUE, force |-> TRUE]}
Staged == [staged : {TRUE}, force : {FALSE}]
=============================================================================
