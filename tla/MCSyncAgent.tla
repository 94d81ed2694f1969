---------------------------- MODULE MCSyncAgent ----------------------------
(* SyncAgent on small instances. *)
EXTENDS SyncAgent

CONSTANTS p1, p2, v1, v2

\* Every content is the text it decodes to.
AllText == [c \in Contents |-> c]
\* Paths and texts are alike.
Symmetry == Permutations({p1, p2}) \cup Permutations({v1, v2})
=============================================================================
