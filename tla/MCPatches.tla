----------------------------- MODULE MCPatches -----------------------------
(* Patches on small instances. *)
EXTENDS Patches, TLC

CONSTANTS p1, v, w, raw

\* The bytes of raw are no text: w is what decoding leaves of them.
Decoded == [c \in Contents |-> IF c = raw THEN w ELSE c]
\* No file, or one that is no text.
NoneOrRaw == {NoFiles, [p \in Paths |-> raw]}
OnePatch == {<<p1, v>>}
=============================================================================
