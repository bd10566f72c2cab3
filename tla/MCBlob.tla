------------------------------- MODULE MCBlob -------------------------------
(***************************************************************************)
(* Small instances of BlobStore: one content-addressed source and one log  *)
(* that two attempts might fill differently.                               *)
(***************************************************************************)
EXTENDS BlobStore, TLC

CONSTANTS t1, t2, i1, i2, i3, i4, source, log, code, out1, out2

\* A source's bytes follow from its hash; a log's do not follow from its key.
Holdings == [k \in Keys |-> IF k = source THEN {code} ELSE {out1, out2}]

Symmetry == Permutations(Tasks) \cup Permutations(Inodes)
=============================================================================
