------------------------- MODULE MCTemporaryStorage -------------------------
(* Small instances of TemporaryStorage.  The storage is created without a  *)
(* limit or with one that two one-unit files fill.                         *)
EXTENDS TemporaryStorage, TLC

NoLimit == -1
MCLimits == {NoLimit, 2}

Symmetry == Permutations(Writers)
=============================================================================
