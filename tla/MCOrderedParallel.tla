------------------------- MODULE MCOrderedParallel -------------------------
(* Small instances of OrderedParallel; the bounds are in the cfg files.    *)
EXTENDS OrderedParallel
=============================================================================
