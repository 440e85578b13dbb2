------------------------- MODULE MCRewindTransaction -------------------------
(* Small sessions: the bounds of each question are in its configuration.    *)
EXTENDS RewindTransaction, TLC

\* The contents of a file are interchangeable.
Symmetry == Permutations(Contents)
=============================================================================
