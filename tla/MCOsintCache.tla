---------------------------- MODULE MCOsintCache ----------------------------
(* OsintCache for TLC: tasks, and keys of a kind, are interchangeable.     *)
EXTENDS OsintCache, TLC

Symmetry == Permutations(Tasks) \cup Permutations(Keys \ Lenient)
=============================================================================
