------------------------------- MODULE MCWal --------------------------------
(* Model-checking instances of Wal. *)
EXTENDS Wal, TLC

Interchangeable == Permutations(Bodies) \cup Permutations(Writers)

=============================================================================
