--------------------------- MODULE MCProcessTree ----------------------------
(* Model-checking instances of ProcessTree. *)
EXTENDS ProcessTree, TLC

SamePids == Permutations(Pids)

=============================================================================
