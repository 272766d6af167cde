-------------------------- MODULE MCStdioTransport --------------------------
(* Model-checking instances of StdioTransport. *)
EXTENDS StdioTransport, TLC

(* Calls outside TimedCalls differ in nothing but their name.              *)
Interchangeable == Permutations(Calls \ TimedCalls)

=============================================================================
