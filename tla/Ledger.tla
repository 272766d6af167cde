------------------------------- MODULE Ledger -------------------------------
(***************************************************************************)
(* What a session's write-ahead log is meant to be (DESIGN_LOG section 7): *)
(* a list of entries that only grows, at its end, and of which the latest  *)
(* may be promised to the session before the next one is added.            *)
(***************************************************************************)
EXTENDS Naturals, Sequences

CONSTANT Bodies     (* the entries: event type, payload and timestamp *)

VARIABLES
  log,        \* the entries
  promised    \* the positions whose append was answered Ok

vars == <<log, promised>>

Init == log = <<>> /\ promised = {}

Add(b) == log' = Append(log, b) /\ UNCHANGED promised

Promise ==
  /\ log # <<>>
  /\ promised' = promised \cup {Len(log)}
  /\ UNCHANGED log

Next == (\E b \in Bodies : Add(b)) \/ Promise

Spec == Init /\ [][Next]_vars

=============================================================================
