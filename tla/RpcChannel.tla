----------------------------- MODULE RpcChannel -----------------------------
(***************************************************************************)
(* What the supervisor of a plugin process promises to the code that calls *)
(* it (chassis-core/src/process.rs, send_request), with the wire, the      *)
(* queues, the ids and the tasks left out.                                 *)
(*                                                                         *)
(* Every call is opened once and closed at most once.  A call is closed    *)
(* with a reply only when the plugin read that very call, and it is closed *)
(* with an error only when a pipe to the plugin has really broken.  A      *)
(* caller that gives up (a tokio timeout around send_request) closes its   *)
(* call, whatever the plugin does with the request afterwards.             *)
(***************************************************************************)

CONSTANT Calls      (* the calls of send_request, one element per call *)

VARIABLES
  status,    \* status[c]: how far call c is, as its caller sees it
  served,    \* calls whose request the plugin has read
  broken     \* a pipe to or from the plugin has failed

vars == <<status, served, broken>>

Closed == {"replied", "unavailable", "cancelled"}

Init ==
  /\ status = [c \in Calls |-> "new"]
  /\ served = {}
  /\ broken = FALSE

Open(c) ==
  /\ status[c] = "new"
  /\ status' = [status EXCEPT ![c] = "open"]
  /\ UNCHANGED <<served, broken>>

(* The plugin reads the request; the caller may have given up already.     *)
Serve(c) ==
  /\ status[c] \in {"open"} \cup Closed
  /\ c \notin served
  /\ served' = served \cup {c}
  /\ UNCHANGED <<status, broken>>

Reply(c) ==
  /\ status[c] = "open"
  /\ c \in served
  /\ status' = [status EXCEPT ![c] = "replied"]
  /\ UNCHANGED <<served, broken>>

Fails(c) ==
  /\ status[c] = "open"
  /\ broken
  /\ status' = [status EXCEPT ![c] = "unavailable"]
  /\ UNCHANGED <<served, broken>>

Cancel(c) ==
  /\ status[c] = "open"
  /\ status' = [status EXCEPT ![c] = "cancelled"]
  /\ UNCHANGED <<served, broken>>

Break ==
  /\ ~broken
  /\ broken' = TRUE
  /\ UNCHANGED <<status, served>>

Next ==
  \/ \E c \in Calls :
       Open(c) \/ Serve(c) \/ Reply(c) \/ Fails(c) \/ Cancel(c)
  \/ Break

Spec == Init /\ [][Next]_vars

=============================================================================
