------------------------------ MODULE Registry ------------------------------
(***************************************************************************)
(* What the capability router's registry is to the calls that go through   *)
(* it (chassis-core/src/router.rs), with its locks left out.               *)
(*                                                                         *)
(* A plugin is mounted at once: what it offers and its supervisor are      *)
(* there together.  A call is led from a capability to an id and later     *)
(* takes the supervisor that id has then, for which there always is one.   *)
(* A supervisor whose id another one took is dropped some time, but never  *)
(* while a call has hold of it, be it as the provider or to ask the user.  *)
(***************************************************************************)

CONSTANTS
  Calls,
  Boots,     \* the supervisors that get mounted
  IdOf,      \* their plugin ids
  Caps,
  Offers,    \* the capabilities of each of Boots
  None

VARIABLES
  waiting,   \* the supervisors not mounted yet
  offers,    \* the id each capability leads to
  table,     \* the supervisor of each id
  dropped,   \* the supervisors that were replaced and are gone
  chosen,    \* the id each call was led to
  provider,  \* the supervisor it has taken
  asking     \* the one it has taken to ask the user

vars == <<waiting, offers, table, dropped, chosen, provider, asking>>

Init ==
  /\ waiting = Boots
  /\ offers = [x \in Caps |-> None]
  /\ table = [i \in {IdOf[b] : b \in Boots} |-> None]
  /\ dropped = {}
  /\ chosen = [c \in Calls |-> None]
  /\ provider = [c \in Calls |-> None]
  /\ asking = [c \in Calls |-> None]

Mount(b) ==
  /\ b \in waiting
  /\ waiting' = waiting \ {b}
  /\ offers' = [x \in Caps |-> IF x \in Offers[b] THEN IdOf[b] ELSE offers[x]]
  /\ table' = [table EXCEPT ![IdOf[b]] = b]
  /\ UNCHANGED <<dropped, chosen, provider, asking>>

Drop(b) ==
  /\ b \notin waiting \cup dropped
  /\ table[IdOf[b]] # b
  /\ \A c \in Calls : provider[c] # b /\ asking[c] # b
  /\ dropped' = dropped \cup {b}
  /\ UNCHANGED <<waiting, offers, table, chosen, provider, asking>>

Choose(c, x) ==
  /\ chosen[c] = None
  /\ offers[x] # None
  /\ chosen' = [chosen EXCEPT ![c] = offers[x]]
  /\ UNCHANGED <<waiting, offers, table, dropped, provider, asking>>

Take(c) ==
  /\ chosen[c] # None
  /\ provider[c] = None
  /\ table[chosen[c]] # None
  /\ provider' = [provider EXCEPT ![c] = table[chosen[c]]]
  /\ \E ui \in {table[i] : i \in DOMAIN table} \cup {None} : asking' = [asking EXCEPT ![c] = ui]
  /\ UNCHANGED <<waiting, offers, table, dropped, chosen>>

(* The user has answered.                                                  *)
Told(c) ==
  /\ asking[c] # None
  /\ asking' = [asking EXCEPT ![c] = None]
  /\ UNCHANGED <<waiting, offers, table, dropped, chosen, provider>>

(* The call returns, or is refused before it takes anything.               *)
Return(c) ==
  /\ chosen[c] # None
  /\ table[chosen[c]] # None
  /\ chosen' = [chosen EXCEPT ![c] = None]
  /\ provider' = [provider EXCEPT ![c] = None]
  /\ asking' = [asking EXCEPT ![c] = None]
  /\ UNCHANGED <<waiting, offers, table, dropped>>

Next ==
  \/ \E b \in Boots : Mount(b) \/ Drop(b)
  \/ \E c \in Calls : Take(c) \/ Told(c) \/ Return(c) \/ \E x \in Caps : Choose(c, x)

Spec == Init /\ [][Next]_vars

=============================================================================
