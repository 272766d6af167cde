------------------------------- MODULE Router -------------------------------
(***************************************************************************)
(* The capability router of chassis-core/src/router.rs: plugins register   *)
(* while calls are dispatched, a dispatch holds the table of plugins until *)
(* its provider has answered, and a provider may dispatch calls of its own *)
(* meanwhile.                                                              *)
(*                                                                         *)
(* The locks are tokio RwLocks, which are fair: a reader waits behind a    *)
(* queued writer.  capability_map and ui_plugin_id are read at once, so a  *)
(* dispatch holds only `plugins`; register_plugin holds capability_map     *)
(* while it queues for `plugins`.  The transport is what RpcChannel says,  *)
(* with every call to a dead plugin answered.                              *)
(***************************************************************************)
EXTENDS Naturals, Sequences, FiniteSets

CONSTANTS
  Calls,       \* the dispatch tasks there may be
  Boots,       \* the PluginSupervisors that get registered, in any order
  IdOf,        \* their plugin ids; a plugin installed twice has one id
  Caps,        \* capabilities
  Asks,        \* the requests made: a capability, whether the human-in-the-loop
               \* rules match it, and whether its parameters leave the lease
  Offers,      \* capabilities_offered of each of Boots
  Requires,    \* capabilities_required of each of Boots
  Callers,     \* those of Boots that make calls themselves
  UiCap,       \* "ui.prompt" or "ui.render"
  Host,        \* "cli" and "agent_core", the callers that are not plugins
  None,
  Modes,       \* the ExecutionModes the router may have been made with
  WalFails     \* whether an append to the log may fail

ASSUME RouterAssumption ==
  /\ {Host, "yes"} \cap Boots = {}
  /\ None \notin Boots \cup {Host} \cup Calls \cup {IdOf[b] : b \in Boots}
  /\ UiCap \in Caps
  /\ Callers \subseteq Boots
  /\ IdOf \in [Boots -> {IdOf[b] : b \in Boots}]
  /\ Offers \in [Boots -> SUBSET Caps]
  /\ Requires \in [Boots -> SUBSET Caps]
  /\ Asks \subseteq [cap : Caps, risky : BOOLEAN, outside : BOOLEAN]
  /\ Modes \subseteq {"interactive", "fail", "auto_approve"}
  /\ WalFails \in BOOLEAN

Ids == {IdOf[b] : b \in Boots}

VARIABLES
  mode,        \* ExecutionMode
  toBoot,      \* the supervisors not registered yet
  booting,     \* the one in register_plugin, holding capability_map
  capMap,      \* capability_map
  uiId,        \* ui_plugin_id
  plugins,     \* the supervisor of each id
  dead,        \* supervisors whose process is gone
  pc,          \* where each dispatch is
  req,         \* its caller, the call its caller serves, and its request
  target,      \* target_plugin_id
  provider,    \* the supervisor found under it
  asked,       \* the UI plugin asked about the call, "yes" once it said so
  log          \* the session's write-ahead log

vars == <<mode, toBoot, booting, capMap, uiId, plugins, dead, pc, req, target, provider,
          asked, log>>

registry == <<toBoot, booting, capMap, uiId, plugins, dead>>

Request == [caller : {Host} \cup Callers, parent : Calls \cup {None}, ask : Asks]

Holding == {"asking", "approved", "invoking", "answered"}
Ends == {"unknown", "missing", "undeclared", "denied", "rejected", "error", "ok"}
PCs == {"idle", "new", "resolved"} \cup Holding \cup Ends

(* The dispatches that hold `plugins`.                                     *)
Readers == {c \in Calls : pc[c] \in Holding}

(* The dispatches that have not returned, and whether those made for one   *)
(* have.                                                                   *)
Live == {c \in Calls : pc[c] \notin {"idle"} \cup Ends}
Returned(c) == \A d \in Live : req[d].parent # c

Registered(b) == plugins[IdOf[b]] = b

-----------------------------------------------------------------------------

Init ==
  /\ mode \in Modes
  /\ toBoot = Boots
  /\ booting = None
  /\ capMap = [x \in Caps |-> None]
  /\ uiId = None
  /\ plugins = [i \in Ids |-> None]
  /\ dead = {}
  /\ pc = [c \in Calls |-> "idle"]
  /\ req = [c \in Calls |-> None]
  /\ target = [c \in Calls |-> None]
  /\ provider = [c \in Calls |-> None]
  /\ asked = [c \in Calls |-> None]
  /\ log = <<>>

(* Slip: capability_map is released before `plugins` is asked for.         *)
RegisterUnheld(b) ==
  /\ booting = None
  /\ b \in toBoot
  /\ \/ /\ \E x \in Offers[b] : capMap[x] # IdOf[b]
        /\ capMap' = [x \in Caps |-> IF x \in Offers[b] THEN IdOf[b] ELSE capMap[x]]
        /\ UNCHANGED <<booting, toBoot>>
     \/ /\ \A x \in Offers[b] : capMap[x] = IdOf[b]
        /\ booting' = b
        /\ toBoot' = toBoot \ {b}
        /\ UNCHANGED capMap
  /\ UNCHANGED <<mode, uiId, plugins, dead, pc, req, target, provider, asked, log>>

(* register_plugin takes capability_map for writing, enters what b offers  *)
(* and queues for `plugins`.  The CLI boots its plugins one after another. *)
Register(b) ==
  /\ booting = None
  /\ b \in toBoot
  /\ booting' = b
  /\ toBoot' = toBoot \ {b}
  /\ capMap' = [x \in Caps |-> IF x \in Offers[b] THEN IdOf[b] ELSE capMap[x]]
  /\ uiId' = IF UiCap \in Offers[b] THEN IdOf[b] ELSE uiId
  /\ UNCHANGED <<mode, plugins, dead, pc, req, target, provider, asked, log>>

(* Slip: the write lock on `plugins` is not waited for.                    *)
EnterAtOnce ==
  /\ booting # None
  /\ plugins' = [plugins EXCEPT ![IdOf[booting]] = booting]
  /\ dead' = dead \cup ({plugins[IdOf[booting]]} \ {None})
  /\ booting' = None
  /\ UNCHANGED <<mode, toBoot, capMap, uiId, pc, req, target, provider, asked, log>>

(* Slip: insert is taken to return a supervisor, also when there was none. *)
EnterUnchecked ==
  /\ booting # None
  /\ Readers = {}
  /\ plugins' = [plugins EXCEPT ![IdOf[booting]] = booting]
  /\ dead' = dead \cup {plugins[IdOf[booting]]}
  /\ booting' = None
  /\ UNCHANGED <<mode, toBoot, capMap, uiId, pc, req, target, provider, asked, log>>

(* It gets `plugins` when the last reader leaves.  A supervisor b replaces *)
(* is dropped, and its process killed.                                     *)
Enter ==
  /\ booting # None
  /\ Readers = {}
  /\ plugins' = [plugins EXCEPT ![IdOf[booting]] = booting]
  /\ dead' = dead \cup ({plugins[IdOf[booting]]} \ {None})
  /\ booting' = None
  /\ UNCHANGED <<mode, toBoot, capMap, uiId, pc, req, target, provider, asked, log>>

(* A plugin's process dies; the router keeps its supervisor.               *)
Die(b) ==
  /\ Registered(b)
  /\ b \notin dead
  /\ dead' = dead \cup {b}
  /\ UNCHANGED <<mode, toBoot, booting, capMap, uiId, plugins, pc, req, target, provider,
                 asked, log>>

(* A dispatch begins: from the CLI or the web server, or from a plugin,    *)
(* which has the reverse channel from its launch on, on its own account or *)
(* for a call it is serving.                                               *)
Dispatch(c) ==
  /\ pc[c] = "idle"
  /\ \E r \in Request :
       /\ IF r.caller = Host
          THEN r.parent = None
          ELSE /\ r.caller \notin dead
               /\ \/ r.parent = None
                  \/ /\ r.parent \in Calls \ {c}
                     /\ pc[r.parent] = "invoking"
                     /\ provider[r.parent] = r.caller
       /\ req' = [req EXCEPT ![c] = r]
  /\ pc' = [pc EXCEPT ![c] = "new"]
  /\ UNCHANGED <<mode, registry, target, provider, asked, log>>

(* The dispatch of c ends, and its frame is gone.                          *)
Finish(c, how) ==
  /\ pc' = [pc EXCEPT ![c] = how]
  /\ req' = [req EXCEPT ![c] = None]
  /\ target' = [target EXCEPT ![c] = None]
  /\ provider' = [provider EXCEPT ![c] = None]
  /\ asked' = [asked EXCEPT ![c] = None]

(* A registration holds capability_map from its first step to its last,    *)
(* and holds `plugins` or queues for it: no reader gets past it.           *)
MapIsFree == booting = None

(* Slip: dispatch locks the table for writing.                             *)
TableIsUnused == booting = None /\ Readers = {}

TableIsFree == booting = None

(* 1. The id of the provider is read from capability_map.                  *)
Resolve(c) ==
  /\ pc[c] = "new"
  /\ MapIsFree
  /\ \/ /\ capMap[req[c].ask.cap] = None
        /\ Finish(c, "unknown")
     \/ /\ capMap[req[c].ask.cap] # None
        /\ target' = [target EXCEPT ![c] = capMap[req[c].ask.cap]]
        /\ pc' = [pc EXCEPT ![c] = "resolved"]
        /\ UNCHANGED <<req, provider, asked>>
  /\ UNCHANGED <<mode, registry, log>>

(* 1b. A caller that is a registered plugin has declared the capability;   *)
(* any other caller passes.                                                *)
Declared(c) ==
  \/ req[c].caller = Host
  \/ plugins[IdOf[req[c].caller]] = None
  \/ req[c].ask.cap \in Requires[plugins[IdOf[req[c].caller]]]

(* What the gates of dispatch make of c with `plugins` held: the ask goes  *)
(* to the UI plugin if there is one, and the call through if there is not. *)
Verdict(c) ==
  CASE plugins[target[c]] = None -> "missing"
    [] plugins[target[c]] # None /\ ~Declared(c) -> "undeclared"
    [] plugins[target[c]] # None /\ Declared(c) /\ req[c].ask.outside -> "denied"
    [] OTHER ->
         IF req[c].ask.risky /\ mode = "fail" THEN "rejected"
         ELSE IF req[c].ask.risky /\ mode = "interactive" /\ uiId # None
                 /\ plugins[uiId] # None THEN "asking"
         ELSE "approved"

(* 1 to 3. `plugins` is taken for reading, and kept unless the dispatch    *)
(* ends here.                                                              *)
Gate(c) ==
  /\ pc[c] = "resolved"
  /\ TableIsFree
  /\ \/ /\ Verdict(c) \in Ends
        /\ Finish(c, Verdict(c))
     \/ /\ Verdict(c) \in Holding
        /\ pc' = [pc EXCEPT ![c] = Verdict(c)]
        /\ provider' = [provider EXCEPT ![c] = plugins[target[c]]]
        /\ asked' = [asked EXCEPT ![c] = IF Verdict(c) = "asking" THEN plugins[uiId] ELSE None]
        /\ UNCHANGED <<req, target>>
  /\ UNCHANGED <<mode, registry, log>>

(* The UI plugin answers request_permission, or is gone.                   *)
UserAccepts(c) ==
  /\ pc[c] = "asking"
  /\ asked[c] \notin dead
  /\ asked' = [asked EXCEPT ![c] = "yes"]
  /\ pc' = [pc EXCEPT ![c] = "approved"]
  /\ UNCHANGED <<mode, registry, req, target, provider, log>>

(* Slip: an answer that is not a yes is taken for one.                     *)
UserRefusesInVain(c) ==
  /\ pc[c] = "asking"
  /\ asked[c] \notin dead
  /\ pc' = [pc EXCEPT ![c] = "approved"]
  /\ UNCHANGED <<mode, registry, req, target, provider, asked, log>>

UserRefuses(c) ==
  /\ pc[c] = "asking"
  /\ asked[c] \notin dead
  /\ Finish(c, "rejected")
  /\ UNCHANGED <<mode, registry, log>>

UserIsGone(c) ==
  /\ pc[c] = "asking"
  /\ asked[c] \in dead
  /\ Finish(c, "error")
  /\ UNCHANGED <<mode, registry, log>>

Entry(event, c) == [event |-> event, call |-> c]

(* An append whose result is ignored.                                      *)
Appended(l, e) == {Append(l, e)} \cup (IF WalFails THEN {l} ELSE {})

(* Slip: the request goes out before its start is logged.                  *)
LogCheckOnly(c) ==
  /\ pc[c] = "approved"
  /\ log' \in Appended(log, Entry("check", c))
  /\ pc' = [pc EXCEPT ![c] = "invoking"]
  /\ UNCHANGED <<mode, registry, req, target, provider, asked>>

(* 4. Two entries under the one lock, and the request goes to the provider.*)
LogStart(c) ==
  /\ pc[c] = "approved"
  /\ \E l \in Appended(log, Entry("check", c)) : log' \in Appended(l, Entry("start", c))
  /\ pc' = [pc EXCEPT ![c] = "invoking"]
  /\ UNCHANGED <<mode, registry, req, target, provider, asked>>

(* 5. The provider answers, once the calls it made for c have come back.   *)
Answer(c) ==
  /\ pc[c] = "invoking"
  /\ provider[c] \notin dead
  /\ Returned(c)
  /\ pc' = [pc EXCEPT ![c] = "answered"]
  /\ UNCHANGED <<mode, registry, req, target, provider, asked, log>>

(* It is gone: dispatch returns the error, and logs nothing.               *)
InvokeFails(c) ==
  /\ pc[c] = "invoking"
  /\ provider[c] \in dead
  /\ Finish(c, "error")
  /\ UNCHANGED <<mode, registry, log>>

(* 6. The completion is logged and `plugins` released.                     *)
LogEnd(c) ==
  /\ pc[c] = "answered"
  /\ log' \in Appended(log, Entry("end", c))
  /\ Finish(c, "ok")
  /\ UNCHANGED <<mode, registry>>

Moves(c) ==
  \/ Resolve(c) \/ Gate(c) \/ LogStart(c) \/ LogEnd(c) \/ InvokeFails(c) \/ UserIsGone(c)

Next ==
  \/ \E b \in Boots : Register(b) \/ Die(b)
  \/ Enter
  \/ \E c \in Calls : Dispatch(c) \/ Moves(c) \/ UserAccepts(c) \/ UserRefuses(c) \/ Answer(c)

Spec == Init /\ [][Next]_vars

(* The runtime polls every task that can go on, and the boot goes through  *)
(* its list; plugins that live answer, and the user does.                  *)
FairSpec ==
  /\ Spec
  /\ WF_vars(Enter)
  /\ \A b \in Boots : WF_vars(Register(b))
  /\ \A c \in Calls : WF_vars(Moves(c)) /\ WF_vars(UserAccepts(c) \/ UserRefuses(c))
                     /\ WF_vars(Answer(c))

-----------------------------------------------------------------------------
(* Properties.                                                             *)

TypeOK ==
  /\ mode \in Modes
  /\ toBoot \subseteq Boots
  /\ booting \in (Boots \ toBoot) \cup {None}
  /\ capMap \in [Caps -> Ids \cup {None}]
  /\ uiId \in Ids \cup {None}
  /\ plugins \in [Ids -> Boots \cup {None}]
  /\ dead \subseteq Boots \ toBoot
  /\ pc \in [Calls -> PCs]
  /\ req \in [Calls -> Request \cup {None}]
  /\ target \in [Calls -> Ids \cup {None}]
  /\ provider \in [Calls -> Boots \cup {None}]
  /\ asked \in [Calls -> Boots \cup {None, "yes"}]
  /\ log \in Seq([event : {"check", "start", "end"}, call : Calls])

(* A capability that resolves has its plugin, whatever registers meanwhile *)
(* ("Target plugin not found" never happens, router.rs 60, 99-102), and    *)
(* the supervisor a dispatch is using is the one registered: registering a *)
(* plugin again never drops it under a call (the read guard of router.rs   *)
(* 99 is held to the end).                                                 *)
ProviderStays ==
  /\ \A c \in Calls : pc[c] # "missing"
  /\ \A c \in Readers : plugins[target[c]] = provider[c] /\ provider[c] # None

(* Positions of an entry in the log.                                       *)
At(event, c) == {i \in 1 .. Len(log) : log[i] = Entry(event, c)}

(* The log is written ahead, and tells who ran: a request is with its      *)
(* provider only after its start is logged, once, right behind its check,  *)
(* and a start without an end is a call in flight or one that failed       *)
(* (DESIGN_LOG section 7, The Chassis Write-Ahead Guarantee).              *)
WriteAhead ==
  \A c \in Calls :
    /\ pc[c] \in {"invoking", "answered", "ok"} =>
         Cardinality(At("start", c)) = 1
    /\ \A i \in At("start", c) : i - 1 \in At("check", c)
    /\ \A i \in At("end", c) : \E j \in At("start", c) : j < i
    /\ At("start", c) # {} /\ At("end", c) = {} => pc[c] \in {"invoking", "answered", "error"}

(* A call the user is asked about runs only after a yes, and a risky one   *)
(* never in the mode that has nobody to ask: neither a refusal nor the     *)
(* death of the UI plugin lets it through (router.rs 190-235).             *)
AnswerIsObeyed ==
  \A c \in Calls :
    pc[c] \in {"approved", "invoking", "answered"} =>
      /\ asked[c] \notin Boots
      /\ ~(req[c].ask.risky /\ mode = "fail")

(* No circular wait: while no registration is under way some dispatch can  *)
(* take its next step, however calls are nested in one another and share   *)
(* the table.  (With a registration in between there is one: router.rs 60, *)
(* 72, 84 and 99.)                                                         *)
CanGoOn(c) ==
  CASE pc[c] = "new" -> MapIsFree
    [] pc[c] = "resolved" -> TableIsFree
    [] pc[c] = "invoking" -> provider[c] \in dead \/ Returned(c)
    [] pc[c] \in {"asking", "approved", "answered"} -> TRUE

NeverStuck == booting = None /\ Live # {} => \E c \in Live : CanGoOn(c)

(* Registering is atomic to the calls, though register_plugin enters what  *)
(* a plugin offers first and its supervisor later, and dispatch reads the  *)
(* two under different locks; and the supervisor it drops is in nobody's   *)
(* hands, neither as a provider nor to ask the user (router.rs 58-74, 82,  *)
(* 99-102, 207-220).                                                       *)
Mounted == IF booting = None THEN plugins ELSE [plugins EXCEPT ![IdOf[booting]] = booting]

Dropped == {b \in Boots \ (toBoot \cup {booting}) : ~Registered(b)}

(* The UI plugin a call is waiting for.                                    *)
Asking == [c \in Calls |-> IF asked[c] = "yes" THEN None ELSE asked[c]]

Atomic == INSTANCE Registry WITH
            waiting <- toBoot,
            offers <- capMap,
            table <- Mounted,
            dropped <- Dropped,
            chosen <- target,
            asking <- Asking

ImplementsRegistry == Atomic!Spec

(* Every dispatch returns and the boot ends.  The CLI and the web server   *)
(* make their calls when the boot is over; then it holds, however calls    *)
(* nest and plugins die.                                                   *)
Returns == \A c \in Calls : pc[c] = "new" ~> pc[c] \in Ends
Booted == toBoot = {} /\ booting = None
BootedFirst == [](Booted \/ \A c \in Calls : pc[c] = "idle")

ReturnsAfterBoot == BootedFirst => Returns /\ <>Booted

=============================================================================
