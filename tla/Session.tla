------------------------------- MODULE Session -------------------------------
(***************************************************************************)
(* A session of the command line (main.rs): `chassis run`, `chassis goal`  *)
(* (cmd_run) and `chassis ui` (cmd_ui, ui_server.rs).  It unlocks the      *)
(* vault, opens its log, boots the plugins it finds, and then dispatches   *)
(* its calls one after another or serves the dashboard until it is told to *)
(* stop.  Launching a plugin is in ProcessTree, dispatch and the death of *)
(* a plugin in Router, the log in Wal: here each succeeds or fails.        *)
(***************************************************************************)
EXTENDS Vault, Sequences, FiniteSets

CONSTANTS
  Kinds,          \* which of "test", "goal" and "ui" the session may be
  Pass,           \* the passphrase it unlocks the vault with
  Found,          \* the plugin.toml files there are: in the tree, and installed
  NoManifest,     \* before the first
  PluginOf,       \* the plugin each is about
  SecretOf,       \* the key its override refers to as "vault:<key>"
  Reference,      \* that text, unresolved
  UiGoals,        \* POST /api/goal requests
  EventCapacity   \* of the broadcast channel, 200

Manifests == UNION {Found[i] : i \in DOMAIN Found}

ASSUME SessionAssumption ==
  /\ Kinds \subseteq {"test", "goal", "ui"}
  /\ Pass \in Passphrases
  /\ Found \in Seq(SUBSET Manifests)
  /\ NoManifest \notin Manifests
  /\ DOMAIN PluginOf = Manifests
  /\ SecretOf \in [Manifests -> Keys]
  /\ Reference \notin Values \cup {NoValue, Garbage}
  /\ EventCapacity \in Nat \ {0}

VARIABLES
  kind,        \* which command it is
  kpc,         \* where it is
  unlocked,    \* unlocked_vault: none, or the secrets
  todo,        \* plugins_to_boot
  current,     \* the manifest of this round of the loop
  running,     \* the manifests whose plugin process runs
  env,         \* the secret in the environment of each
  registered,  \* the router's plugins: plugin id to manifest
  booted,      \* booted_count
  log,         \* the session's log
  left,        \* the calls still to make
  goals,       \* the dashboard's goals
  events,      \* what was sent to tx_events
  stream       \* an SSE connection: where it began, what it has shown, whether it is open

kernelVars == <<kind, kpc, unlocked, todo, current, running, env, registered, booted,
                log, left, goals, events, stream>>
vars == <<vaultVars, kernelVars>>

Calls(k) ==
  CASE k = "test" -> <<"model", "fs", "storage", "orchestrator">>
    [] k = "goal" -> <<"orchestrator">>
    [] k = "ui"   -> <<>>

Init ==
  /\ VaultInit
  /\ kind \in Kinds
  /\ kpc = "starting"
  /\ unlocked = {}
  /\ todo = Found
  /\ current = NoManifest
  /\ running = {}
  /\ env = [m \in Manifests |-> NoValue]
  /\ registered = [p \in {} |-> NoManifest]
  /\ booted = 0
  /\ log = <<>>
  /\ left = Calls(kind)
  /\ goals = [g \in UiGoals |-> "none"]
  /\ events = <<>>
  /\ stream = [since |-> 0, shown |-> <<>>, state |-> "none"]

Up == kpc \notin {"ended", "killed"}

uiVars == <<goals, events, stream>>
bootVars == <<unlocked, todo, current, env, registered>>

-----------------------------------------------------------------------------
(* The command returns, in the end or by an early return: the runtime is   *)
(* dropped, with it the router, and with it the supervisors, which kill    *)
(* their plugins.                                                          *)
Quit ==
  /\ kpc' = "ended"
  /\ running' = {}

Entry(what, about, count) == [what |-> what, about |-> about, count |-> count]

(* wal.append(..)?                                                         *)
Record(what, about, count, then) ==
  \/ /\ log' = Append(log, Entry(what, about, count))
     /\ kpc' = then
     /\ UNCHANGED running
  \/ Quit /\ UNCHANGED log

-----------------------------------------------------------------------------
(* The start.                                                              *)

(* A vault that does not open is done without.                             *)
Unlock ==
  /\ kpc = "starting"
  /\ unlocked' = IF Opens(Pass) THEN {file.secrets} ELSE {}
  /\ kpc' = "opening"
  /\ UNCHANGED <<vaultVars, kind, todo, current, running, env, registered, booted, log,
                 left, uiVars>>

Open ==
  /\ kpc = "opening"
  /\ Record("SESSION_START", kind, 0, "booting")
  /\ UNCHANGED <<vaultVars, kind, bootVars, booted, left, uiVars>>

(* The next manifest: the tree's first, in no particular order.  One that  *)
(* cannot be read or parsed ends the command.                              *)
Take(m) ==
  /\ kpc = "booting"
  /\ \E i \in DOMAIN todo :
       /\ m \in todo[i]
       /\ \A j \in 1..i - 1 : todo[j] = {}
       /\ todo' = [todo EXCEPT ![i] = @ \ {m}]
  /\ current' = m
  /\ \/ kpc' = "launching" /\ UNCHANGED running
     \/ Quit
  /\ UNCHANGED <<vaultVars, kind, unlocked, env, registered, booted, log, left, uiVars>>

(* resolve_secrets: a reference to a key that is not there, or to a vault  *)
(* that is not open, stays as it is.                                       *)
Resolve(m) ==
  IF \E secrets \in unlocked : secrets[SecretOf[m]] # NoValue
  THEN (CHOOSE secrets \in unlocked : TRUE)[SecretOf[m]]
  ELSE Reference

Launch ==
  /\ kpc = "launching"
  /\ running' = running \cup {current}
  /\ env' = [env EXCEPT ![current] = Resolve(current)]
  /\ kpc' = "registering"
  /\ UNCHANGED <<vaultVars, kind, unlocked, todo, current, registered, booted, log, left, uiVars>>

(* Slip: counted whether or not it came up.                                *)
CountsAnyway == booted' = booted + 1

Skip == UNCHANGED booted

LaunchFails ==
  /\ kpc = "launching"
  /\ kpc' = "booting"
  /\ Skip
  /\ UNCHANGED <<vaultVars, kind, bootVars, running, log, left, uiVars>>

(* register_plugin: a plugin of the same id is dropped, and so killed.     *)
Register ==
  /\ kpc = "registering"
  /\ LET id == PluginOf[current] IN
     /\ registered' = [p \in DOMAIN registered \cup {id} |->
                         IF p = id THEN current ELSE registered[p]]
     /\ running' = running \ {registered[p] : p \in DOMAIN registered \cap {id}}
  /\ kpc' = "recording"
  /\ UNCHANGED <<vaultVars, kind, unlocked, todo, current, env, booted, log, left, uiVars>>

RecordBoot ==
  /\ kpc = "recording"
  /\ Record("PLUGIN_BOOTED", PluginOf[current], 0, "booting")
  /\ booted' = booted + 1
  /\ UNCHANGED <<vaultVars, kind, bootVars, left, uiVars>>

(* All of them tried.  The dashboard needs its port.                       *)
Booted ==
  /\ kpc = "booting"
  /\ \A i \in DOMAIN todo : todo[i] = {}
  /\ \/ kpc' = (IF kind = "ui" THEN "serving" ELSE "calling") /\ UNCHANGED running
     \/ kind = "ui" /\ Quit
  /\ UNCHANGED <<vaultVars, kind, bootVars, booted, log, left, uiVars>>

-----------------------------------------------------------------------------
(* cmd_run: its calls one by one.                                          *)

Ask ==
  /\ kpc = "calling"
  /\ left # <<>>
  /\ Record("DISPATCH_START", Head(left), 0, "waiting")
  /\ UNCHANGED <<vaultVars, kind, bootVars, booted, left, uiVars>>

(* dispatch answers, with an error response or another; or it fails, and   *)
(* the command with it.                                                    *)
Answered ==
  /\ kpc = "waiting"
  /\ \/ kpc' = "answered" /\ UNCHANGED running
     \/ Quit
  /\ UNCHANGED <<vaultVars, kind, bootVars, booted, log, left, uiVars>>

Note ==
  /\ kpc = "answered"
  /\ Record("DISPATCH_RESULT", Head(left), 0, "calling")
  /\ left' = Tail(left)
  /\ UNCHANGED <<vaultVars, kind, bootVars, booted, uiVars>>

Finish ==
  /\ kpc = "calling"
  /\ left = <<>>
  /\ Quit
  /\ log' \in {log, Append(log, Entry("SESSION_END", kind, booted))}
  /\ UNCHANGED <<vaultVars, kind, bootVars, booted, left, uiVars>>

-----------------------------------------------------------------------------
(* cmd_ui: the dashboard, each connection a task of its own.               *)

PostGoal(g) ==
  /\ kpc = "serving"
  /\ goals[g] = "none"
  /\ goals' = [goals EXCEPT ![g] = "dispatched"]
  /\ UNCHANGED <<vaultVars, kind, kpc, bootVars, running, booted, log, left, events, stream>>

(* An answer, an error response too, is broadcast as GOAL_COMPLETED; a     *)
(* dispatch that fails is not.                                             *)
GoalEnds(g) ==
  /\ kpc = "serving"
  /\ goals[g] = "dispatched"
  /\ \/ /\ goals' = [goals EXCEPT ![g] = "answered"]
        /\ events' = Append(events, g)
     \/ /\ goals' = [goals EXCEPT ![g] = "failed"]
        /\ UNCHANGED events
  /\ UNCHANGED <<vaultVars, kind, kpc, bootVars, running, booted, log, left, stream>>

(* GET /api/events.                                                        *)
Subscribe ==
  /\ kpc = "serving"
  /\ stream.state = "none"
  /\ stream' = [since |-> Len(events), shown |-> <<>>, state |-> "open"]
  /\ UNCHANGED <<vaultVars, kind, kpc, bootVars, running, booted, log, left, goals, events>>

Behind == Len(events) - stream.since - Len(stream.shown)

Show(i) == stream' = [stream EXCEPT !.shown = Append(@, events[i])]

NextEvent == stream.since + Len(stream.shown) + 1

(* Slip: what was missed is passed over.                                   *)
PassesOver == Show(Len(events) - EventCapacity + 1)

(* A receiver that lags behind gets an error, which ends its loop.         *)
Lags == stream' = [stream EXCEPT !.state = "closed"]

Stream ==
  /\ kpc = "serving"
  /\ stream.state = "open"
  /\ \/ Behind \in 1..EventCapacity /\ Show(NextEvent)
     \/ Behind > EventCapacity /\ Lags
  /\ UNCHANGED <<vaultVars, kind, kpc, bootVars, running, booted, log, left, goals, events>>

(* The browser goes away.                                                  *)
Disconnect ==
  /\ stream.state = "open"
  /\ stream' = [stream EXCEPT !.state = "closed"]
  /\ UNCHANGED <<vaultVars, kind, kpc, bootVars, running, booted, log, left, goals, events>>

-----------------------------------------------------------------------------
(* Ctrl+C, or SIGKILL: nothing is dropped.                                 *)
Killed ==
  /\ Up
  /\ kpc' = "killed"
  /\ UNCHANGED <<vaultVars, kind, bootVars, running, booted, log, left, uiVars>>

(* Slip: a plugin that retries when its stdin gives nothing.               *)
ReadsOn(m) == FALSE

(* The loop of a plugin ends with its stdin, which ends with the kernel.   *)
SeesEof(m) == m \in running /\ kpc = "killed"

PluginEnds(m) ==
  /\ SeesEof(m)
  /\ running' = running \ {m}
  /\ UNCHANGED <<vaultVars, kind, kpc, bootVars, booted, log, left, uiVars>>

-----------------------------------------------------------------------------
KernelStep ==
  \/ Unlock \/ Open \/ Launch \/ LaunchFails \/ Register \/ RecordBoot \/ Booted
  \/ Ask \/ Answered \/ Note \/ Finish
  \/ \E m \in Manifests : Take(m)

UiStep ==
  \/ \E g \in UiGoals : PostGoal(g) \/ GoalEnds(g)
  \/ Subscribe \/ Stream \/ Disconnect

Next ==
  \/ KernelStep
  \/ UiStep
  \/ Killed
  \/ \E m \in Manifests : PluginEnds(m)
  \/ \E c \in Commands : Command(c) /\ UNCHANGED kernelVars

Spec == Init /\ [][Next]_vars

(* The steps of the command and of a plugin whose stdin has ended: a       *)
(* launch has its time limit, and Router has when a dispatch ends.         *)
Fairness == WF_vars(KernelStep) /\ \A m \in Manifests : WF_vars(PluginEnds(m))

FairSpec == Spec /\ Fairness

-----------------------------------------------------------------------------
(* Properties.                                                             *)

Count(what) == Cardinality({i \in DOMAIN log : log[i].what = what})

(* The log tells the session as it went, through every early return: it    *)
(* begins with the start; what it says was booted is in the router; calls  *)
(* and results alternate; and an end is there only when every call has its *)
(* result, with the count of what was booted.                              *)
LogTellsTheSession ==
  /\ log # <<>> => log[1].what = "SESSION_START"
  /\ \A i \in DOMAIN log :
       /\ log[i].what = "PLUGIN_BOOTED" => log[i].about \in DOMAIN registered
       /\ log[i].what = "DISPATCH_RESULT" =>
            log[i - 1].what = "DISPATCH_START" /\ log[i - 1].about = log[i].about
       /\ log[i].what = "SESSION_END" =>
            /\ i = Len(log)
            /\ log[i].count = Count("PLUGIN_BOOTED")
            /\ Count("DISPATCH_RESULT") = Len(Calls(kind))
            /\ Count("DISPATCH_START") = Len(Calls(kind))

(* A plugin's secret is one that a command was asked to set under its key, *)
(* or the reference to it: never what is left of a half-written vault, and *)
(* never the secret of another key.                                        *)
SecretIsOneThatWasSet ==
  \A m \in Manifests :
    env[m] \notin {NoValue, Reference} =>
      \E c \in Commands :
        /\ ask[c].op = "set" /\ ask[c].key = SecretOf[m] /\ ask[c].value = env[m]
        /\ cpc[c] \notin {"idle", "loaded"}

(* What an open stream has shown is what was broadcast since it opened,    *)
(* in order and with nothing left out: a reader that is too slow loses the *)
(* connection and not an event.                                            *)
StreamLeavesNothingOut ==
  stream.shown = SubSeq(events, stream.since + 1, stream.since + Len(stream.shown))

(* No plugin outlives its kernel: the end of the command kills them, and   *)
(* the death of the kernel closes their stdin.                             *)
NothingOutlives == (kpc \in {"ended", "killed"}) ~> (running = {})

=============================================================================
