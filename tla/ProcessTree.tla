---------------------------- MODULE ProcessTree ----------------------------
(***************************************************************************)
(* The processes of the plugins and how the kernel gets rid of them:       *)
(* launching and dropping a PluginSupervisor, ProcessHandle::shutdown and  *)
(* force_kill, kill_process_tree with its walk of /proc, and the cleanup   *)
(* guard of lifo.rs, of any number of plugins at once.                     *)
(*                                                                         *)
(* The operating system is modelled as far as this code meets it: parents, *)
(* process groups, zombies and who may wait for them, the adoption of      *)
(* orphans by the kernel (init_subreaper), and pids that are used again    *)
(* when no process and no group has them.  A killed process is `dying`     *)
(* until the signal gets to it.  Processes that are not the kernel's run   *)
(* on the same machine.                                                    *)
(***************************************************************************)
EXTENDS Naturals, FiniteSets

CONSTANTS
  Handles,   \* the plugins the kernel launches
  Pids,      \* the pids there are, the kernel's own aside
  Kernel,    \* the kernel, as a parent
  Outside,   \* the owner and parent of the processes that are not the kernel's
  None,
  Reuse      \* whether a pid that is free again may be given to a new process

ASSUME ProcessAssumption ==
  /\ {Kernel, Outside, None} \cap (Handles \cup Pids) = {}
  /\ Handles \cap Pids = {}
  /\ Kernel # Outside /\ Kernel # None /\ Outside # None
  /\ Reuse \in BOOLEAN

VARIABLES
  state,     \* of each pid
  owner,     \* the plugin whose process it is, by descent
  parent,    \* its parent
  group,     \* its process group
  stage,     \* where each handle is in its life
  kill,      \* and in force_kill or kill_process_tree
  pid,       \* ProcessHandle::pid
  list,      \* `descendants` of kill_process_tree
  waited     \* tokio has the exit status of the child

procVars == <<state, owner, parent, group>>
handleVars == <<stage, kill, pid, list, waited>>
vars == <<procVars, handleVars>>

(* The walks of kill_process_tree: under a failed launch, in shutdown, in  *)
(* the Drop of ProcessHandle, and by the guard, which is dropped after it. *)
Killing == {"discarding", "forcing", "dropping", "guarding"}

Gone == {"free", "spent"}

Init ==
  /\ state = [p \in Pids |-> "free"]
  /\ owner = [p \in Pids |-> None]
  /\ parent = [p \in Pids |-> None]
  /\ group = [p \in Pids |-> None]
  /\ stage = [h \in Handles |-> "new"]
  /\ kill = [h \in Handles |-> "no"]
  /\ pid = [h \in Handles |-> None]
  /\ list = [h \in Handles |-> {}]
  /\ waited = [h \in Handles |-> FALSE]

-----------------------------------------------------------------------------
(* The operating system.                                                   *)

(* No process and no group has the number p.                               *)
Free(p) == state[p] = "free" /\ \A q \in Pids : group[q] # p

Start(p, o, par, g) ==
  /\ Free(p)
  /\ state' = [state EXCEPT ![p] = "running"]
  /\ owner' = [owner EXCEPT ![p] = o]
  /\ parent' = [parent EXCEPT ![p] = par]
  /\ group' = [group EXCEPT ![p] = g]

(* The processes of S have been waited for, and are no more.               *)
Clear(S) ==
  /\ state' = [p \in Pids |-> IF p \in S THEN IF Reuse THEN "free" ELSE "spent" ELSE state[p]]
  /\ owner' = [p \in Pids |-> IF p \in S THEN None ELSE owner[p]]
  /\ parent' = [p \in Pids |-> IF p \in S THEN None ELSE parent[p]]
  /\ group' = [p \in Pids |-> IF p \in S THEN None ELSE group[p]]

(* A signal to those of S that run.                                        *)
Signal(S) ==
  /\ state' = [p \in Pids |-> IF p \in S /\ state[p] = "running" THEN "dying" ELSE state[p]]
  /\ UNCHANGED <<owner, parent, group>>

(* The zombies the kernel may wait for, its children and those it adopted. *)
Waitable == {p \in Pids : state[p] = "zombie" /\ parent[p] = Kernel}

(* A process of a plugin forks, and leaves its group for good (setsid).    *)
Fork(q, p) ==
  /\ state[q] = "running"
  /\ owner[q] \in Handles
  /\ Start(p, owner[q], q, group[q])
  /\ UNCHANGED handleVars

Detach(q) ==
  /\ state[q] = "running"
  /\ owner[q] \in Handles
  /\ group[q] # q
  /\ group' = [group EXCEPT ![q] = q]
  /\ UNCHANGED <<state, owner, parent, handleVars>>

(* It exits or the signal reaches it: the kernel adopts its children.      *)
Dies(q) ==
  /\ state[q] \in {"running", "dying"}
  /\ IF parent[q] = Outside
     THEN Clear({q})
     ELSE /\ state' = [state EXCEPT ![q] = "zombie"]
          /\ parent' = [p \in Pids |-> IF parent[p] = q THEN Kernel ELSE parent[p]]
          /\ UNCHANGED <<owner, group>>
  /\ UNCHANGED handleVars

(* A plugin's process waits for its child.                                 *)
ParentWaits(q) ==
  /\ state[q] = "zombie"
  /\ parent[q] \in Pids
  /\ state[parent[q]] = "running"
  /\ Clear({q})
  /\ UNCHANGED handleVars

StrangerStarts(p) ==
  /\ Start(p, Outside, Outside, p)
  /\ UNCHANGED handleVars

-----------------------------------------------------------------------------
(* The life of a handle.                                                   *)

(* Slip: the plugin stays in the kernel's process group.                   *)
LaunchInGroup(h) ==
  /\ stage[h] = "new"
  /\ \E p \in Pids : /\ Start(p, h, Kernel, Kernel)
                     /\ pid' = [pid EXCEPT ![h] = p]
  /\ stage' = [stage EXCEPT ![h] = "launching"]
  /\ UNCHANGED <<kill, list, waited>>

(* spawn: a child of the kernel that leads a group of its own.             *)
Launch(h) ==
  /\ stage[h] = "new"
  /\ \E p \in Pids : /\ Start(p, h, Kernel, p)
                     /\ pid' = [pid EXCEPT ![h] = p]
  /\ stage' = [stage EXCEPT ![h] = "launching"]
  /\ UNCHANGED <<kill, list, waited>>

(* The handshake succeeds, and the guard is pushed.                        *)
Mount(h) ==
  /\ stage[h] = "launching"
  /\ stage' = [stage EXCEPT ![h] = "up"]
  /\ UNCHANGED <<procVars, kill, pid, list, waited>>

Begin(h, walk) ==
  /\ stage' = [stage EXCEPT ![h] = walk]
  /\ kill' = [kill EXCEPT ![h] = "list"]
  /\ UNCHANGED <<procVars, pid, list, waited>>

(* It times out, is refused or is answered badly: the handle is dropped    *)
(* before there is a guard.                                                *)
LaunchFails(h) == stage[h] = "launching" /\ Begin(h, "discarding")

(* shutdown asks the plugin to stop and waits; after the grace it kills.   *)
Shutdown(h) ==
  /\ stage[h] = "up"
  /\ stage' = [stage EXCEPT ![h] = "asking"]
  /\ UNCHANGED <<procVars, kill, pid, list, waited>>

GraceEnds(h) == stage[h] = "asking" /\ Begin(h, "forcing")

(* Slip: child.wait() is taken to need an exit status.                     *)
WaitForStatus(h) ==
  /\ stage[h] \in {"asking", "waiting"}
  /\ pid[h] \in Waitable
  /\ Clear({pid[h]})
  /\ waited' = [waited EXCEPT ![h] = TRUE]
  /\ stage' = [stage EXCEPT ![h] = "closed"]
  /\ UNCHANGED <<kill, pid, list>>

(* child.wait(), with the exit status, or with an error when the pid is no *)
(* child's: somebody else's waitpid(-1) has had it.  Either ends shutdown. *)
WaitReturns(h) ==
  /\ stage[h] \in {"asking", "waiting"}
  /\ \/ /\ pid[h] \in Waitable
        /\ Clear({pid[h]})
        /\ waited' = [waited EXCEPT ![h] = TRUE]
     \/ /\ parent[pid[h]] # Kernel
        /\ UNCHANGED <<procVars, waited>>
  /\ stage' = [stage EXCEPT ![h] = "closed"]
  /\ UNCHANGED <<kill, pid, list>>

(* The supervisor is dropped, at the end of the router or when another one *)
(* takes its place: first `process`, then `lifo`.                          *)
DropSupervisor(h) == stage[h] \in {"up", "closed"} /\ Begin(h, "dropping")

(* Once the handle is dropped, tokio waits for a child nobody waited for.  *)
TokioReaps(h) ==
  /\ stage[h] \in {"guarding", "gone"}
  /\ ~waited[h]
  /\ pid[h] \in Waitable
  /\ Clear({pid[h]})
  /\ waited' = [waited EXCEPT ![h] = TRUE]
  /\ UNCHANGED <<stage, kill, pid, list>>

-----------------------------------------------------------------------------
(* kill_process_tree, step by step.                                        *)

(* The processes below r in /proc.                                         *)
Below(r, S) == \A p \in Pids : parent[p] \in S \cup {r} => p \in S
Descendants(r) == {p \in Pids : \A S \in SUBSET Pids : Below(r, S) => p \in S}

(* Slip: the orphans the kernel adopted are killed with every plugin.      *)
ListAdopted(h) ==
  /\ kill[h] = "list"
  /\ list' = [list EXCEPT ![h] = Descendants(pid[h]) \cup
                {p \in Pids : parent[p] = Kernel /\ group[p] # p}]
  /\ kill' = [kill EXCEPT ![h] = "group"]
  /\ UNCHANGED <<procVars, stage, pid, waited>>

List(h) ==
  /\ kill[h] = "list"
  /\ list' = [list EXCEPT ![h] = Descendants(pid[h])]
  /\ kill' = [kill EXCEPT ![h] = "group"]
  /\ UNCHANGED <<procVars, stage, pid, waited>>

KillGroup(h) ==
  /\ kill[h] = "group"
  /\ Signal({p \in Pids : group[p] = pid[h]})
  /\ kill' = [kill EXCEPT ![h] = "each"]
  /\ UNCHANGED <<stage, pid, list, waited>>

KillEach(h) ==
  /\ kill[h] = "each"
  /\ Signal(list[h])
  /\ list' = [list EXCEPT ![h] = {}]
  /\ kill' = [kill EXCEPT ![h] = "reap"]
  /\ UNCHANGED <<stage, pid, waited>>

(* Slip: every walk goes on to start_kill.                                 *)
ReapAlike(h) ==
  /\ kill[h] = "reap"
  /\ Clear(Waitable)
  /\ kill' = [kill EXCEPT ![h] = "child"]
  /\ UNCHANGED <<stage, pid, list, waited>>

(* waitpid(-1, WNOHANG) until there is none; force_kill goes on.           *)
Reap(h) ==
  /\ kill[h] = "reap"
  /\ Clear(Waitable)
  /\ IF stage[h] = "guarding"
     THEN /\ stage' = [stage EXCEPT ![h] = "gone"]
          /\ kill' = [kill EXCEPT ![h] = "no"]
     ELSE /\ kill' = [kill EXCEPT ![h] = "child"]
          /\ UNCHANGED stage
  /\ UNCHANGED <<pid, list, waited>>

(* child.start_kill(), which knows of no waitpid but tokio's own.          *)
StartKill(h) ==
  /\ kill[h] = "child"
  /\ Signal(IF waited[h] THEN {} ELSE {pid[h]})
  /\ stage' = [stage EXCEPT ![h] = CASE @ = "discarding" -> "gone"
                                     [] @ = "forcing"    -> "waiting"
                                     [] @ = "dropping"   -> "guarding"]
  /\ kill' = [kill EXCEPT ![h] = IF stage[h] = "dropping" THEN "list" ELSE "no"]
  /\ UNCHANGED <<pid, list, waited>>

Walk(h) == List(h) \/ KillGroup(h) \/ KillEach(h) \/ Reap(h) \/ StartKill(h)

Next ==
  \/ \E p \in Pids : \/ Detach(p) \/ Dies(p) \/ ParentWaits(p) \/ StrangerStarts(p)
                     \/ \E q \in Pids : Fork(q, p)
  \/ \E h \in Handles :
       \/ Launch(h) \/ Mount(h) \/ LaunchFails(h) \/ Shutdown(h) \/ GraceEnds(h)
       \/ WaitReturns(h) \/ DropSupervisor(h) \/ TokioReaps(h) \/ Walk(h)

Spec == Init /\ [][Next]_vars

(* Signals arrive, the grace period ends, and the kernel's tasks go on.    *)
FairSpec ==
  /\ Spec
  /\ \A p \in Pids : WF_vars(state[p] = "dying" /\ Dies(p))
  /\ \A h \in Handles : /\ WF_vars(Walk(h))
                        /\ WF_vars(GraceEnds(h))
                        /\ WF_vars(WaitReturns(h))

-----------------------------------------------------------------------------
(* Properties.                                                             *)

TypeOK ==
  /\ state \in [Pids -> {"running", "dying", "zombie"} \cup Gone]
  /\ owner \in [Pids -> Handles \cup {Outside, None}]
  /\ parent \in [Pids -> Pids \cup {Kernel, Outside, None}]
  /\ group \in [Pids -> Pids \cup {Kernel, None}]
  /\ \A p \in Pids : state[p] \in Gone <=> owner[p] = None
  /\ stage \in [Handles -> {"new", "launching", "up", "asking", "waiting", "closed", "gone"}
                           \cup Killing]
  /\ kill \in [Handles -> {"no", "list", "group", "each", "reap", "child"}]
  /\ \A h \in Handles : /\ kill[h] # "no" <=> stage[h] \in Killing
                        /\ kill[h] = "child" => stage[h] # "guarding"
                        /\ pid[h] = None <=> stage[h] = "new"
  /\ pid \in [Handles -> Pids \cup {None}]
  /\ list \in [Handles -> SUBSET Pids]
  /\ waited \in [Handles -> BOOLEAN]

(* When a plugin is gone, after a failed launch or after its supervisor,   *)
(* no process of its group runs, whatever forked or died meanwhile         *)
(* (ADR-017; the kill of the group, process.rs).                           *)
GroupIsGone ==
  \A h \in Handles, p \in Pids :
    stage[h] = "gone" /\ owner[p] = h /\ group[p] = pid[h] => state[p] # "running"

(* Removing one plugin touches no process of another and none of the rest  *)
(* of the machine, though orphans of all plugins have one parent.          *)
KillsOnlyItsOwn ==
  [][\A p \in Pids :
       state[p] = "running" /\ state'[p] = "dying"
         => \E h \in Handles : kill'[h] # kill[h] /\ owner[p] = h]_vars

(* shutdown returns, also when the walk of another plugin has waited for   *)
(* the process before it could (process.rs 326-353).                       *)
ShutdownReturns == \A h \in Handles : stage[h] = "asking" ~> stage[h] = "closed"

(* ADR-030: "guaranteed 100% process tree clean-up", for processes that    *)
(* call setsid or fork twice as well.                                      *)
NothingIsLeft ==
  \A h \in Handles, p \in Pids :
    stage[h] = "gone" /\ owner[p] = h => state[p] # "running"

=============================================================================
