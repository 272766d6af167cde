------------------------------ MODULE Subagent ------------------------------
(***************************************************************************)
(* Sub-agents (subagent.rs): SubAgentManager::spawn_and_execute hands a    *)
(* goal and some of the parent's capabilities to a task, logs it in the    *)
(* parent's log and in one of its own, gives it a time limit, and verifies *)
(* its log before it reports.  The task is external: it may log, call the  *)
(* file tools through the router, fail, and never end.                     *)
(*                                                                         *)
(* A log is a sequence of lines with their sequence numbers, or torn: Wal  *)
(* has the hash chain and what a crash does to a write.  The kernel may    *)
(* die, and the session be resumed with another policy.                    *)
(***************************************************************************)
EXTENDS FileTools

CONSTANTS
  SubIds,         \* subagent_id
  Requests,       \* granted_capabilities of the spawns that are asked for
  Manifest,       \* of the plugin whose lease the parent has
  HostPolicies,   \* what security_policy.toml may say at a start
  LogFaults,      \* whether an append may fail
  MaxLines,       \* bound: no spawn when the parent's log has as many lines
  MaxTaskLine     \* bound: the last line of its log that a task writes

ASSUME SubagentAssumption ==
  /\ Manifest \in Manifests
  /\ HostPolicies \subseteq Policies
  /\ LogFaults \in BOOLEAN
  /\ MaxLines \in Nat
  /\ MaxTaskLine \in Nat

VARIABLES
  up,       \* whether the kernel runs
  policy, lease,
  parent,   \* the parent's log
  sub,      \* the log of each sub-session
  next,     \* the sequence number parent_wal writes next
  subNext,  \* the one sub_wal writes next
  pc,       \* where spawn_and_execute is
  job       \* its request

subVars == <<up, policy, lease, parent, sub, next, subNext, pc, job>>
vars == <<fileVars, subVars>>

NoJob == [id |-> "none", caps |-> {}]

Init ==
  /\ FilesInit
  /\ up = TRUE
  /\ policy \in HostPolicies
  /\ lease = Compute(Manifest, policy)
  /\ parent = <<>>
  /\ sub = [id \in SubIds |-> <<>>]
  /\ next = 0
  /\ subNext = 0
  /\ pc = "idle"
  /\ job = NoJob

-----------------------------------------------------------------------------
(* Logs.                                                                   *)

Line(kind, seq, events) ==
  [kind |-> kind, seq |-> seq, id |-> job.id, caps |-> job.caps, events |-> events]

Torn(line) == [line EXCEPT !.kind = "torn"]

(* WalReader::validate_integrity.                                          *)
Verifies(log) ==
  \A i \in DOMAIN log : log[i].seq = i - 1 /\ log[i].kind # "torn"

(* A failed append leaves nothing, part of its line, or, when only the     *)
(* sync failed, all of it.                                                 *)
Leaves(log, line) == {log, Append(log, Torn(line)), Append(log, line)}

(* Slip: the error ignored, as dispatch ignores it.                        *)
ParentAppendIgnored(kind, events, then) ==
  /\ pc' = then
  /\ \/ /\ parent' = Append(parent, Line(kind, next, events))
        /\ next' = next + 1
     \/ /\ LogFaults
        /\ parent' \in Leaves(parent, Line(kind, next, events))
        /\ UNCHANGED next

(* An append to the parent's log and, its error returned, the way out.     *)
ParentAppend(kind, events, then) ==
  \/ /\ parent' = Append(parent, Line(kind, next, events))
     /\ next' = next + 1
     /\ pc' = then
  \/ /\ LogFaults
     /\ parent' \in Leaves(parent, Line(kind, next, events))
     /\ pc' = "idle"
     /\ UNCHANGED next

SubAppend(kind, then) ==
  LET log == sub[job.id]
  IN \/ /\ sub' = [sub EXCEPT ![job.id] = Append(log, Line(kind, subNext, 0))]
        /\ subNext' = subNext + 1
        /\ pc' = then
     \/ /\ LogFaults
        /\ \E left \in Leaves(log, Line(kind, subNext, 0)) :
             sub' = [sub EXCEPT ![job.id] = left]
        /\ pc' = "idle"
        /\ UNCHANGED subNext

-----------------------------------------------------------------------------
(* spawn_and_execute.                                                      *)

(* parent_caps.                                                            *)
Capabilities(l) ==
  {c \in {"file_read", "list_dir"} : l.read} \cup {c \in {"file_write"} : l.write}
    \cup l.binaries \cup {c \in {"outbound"} : l.domains # {}}

(* The grants are within the parent's lease, and WalWriter::init takes up  *)
(* the log of the sub-session, if it verifies; else nothing is done.       *)
Spawn(id, caps) ==
  /\ up
  /\ pc = "idle"
  /\ Len(parent) < MaxLines
  /\ caps \subseteq Capabilities(lease)
  /\ Verifies(sub[id])
  /\ job' = [id |-> id, caps |-> caps]
  /\ subNext' = Len(sub[id])
  /\ pc' = "announcing"
  /\ UNCHANGED <<fileVars, up, policy, lease, parent, sub, next>>

Announce ==
  /\ pc = "announcing"
  /\ ParentAppend("SPAWNED", 0, "starting")
  /\ UNCHANGED <<fileVars, up, policy, lease, sub, subNext, job>>

Start ==
  /\ pc = "starting"
  /\ SubAppend("START", "running")
  /\ UNCHANGED <<fileVars, up, policy, lease, parent, next, job>>

(* The task writes into its log, with a writer of its own.                 *)
TaskLogs ==
  /\ pc = "running"
  /\ LET log == sub[job.id] IN
     /\ Len(log) <= MaxTaskLine
     /\ Verifies(log)
     /\ sub' = [sub EXCEPT ![job.id] = Append(log, Line("TASK", Len(log), 0))]
  /\ UNCHANGED <<fileVars, up, policy, lease, parent, next, subNext, pc, job>>

TaskCalls(call) ==
  /\ pc = "running"
  /\ Admit(lease, call)
  /\ UNCHANGED subVars

(* Slip: the task awaited without a limit.                                 *)
WaitsForTheTask == pc = "running" /\ FALSE /\ UNCHANGED vars

(* The task returns, or tokio::time::timeout drops it; what it asked of    *)
(* the tools goes on.                                                      *)
TaskReturns ==
  /\ pc = "running"
  /\ pc' \in {"succeeded", "failed"}
  /\ UNCHANGED <<fileVars, up, policy, lease, parent, sub, next, subNext, job>>

TimesOut ==
  /\ pc = "running"
  /\ pc' = "late"
  /\ UNCHANGED <<fileVars, up, policy, lease, parent, sub, next, subNext, job>>

Conclude ==
  /\ \/ pc = "succeeded" /\ SubAppend("SUCCESS", "ending")
     \/ pc = "failed" /\ SubAppend("FAILED", "idle")
     \/ pc = "late" /\ SubAppend("TIMEOUT", "idle")
  /\ UNCHANGED <<fileVars, up, policy, lease, parent, next, job>>

End ==
  /\ pc = "ending"
  /\ SubAppend("END", "checking")
  /\ UNCHANGED <<fileVars, up, policy, lease, parent, next, job>>

(* Slip: the lines are counted and not checked.                            *)
CountsLines(log) == TRUE

Checks(log) == Verifies(log)

Report ==
  /\ pc = "checking"
  /\ IF Checks(sub[job.id])
     THEN ParentAppend("RETURNED", Len(sub[job.id]), "idle")
     ELSE pc' = "idle" /\ UNCHANGED <<parent, next>>
  /\ UNCHANGED <<fileVars, up, policy, lease, sub, subNext, job>>

-----------------------------------------------------------------------------
(* The kernel dies anywhere; what is past its gate may still be served.    *)
Crash ==
  /\ up
  /\ up' = FALSE
  /\ pc' = "idle"
  /\ UNCHANGED <<fileVars, policy, lease, parent, sub, next, subNext, job>>

(* `chassis run --session`: the log is resumed, if it verifies, under the  *)
(* policy there is now.                                                    *)
Restart ==
  /\ ~up
  /\ Verifies(parent)
  /\ up' = TRUE
  /\ next' = Len(parent)
  /\ policy' \in HostPolicies
  /\ lease' = Compute(Manifest, policy')
  /\ UNCHANGED <<fileVars, parent, sub, subNext, pc, job>>

SpawnStep == Announce \/ Start \/ TimesOut \/ Conclude \/ End \/ Report

TaskStep == TaskLogs \/ TaskReturns \/ \E call \in Asked : TaskCalls(call)

Next ==
  \/ \E id \in SubIds, caps \in Requests : Spawn(id, caps)
  \/ SpawnStep
  \/ TaskStep
  \/ Crash
  \/ Restart
  \/ FilesNext /\ UNCHANGED subVars

Spec == Init /\ [][Next]_vars

(* The runtime polls spawn_and_execute, and its timer fires.               *)
Fairness == WF_vars(SpawnStep)

FairSpec == Spec /\ Fairness

-----------------------------------------------------------------------------
(* Properties.                                                             *)

Lines(log, kind, id, caps) ==
  {i \in DOMAIN log : log[i].kind = kind /\ log[i].id = id /\ log[i].caps = caps}

(* A sub-agent's start is never in its log without having been announced,  *)
(* with what it was granted, in the parent's: over failed appends, crashes *)
(* and a sub-session taken up again, an announcement for every start.      *)
StartsAreAnnounced ==
  \A id \in SubIds, caps \in Requests :
    Cardinality(Lines(sub[id], "START", id, caps))
      <= Cardinality(Lines(parent, "SPAWNED", id, caps))

(* A success the parent's log reports stands in the sub-session's log: as  *)
(* many lines as it says, which verify and close with the success, and an  *)
(* announcement went before.                                               *)
ReturnedIsVerified ==
  \A i \in DOMAIN parent : parent[i].kind = "RETURNED" =>
    LET log == sub[parent[i].id]
        n == parent[i].events
    IN /\ n >= 3 /\ n <= Len(log)
       /\ Verifies(SubSeq(log, 1, n))
       /\ log[n - 1].kind = "SUCCESS" /\ log[n].kind = "END"
       /\ \E j \in 1..i - 1 : parent[j].kind = "SPAWNED" /\ parent[j].id = parent[i].id

(* A session resumed under a policy no looser than the one before lets     *)
(* through nothing it did not before.                                      *)
TighterPolicyNarrows ==
  [][NoLooser(policy', policy) => NoWider(lease', lease)]_<<policy, lease>>

(* spawn_and_execute returns though its task may never end.                *)
SpawnReturns == (pc # "idle") ~> (pc = "idle")

=============================================================================
