--------------------------- MODULE SubagentProofs ---------------------------
(***************************************************************************)
(* Proofs about Subagent and the file tools, for any policies, logs        *)
(* without bound, any calls of a task, and any files and paths.            *)
(***************************************************************************)
EXTENDS Subagent, LeaseProofs, SequenceTheorems, FiniteSetTheorems, TLAPS

(* The lease in force is the one of the policy in force.                   *)
LeaseInv == policy \in Policies /\ lease = Compute(Manifest, policy)

LEMMA LeaseInvHolds == Spec => []LeaseInv
<1>1. Init => LeaseInv
  BY SubagentAssumption DEF Init, LeaseInv
<1>2. LeaseInv /\ [Next]_vars => LeaseInv'
  <2> SUFFICES ASSUME LeaseInv, [Next]_vars PROVE LeaseInv'
    OBVIOUS
  <2>1. CASE Restart
    BY <2>1, SubagentAssumption DEF Restart, LeaseInv
  <2>2. CASE UNCHANGED <<policy, lease>>
    BY <2>2 DEF LeaseInv
  <2>3. Restart \/ UNCHANGED <<policy, lease>>
    BY DEF vars, subVars, Next, Spawn, SpawnStep, TaskStep, Announce, Start, TimesOut,
           Conclude, End, Report, TaskLogs, TaskReturns, TaskCalls, Crash
  <2> QED
    BY <2>1, <2>2, <2>3
<1> QED
  BY <1>1, <1>2, PTL DEF Spec

(* A session resumed under a policy no looser than the one before lets     *)
(* through nothing it did not before, for any two policies (WalWriter::init *)
(* of a resumed session, EffectiveLease::compute).                         *)
THEOREM TighterPoliciesNarrow == Spec => TighterPolicyNarrows
<1>1. LeaseInv /\ LeaseInv' => (NoLooser(policy', policy) => NoWider(lease', lease))
  BY AttenuationIsMonotone, SubagentAssumption DEF LeaseInv
<1> QED
  BY <1>1, LeaseInvHolds, PTL DEF TighterPolicyNarrows

-----------------------------------------------------------------------------
(* The types of the logs.                                                  *)

Kinds == {"SPAWNED", "START", "TASK", "SUCCESS", "FAILED", "TIMEOUT", "END", "RETURNED", "torn"}

LogLines ==
  [kind : Kinds, seq : Nat, id : SubIds \cup {"none"}, caps : Requests \cup {{}}, events : Nat]

(* Where spawn_and_execute is after the announcement, and after the start. *)
Announced == {"starting", "running", "succeeded", "failed", "late", "ending", "checking"}
Started == Announced \ {"starting"}

LogTypes ==
  /\ parent \in Seq(LogLines)
  /\ sub \in [SubIds -> Seq(LogLines)]
  /\ next \in Nat
  /\ subNext \in Nat
  /\ pc \in {"idle", "announcing"} \cup Announced
  /\ job \in [id : SubIds \cup {"none"}, caps : Requests \cup {{}}]
  /\ pc # "idle" => job.id \in SubIds /\ job.caps \in Requests

LEMMA LineTyped ==
  ASSUME LogTypes, NEW kind \in Kinds, NEW n \in Nat, NEW events \in Nat
  PROVE  /\ Line(kind, n, events) \in LogLines
         /\ Line(kind, n, events).kind = kind
         /\ Line(kind, n, events).id = job.id
         /\ Line(kind, n, events).caps = job.caps
         /\ Line(kind, n, events).events = events
BY DEF LogTypes, Line, LogLines, Kinds

LEMMA TornTyped ==
  ASSUME NEW line \in LogLines
  PROVE  Torn(line) \in LogLines /\ Torn(line).kind = "torn"
BY DEF Torn, LogLines, Kinds

(* What an append leaves, whole, torn or not at all, is a log.             *)
LEMMA LeftTyped ==
  ASSUME NEW log \in Seq(LogLines), NEW line \in LogLines, NEW left \in Leaves(log, line)
  PROVE  left \in Seq(LogLines)
<1>1. Torn(line) \in LogLines
  BY TornTyped
<1> QED
  BY <1>1 DEF Leaves

(* An append to the parent's log: spawn_and_execute goes on only after the *)
(* line is in it.                                                          *)
LEMMA ParentGrows ==
  ASSUME LogTypes, NEW kind \in Kinds, NEW events \in Nat, NEW then,
         ParentAppend(kind, events, then)
  PROVE  LET line == Line(kind, next, events)
         IN /\ line \in LogLines
            /\ parent' \in Leaves(parent, line)
            /\ pc' = "idle" \/ (pc' = then /\ parent' = Append(parent, line))
            /\ next' \in Nat
            /\ parent' \in Seq(LogLines)
<1> DEFINE line == Line(kind, next, events)
<1>0. parent \in Seq(LogLines) /\ next \in Nat
  BY DEF LogTypes
<1>1. line \in LogLines
  BY <1>0, LineTyped
<1>2. \/ parent' = Append(parent, line) /\ next' = next + 1 /\ pc' = then
      \/ parent' \in Leaves(parent, line) /\ pc' = "idle" /\ next' = next
  BY DEF ParentAppend
<1> HIDE DEF line
<1>3. parent' \in Leaves(parent, line)
  BY <1>2 DEF Leaves
<1>4. parent' \in Seq(LogLines)
  BY <1>0, <1>1, <1>3, LeftTyped
<1>5. next' \in Nat /\ (pc' = "idle" \/ (pc' = then /\ parent' = Append(parent, line)))
  BY <1>0, <1>2
<1> QED
  BY <1>1, <1>3, <1>4, <1>5 DEF line

(* An append to the sub-session's log.                                     *)
LEMMA SubGrows ==
  ASSUME LogTypes, pc # "idle", NEW kind \in Kinds, NEW then, SubAppend(kind, then)
  PROVE  LET line == Line(kind, subNext, 0)
         IN /\ line \in LogLines
            /\ job.id \in SubIds
            /\ \A id \in SubIds \ {job.id} : sub'[id] = sub[id]
            /\ sub'[job.id] \in Leaves(sub[job.id], line)
            /\ pc' = "idle" \/ (pc' = then /\ sub'[job.id] = Append(sub[job.id], line))
            /\ subNext' \in Nat
            /\ sub' \in [SubIds -> Seq(LogLines)]
<1> DEFINE log == sub[job.id]
           line == Line(kind, subNext, 0)
<1>0. /\ sub \in [SubIds -> Seq(LogLines)] /\ subNext \in Nat /\ 0 \in Nat
      /\ job.id \in SubIds /\ log \in Seq(LogLines)
  BY DEF LogTypes
<1>1. line \in LogLines
  BY <1>0, LineTyped
<1>2. \/ sub' = [sub EXCEPT ![job.id] = Append(log, line)] /\ subNext' = subNext + 1 /\ pc' = then
      \/ /\ \E left \in Leaves(log, line) : sub' = [sub EXCEPT ![job.id] = left]
         /\ pc' = "idle"
         /\ subNext' = subNext
  BY DEF SubAppend
<1> HIDE DEF log, line
<1>3. ASSUME NEW left \in Leaves(log, line), sub' = [sub EXCEPT ![job.id] = left]
      PROVE  /\ \A id \in SubIds \ {job.id} : sub'[id] = sub[id]
             /\ sub'[job.id] = left
             /\ sub' \in [SubIds -> Seq(LogLines)]
  <2>1. left \in Seq(LogLines)
    BY <1>0, <1>1, <1>3, LeftTyped
  <2> QED
    BY <1>0, <1>3, <2>1
<1>4. Append(log, line) \in Leaves(log, line)
  BY DEF Leaves
<1>5. CASE sub' = [sub EXCEPT ![job.id] = Append(log, line)] /\ subNext' = subNext + 1 /\ pc' = then
  <2>1. /\ \A id \in SubIds \ {job.id} : sub'[id] = sub[id]
        /\ sub'[job.id] = Append(log, line)
        /\ sub' \in [SubIds -> Seq(LogLines)]
    BY <1>3, <1>4, <1>5
  <2> QED
    BY <1>0, <1>1, <1>4, <1>5, <2>1 DEF line, log
<1>6. CASE /\ \E left \in Leaves(log, line) : sub' = [sub EXCEPT ![job.id] = left]
           /\ pc' = "idle"
           /\ subNext' = subNext
  <2>1. /\ \A id \in SubIds \ {job.id} : sub'[id] = sub[id]
        /\ sub'[job.id] \in Leaves(log, line)
        /\ sub' \in [SubIds -> Seq(LogLines)]
    BY <1>3, <1>6
  <2> QED
    BY <1>0, <1>1, <1>6, <2>1 DEF line, log
<1> QED
  BY <1>2, <1>5, <1>6

(* The task's line.                                                        *)
LEMMA TaskGrows ==
  ASSUME LogTypes, TaskLogs
  PROVE  LET line == Line("TASK", Len(sub[job.id]), 0)
         IN /\ line \in LogLines
            /\ job.id \in SubIds
            /\ \A id \in SubIds \ {job.id} : sub'[id] = sub[id]
            /\ sub'[job.id] = Append(sub[job.id], line)
            /\ sub' \in [SubIds -> Seq(LogLines)]
<1> DEFINE log == sub[job.id]
           line == Line("TASK", Len(log), 0)
<1>1. /\ sub \in [SubIds -> Seq(LogLines)] /\ job.id \in SubIds /\ log \in Seq(LogLines)
      /\ "TASK" \in Kinds /\ 0 \in Nat
  BY DEF LogTypes, TaskLogs, Kinds
<1>2. Len(log) \in Nat
  BY <1>1
<1>3. line \in LogLines
  BY <1>1, <1>2, LineTyped
<1>4. sub' = [sub EXCEPT ![job.id] = Append(log, line)]
  BY DEF TaskLogs
<1> HIDE DEF log, line
<1>5. Append(log, line) \in Seq(LogLines)
  BY <1>1, <1>3
<1>6. /\ \A id \in SubIds \ {job.id} : sub'[id] = sub[id]
      /\ sub'[job.id] = Append(log, line)
      /\ sub' \in [SubIds -> Seq(LogLines)]
  BY <1>1, <1>4, <1>5
<1> QED
  BY <1>1, <1>3, <1>6 DEF line, log

(* What a step may do to the logs, and where spawn_and_execute is then.    *)
LEMMA Steps ==
  ASSUME LogTypes, [Next]_vars
  PROVE  \/ \E id \in SubIds, caps \in Requests : Spawn(id, caps)
         \/ Announce \/ Start \/ TaskLogs \/ Conclude \/ End \/ Report \/ Restart
         \/ /\ UNCHANGED <<parent, sub, next, subNext, job>>
            /\ \/ pc' = pc
               \/ pc' = "idle"
               \/ pc = "running" /\ pc' \in {"succeeded", "failed", "late"}
BY DEF vars, subVars, Next, SpawnStep, TaskStep, TimesOut, TaskReturns, TaskCalls, Crash

LEMMA TypesKept == LogTypes /\ [Next]_vars => LogTypes'
<1> SUFFICES ASSUME LogTypes, [Next]_vars PROVE LogTypes'
  OBVIOUS
<1>0. /\ {"SPAWNED", "START", "SUCCESS", "FAILED", "TIMEOUT", "END", "RETURNED"} \subseteq Kinds
      /\ 0 \in Nat
  BY DEF Kinds
<1>1. ASSUME NEW id \in SubIds, NEW caps \in Requests, Spawn(id, caps)
      PROVE  LogTypes'
  <2>1. Len(sub[id]) \in Nat
    BY DEF LogTypes
  <2> QED
    BY <1>1, <2>1 DEF Spawn, LogTypes
<1>2. ASSUME NEW kind \in Kinds, NEW events \in Nat, NEW then \in Announced \cup {"idle"},
             ParentAppend(kind, events, then), pc # "idle", UNCHANGED <<sub, subNext, job>>
      PROVE  LogTypes'
  <2>1. next' \in Nat /\ parent' \in Seq(LogLines) /\ (pc' = "idle" \/ pc' = then)
    BY <1>2, ParentGrows
  <2> QED
    BY <1>2, <2>1 DEF LogTypes
<1>3. ASSUME NEW kind \in Kinds, NEW then \in Announced \cup {"idle"}, SubAppend(kind, then),
             pc # "idle", UNCHANGED <<parent, next, job>>
      PROVE  LogTypes'
  <2>1. subNext' \in Nat /\ sub' \in [SubIds -> Seq(LogLines)] /\ (pc' = "idle" \/ pc' = then)
    BY <1>3, SubGrows
  <2> QED
    BY <1>3, <2>1 DEF LogTypes
<1>4. CASE Announce
  BY <1>0, <1>2, <1>4 DEF Announce, Announced
<1>5. CASE Start
  BY <1>0, <1>3, <1>5 DEF Start, Announced
<1>6. CASE TaskLogs
  <2>1. sub' \in [SubIds -> Seq(LogLines)]
    BY <1>6, TaskGrows
  <2> QED
    BY <1>6, <2>1 DEF TaskLogs, LogTypes
<1>7. CASE Conclude
  BY <1>0, <1>3, <1>7 DEF Conclude, Announced
<1>8. CASE End
  BY <1>0, <1>3, <1>8 DEF End, Announced
<1>9. CASE Report
  <2>1. sub[job.id] \in Seq(LogLines)
    BY <1>9 DEF Report, LogTypes
  <2>2. Len(sub[job.id]) \in Nat
    BY <2>1
  <2>3. CASE ParentAppend("RETURNED", Len(sub[job.id]), "idle")
    BY <1>0, <1>2, <1>9, <2>2, <2>3 DEF Report
  <2>4. CASE pc' = "idle" /\ UNCHANGED <<parent, next>>
    BY <1>9, <2>4 DEF Report, LogTypes
  <2> QED
    BY <1>9, <2>3, <2>4 DEF Report
<1>10. CASE Restart
  <2>1. Len(parent) \in Nat
    BY DEF LogTypes
  <2> QED
    BY <1>10, <2>1 DEF Restart, LogTypes
<1>11. CASE /\ UNCHANGED <<parent, sub, next, subNext, job>>
            /\ \/ pc' = pc
               \/ pc' = "idle"
               \/ pc = "running" /\ pc' \in {"succeeded", "failed", "late"}
  BY <1>11 DEF LogTypes, Announced
<1> QED
  BY <1>1, <1>4, <1>5, <1>6, <1>7, <1>8, <1>9, <1>10, <1>11, Steps

LEMMA LogsTyped == Spec => []LogTypes
<1>1. Init => LogTypes
  BY EmptySeq DEF Init, LogTypes, NoJob
<1> QED
  BY <1>1, TypesKept, PTL DEF Spec

-----------------------------------------------------------------------------
(* Announcements and starts.                                               *)

Count(log, kind, id, caps) == Cardinality(Lines(log, kind, id, caps))

LEMMA LinesFinite ==
  ASSUME NEW log \in Seq(LogLines), NEW kind, NEW id, NEW caps
  PROVE  IsFiniteSet(Lines(log, kind, id, caps)) /\ Count(log, kind, id, caps) \in Nat
<1>1. IsFiniteSet(1..Len(log))
  BY FS_Interval
<1>2. Lines(log, kind, id, caps) \subseteq 1..Len(log)
  BY DEF Lines
<1>3. IsFiniteSet(Lines(log, kind, id, caps))
  BY <1>1, <1>2, FS_Subset
<1> QED
  BY <1>3, FS_CardinalityType DEF Count

(* A line more counts for its own kind, request and sub-agent.             *)
LEMMA AppendCounts ==
  ASSUME NEW log \in Seq(LogLines), NEW line \in LogLines, NEW kind, NEW id, NEW caps
  PROVE  Count(Append(log, line), kind, id, caps)
           = Count(log, kind, id, caps)
               + (IF line.kind = kind /\ line.id = id /\ line.caps = caps THEN 1 ELSE 0)
<1> DEFINE after == Append(log, line)
           n == Len(log) + 1
<1>1. /\ DOMAIN after = DOMAIN log \cup {n}
      /\ n \notin DOMAIN log
      /\ \A i \in DOMAIN log : after[i] = log[i]
      /\ after[n] = line
  OBVIOUS
<1> HIDE DEF after, n
<1>2. CASE line.kind = kind /\ line.id = id /\ line.caps = caps
  <2>1. Lines(after, kind, id, caps) = Lines(log, kind, id, caps) \cup {n}
    BY <1>1, <1>2 DEF Lines
  <2>2. n \notin Lines(log, kind, id, caps)
    BY <1>1 DEF Lines
  <2>3. Count(after, kind, id, caps) = Count(log, kind, id, caps) + 1
    BY <2>1, <2>2, LinesFinite, FS_AddElement DEF Count
  <2> QED
    BY <1>2, <2>3 DEF after
<1>3. CASE ~(line.kind = kind /\ line.id = id /\ line.caps = caps)
  <2>1. Lines(after, kind, id, caps) = Lines(log, kind, id, caps)
    BY <1>1, <1>3 DEF Lines
  <2>2. Count(after, kind, id, caps) = Count(log, kind, id, caps)
    BY <2>1 DEF Count
  <2>3. Count(log, kind, id, caps) \in Nat
    BY LinesFinite
  <2> QED
    BY <1>3, <2>2, <2>3 DEF after
<1> QED
  BY <1>2, <1>3

(* What any append leaves counts no less, and for another kind no more.    *)
LEMMA LeftCounts ==
  ASSUME NEW log \in Seq(LogLines), NEW line \in LogLines, NEW left \in Leaves(log, line),
         NEW kind \in Kinds \ {"torn"}, NEW id, NEW caps
  PROVE  /\ Count(left, kind, id, caps) \in Nat
         /\ Count(left, kind, id, caps) >= Count(log, kind, id, caps)
         /\ Count(left, kind, id, caps) <=
              Count(log, kind, id, caps)
                + (IF line.kind = kind /\ line.id = id /\ line.caps = caps THEN 1 ELSE 0)
<1>1. Torn(line) \in LogLines /\ Torn(line).kind # kind
  BY TornTyped
<1>2. Count(log, kind, id, caps) \in Nat
  BY LinesFinite
<1>3. CASE left = log
  BY <1>2, <1>3
<1>4. CASE left = Append(log, Torn(line))
  <2>1. Count(left, kind, id, caps) = Count(log, kind, id, caps) + 0
    BY <1>1, <1>4, AppendCounts
  <2> QED
    BY <1>2, <2>1
<1>5. CASE left = Append(log, line)
  <2>1. Count(left, kind, id, caps)
          = Count(log, kind, id, caps)
              + (IF line.kind = kind /\ line.id = id /\ line.caps = caps THEN 1 ELSE 0)
    BY <1>5, AppendCounts
  <2> QED
    BY <1>2, <2>1
<1> QED
  BY <1>3, <1>4, <1>5 DEF Leaves

(* An announcement for every start, and one for the start that is next.    *)
Due(id, caps) == IF pc = "starting" /\ job.id = id /\ job.caps = caps THEN 1 ELSE 0

AnnouncedInv ==
  \A id \in SubIds, caps \in Requests :
    Count(sub[id], "START", id, caps) + Due(id, caps) <= Count(parent, "SPAWNED", id, caps)

LEMMA CountsAreNumbers ==
  ASSUME LogTypes, NEW id \in SubIds, NEW caps \in Requests
  PROVE  /\ Count(sub[id], "START", id, caps) \in Nat
         /\ Count(parent, "SPAWNED", id, caps) \in Nat
         /\ Due(id, caps) \in {0, 1}
BY LinesFinite DEF LogTypes, Due

(* An append to the parent's log that leaves no start due but the one it   *)
(* announces.                                                              *)
LEMMA ParentKeepsAnnounced ==
  ASSUME LogTypes, AnnouncedInv, NEW kind \in Kinds, NEW events \in Nat, NEW then,
         ParentAppend(kind, events, then), UNCHANGED <<sub, job>>,
         then # "starting" \/ kind = "SPAWNED"
  PROVE  AnnouncedInv'
<1> DEFINE line == Line(kind, next, events)
<1>1. /\ parent \in Seq(LogLines) /\ next \in Nat
      /\ "SPAWNED" \in Kinds \ {"torn"}
  BY DEF LogTypes, Kinds
<1>2. /\ line \in LogLines
      /\ parent' \in Leaves(parent, line)
      /\ pc' = "idle" \/ (pc' = then /\ parent' = Append(parent, line))
  BY ParentGrows
<1>3. line.kind = kind /\ line.id = job.id /\ line.caps = job.caps
  BY <1>1, LineTyped
<1> HIDE DEF line
<1> SUFFICES ASSUME NEW id \in SubIds, NEW caps \in Requests
             PROVE  Count(sub'[id], "START", id, caps) + Due(id, caps)'
                      <= Count(parent', "SPAWNED", id, caps)
  BY DEF AnnouncedInv, Count, Lines
<1>4. /\ Count(sub[id], "START", id, caps) + Due(id, caps) <= Count(parent, "SPAWNED", id, caps)
      /\ Count(sub[id], "START", id, caps) \in Nat
      /\ Count(parent, "SPAWNED", id, caps) \in Nat
      /\ Due(id, caps) \in {0, 1}
  BY CountsAreNumbers DEF AnnouncedInv
<1>5. /\ Count(parent', "SPAWNED", id, caps) \in Nat
      /\ Count(parent', "SPAWNED", id, caps) >= Count(parent, "SPAWNED", id, caps)
  BY <1>1, <1>2, LeftCounts
<1>6. CASE Due(id, caps)' = 0
  BY <1>4, <1>5, <1>6
<1>7. CASE Due(id, caps)' # 0
  <2>1. /\ pc' = "starting" /\ job'.id = id /\ job'.caps = caps
        /\ Due(id, caps)' = 1
    BY <1>7 DEF Due
  <2>2. kind = "SPAWNED" /\ parent' = Append(parent, line)
    BY <1>2, <2>1
  <2>3. Count(parent', "SPAWNED", id, caps) = Count(parent, "SPAWNED", id, caps) + 1
    BY <1>1, <1>2, <1>3, <2>1, <2>2, AppendCounts
  <2> QED
    BY <1>4, <2>1, <2>3
<1> QED
  BY <1>6, <1>7

(* An append to the sub-session's log, which is a start only when it is due. *)
LEMMA SubKeepsAnnounced ==
  ASSUME LogTypes, AnnouncedInv, NEW line \in LogLines, job.id \in SubIds,
         sub'[job.id] \in Leaves(sub[job.id], line),
         \A id \in SubIds \ {job.id} : sub'[id] = sub[id],
         line.id = job.id, line.caps = job.caps,
         line.kind # "START" \/ pc = "starting",
         pc' # "starting", UNCHANGED <<parent, job>>
  PROVE  AnnouncedInv'
<1> SUFFICES ASSUME NEW id \in SubIds, NEW caps \in Requests
             PROVE  Count(sub'[id], "START", id, caps) + Due(id, caps)'
                      <= Count(parent', "SPAWNED", id, caps)
  BY DEF AnnouncedInv, Count, Lines
<1>1. /\ Count(sub[id], "START", id, caps) + Due(id, caps) <= Count(parent, "SPAWNED", id, caps)
      /\ Count(sub[id], "START", id, caps) \in Nat
      /\ Count(parent, "SPAWNED", id, caps) \in Nat
      /\ Due(id, caps) \in {0, 1}
  BY CountsAreNumbers DEF AnnouncedInv
<1>2. Due(id, caps)' = 0
  BY DEF Due
<1>3. CASE id # job.id
  BY <1>1, <1>2, <1>3
<1>4. CASE id = job.id
  <2>1. sub[id] \in Seq(LogLines) /\ "START" \in Kinds \ {"torn"}
    BY DEF LogTypes, Kinds
  <2>2. /\ Count(sub'[id], "START", id, caps) \in Nat
        /\ Count(sub'[id], "START", id, caps)
             <= Count(sub[id], "START", id, caps)
                  + (IF line.kind = "START" /\ line.id = id /\ line.caps = caps THEN 1 ELSE 0)
    BY <1>4, <2>1, LeftCounts
  <2>3. CASE line.kind = "START" /\ line.caps = caps
    <3>1. Due(id, caps) = 1
      BY <1>4, <2>3 DEF Due
    <3> QED
      BY <1>1, <1>2, <2>2, <3>1
  <2>4. CASE ~(line.kind = "START" /\ line.caps = caps)
    BY <1>1, <1>2, <2>2, <2>4
  <2> QED
    BY <2>3, <2>4
<1> QED
  BY <1>3, <1>4

(* A step that appends nothing.                                            *)
LEMMA NothingAppended ==
  ASSUME LogTypes, AnnouncedInv, UNCHANGED <<parent, sub>>,
         pc' # "starting" \/ (pc' = pc /\ job' = job)
  PROVE  AnnouncedInv'
<1> SUFFICES ASSUME NEW id \in SubIds, NEW caps \in Requests
             PROVE  Count(sub'[id], "START", id, caps) + Due(id, caps)'
                      <= Count(parent', "SPAWNED", id, caps)
  BY DEF AnnouncedInv, Count, Lines
<1>1. /\ Count(sub[id], "START", id, caps) + Due(id, caps) <= Count(parent, "SPAWNED", id, caps)
      /\ Count(sub[id], "START", id, caps) \in Nat
      /\ Count(parent, "SPAWNED", id, caps) \in Nat
      /\ Due(id, caps) \in {0, 1}
  BY CountsAreNumbers DEF AnnouncedInv
<1>2. Due(id, caps)' = 0 \/ Due(id, caps)' = Due(id, caps)
  BY DEF Due
<1> QED
  BY <1>1, <1>2

LEMMA AnnouncedKept == LogTypes /\ AnnouncedInv /\ [Next]_vars => AnnouncedInv'
<1> SUFFICES ASSUME LogTypes, AnnouncedInv, [Next]_vars PROVE AnnouncedInv'
  OBVIOUS
<1>0. /\ {"SPAWNED", "START", "TASK", "SUCCESS", "FAILED", "TIMEOUT", "END", "RETURNED"}
           \subseteq Kinds
      /\ 0 \in Nat /\ subNext \in Nat
  BY DEF Kinds, LogTypes
<1>1. ASSUME NEW kind \in Kinds, NEW then \in {"running", "ending", "idle", "checking"},
             SubAppend(kind, then), kind # "START" \/ pc = "starting", pc # "idle",
             UNCHANGED <<parent, job>>
      PROVE  AnnouncedInv'
  <2> DEFINE line == Line(kind, subNext, 0)
  <2>1. /\ line \in LogLines /\ job.id \in SubIds
        /\ \A id \in SubIds \ {job.id} : sub'[id] = sub[id]
        /\ sub'[job.id] \in Leaves(sub[job.id], line)
        /\ pc' # "starting"
    BY <1>1, SubGrows
  <2>2. line.kind = kind /\ line.id = job.id /\ line.caps = job.caps
    BY <1>0, <1>1, LineTyped
  <2> HIDE DEF line
  <2> QED
    BY <1>1, <2>1, <2>2, SubKeepsAnnounced
<1>2. ASSUME NEW id \in SubIds, NEW caps \in Requests, Spawn(id, caps)
      PROVE  AnnouncedInv'
  BY <1>2, NothingAppended DEF Spawn
<1>3. CASE Announce
  BY <1>0, <1>3, ParentKeepsAnnounced DEF Announce
<1>4. CASE Start
  BY <1>0, <1>1, <1>4 DEF Start
<1>5. CASE TaskLogs
  <2> DEFINE line == Line("TASK", Len(sub[job.id]), 0)
  <2>1. /\ line \in LogLines /\ job.id \in SubIds
        /\ \A id \in SubIds \ {job.id} : sub'[id] = sub[id]
        /\ sub'[job.id] = Append(sub[job.id], line)
    BY <1>5, TaskGrows
  <2>2. sub[job.id] \in Seq(LogLines)
    BY <2>1 DEF LogTypes
  <2>3. Len(sub[job.id]) \in Nat
    BY <2>2
  <2>4. line.kind = "TASK" /\ line.id = job.id /\ line.caps = job.caps
    BY <1>0, <2>3, LineTyped
  <2>5. pc' # "starting" /\ UNCHANGED <<parent, job>>
    BY <1>5 DEF TaskLogs
  <2> HIDE DEF line
  <2>6. sub'[job.id] \in Leaves(sub[job.id], line)
    BY <2>1 DEF Leaves
  <2> QED
    BY <2>1, <2>4, <2>5, <2>6, SubKeepsAnnounced
<1>6. CASE Conclude
  BY <1>0, <1>1, <1>6 DEF Conclude
<1>7. CASE End
  BY <1>0, <1>1, <1>7 DEF End
<1>8. CASE Report
  <2>1. sub[job.id] \in Seq(LogLines)
    BY <1>8 DEF Report, LogTypes
  <2>2. Len(sub[job.id]) \in Nat
    BY <2>1
  <2>3. CASE ParentAppend("RETURNED", Len(sub[job.id]), "idle")
    BY <1>0, <1>8, <2>2, <2>3, ParentKeepsAnnounced DEF Report
  <2>4. CASE pc' = "idle" /\ UNCHANGED parent
    BY <1>8, <2>4, NothingAppended DEF Report
  <2> QED
    BY <1>8, <2>3, <2>4 DEF Report
<1>9. CASE Restart
  BY <1>9, NothingAppended DEF Restart
<1>10. CASE /\ UNCHANGED <<parent, sub, next, subNext, job>>
            /\ \/ pc' = pc
               \/ pc' = "idle"
               \/ pc = "running" /\ pc' \in {"succeeded", "failed", "late"}
  BY <1>10, NothingAppended
<1> QED
  BY <1>2, <1>3, <1>4, <1>5, <1>6, <1>7, <1>8, <1>9, <1>10, Steps

(* A sub-agent's start is never in its log without an announcement for it, *)
(* with what it was granted, in the parent's: for any number of spawns,    *)
(* failed appends, crashes and sessions resumed (spawn_and_execute).       *)
THEOREM StartsFollowAnnouncements == Spec => []StartsAreAnnounced
<1>1. Init => AnnouncedInv
  <2> SUFFICES ASSUME Init, NEW id \in SubIds, NEW caps \in Requests
               PROVE  Count(sub[id], "START", id, caps) + Due(id, caps)
                        <= Count(parent, "SPAWNED", id, caps)
    BY DEF AnnouncedInv
  <2>1. /\ Lines(sub[id], "START", id, caps) = {}
        /\ Lines(parent, "SPAWNED", id, caps) = {}
        /\ Due(id, caps) = 0
    BY DEF Init, Lines, Due
  <2> QED
    BY <2>1, FS_EmptySet DEF Count
<1>2. LogTypes /\ AnnouncedInv => StartsAreAnnounced
  <2> SUFFICES ASSUME LogTypes, AnnouncedInv, NEW id \in SubIds, NEW caps \in Requests
               PROVE  Count(sub[id], "START", id, caps) <= Count(parent, "SPAWNED", id, caps)
    BY DEF StartsAreAnnounced, Count
  <2> QED
    BY CountsAreNumbers DEF AnnouncedInv
<1> QED
  BY <1>1, <1>2, AnnouncedKept, LogsTyped, PTL DEF Spec

-----------------------------------------------------------------------------
(* What is reported as returned.                                           *)

(* The first n lines of a log verify and close with the success.           *)
Stands(log, n) ==
  /\ n >= 3 /\ n <= Len(log)
  /\ \A i \in 1..n : log[i].seq = i - 1 /\ log[i].kind # "torn"
  /\ log[n - 1].kind = "SUCCESS" /\ log[n].kind = "END"

ReportsStand ==
  \A i \in DOMAIN parent : parent[i].kind = "RETURNED" =>
    /\ parent[i].id \in SubIds
    /\ Stands(sub[parent[i].id], parent[i].events)
    /\ \E j \in 1..i - 1 : parent[j].kind = "SPAWNED" /\ parent[j].id = parent[i].id

JobAnnounced ==
  pc \in Announced =>
    \E j \in DOMAIN parent : parent[j].kind = "SPAWNED" /\ parent[j].id = job.id

(* What the log of the sub-session ends with, on the way to the report.    *)
LogSoFar ==
  LET log == sub[job.id]
  IN /\ pc \in Started => Len(log) >= 1
     /\ pc = "ending" => Len(log) >= 2 /\ log[Len(log)].kind = "SUCCESS"
     /\ pc = "checking" => /\ Len(log) >= 3
                           /\ log[Len(log) - 1].kind = "SUCCESS"
                           /\ log[Len(log)].kind = "END"

ReturnedInv == ReportsStand /\ JobAnnounced /\ LogSoFar

LEMMA StandsStill ==
  ASSUME NEW log \in Seq(LogLines), NEW line \in LogLines, NEW left \in Leaves(log, line),
         NEW n \in Nat, Stands(log, n)
  PROVE  Stands(left, n)
<1>1. \E l \in LogLines : left = log \/ left = Append(log, l)
  BY TornTyped DEF Leaves
<1>2. PICK l \in LogLines : left = log \/ left = Append(log, l)
  BY <1>1
<1>3. /\ Len(left) \in Nat /\ Len(log) \in Nat
      /\ Len(left) >= Len(log) /\ \A i \in 1..Len(log) : left[i] = log[i]
  BY <1>2, SMTT(30)
<1>4. n >= 3 /\ n <= Len(log)
  BY DEF Stands
<1>5. n - 1 \in 1..Len(log) /\ n \in 1..Len(log) /\ 1..n \subseteq 1..Len(log)
  BY <1>3, <1>4
<1>6. /\ left[n - 1] = log[n - 1] /\ left[n] = log[n]
      /\ \A i \in 1..n : left[i] = log[i]
  BY <1>3, <1>5
<1>7. n <= Len(left)
  BY <1>3, <1>4
<1> QED
  BY <1>4, <1>6, <1>7 DEF Stands

(* The parts of the invariant that a step which appends to the             *)
(* sub-session's log, or to none, keeps.                                   *)
LEMMA SubKeepsReports ==
  ASSUME LogTypes, ReportsStand, JobAnnounced, NEW line \in LogLines, job.id \in SubIds,
         sub'[job.id] \in Leaves(sub[job.id], line),
         \A id \in SubIds \ {job.id} : sub'[id] = sub[id],
         UNCHANGED <<parent, job>>, pc' \in Announced => pc \in Announced
  PROVE  ReportsStand' /\ JobAnnounced'
<1>1. ASSUME NEW i \in DOMAIN parent, parent[i].kind = "RETURNED"
      PROVE  Stands(sub'[parent[i].id], parent[i].events)
  <2>0. parent[i] \in LogLines
    BY DEF LogTypes
  <2>1. /\ parent[i].events \in Nat
        /\ sub[job.id] \in Seq(LogLines)
    BY <2>0 DEF LogTypes, LogLines
  <2>2. parent[i].id \in SubIds /\ Stands(sub[parent[i].id], parent[i].events)
    BY <1>1 DEF ReportsStand
  <2> QED
    BY <2>1, <2>2, StandsStill
<1>2. ReportsStand'
  BY <1>1 DEF ReportsStand, Stands
<1> QED
  BY <1>2 DEF JobAnnounced

LEMMA QuietKeepsReports ==
  ASSUME ReturnedInv, UNCHANGED <<parent, sub, job>>,
         pc' = pc \/ (pc \in Started /\ pc' \in {"succeeded", "failed", "late"})
  PROVE  ReturnedInv'
BY DEF ReturnedInv, ReportsStand, Stands, JobAnnounced, LogSoFar, Announced, Started

LEMMA DoneKeepsReports ==
  ASSUME ReturnedInv, UNCHANGED <<parent, sub>>, pc' \in {"idle", "announcing"}
  PROVE  ReturnedInv'
BY DEF ReturnedInv, ReportsStand, Stands, JobAnnounced, LogSoFar, Announced, Started

(* An append to the parent's log.                                          *)
LEMMA ParentKeepsReports ==
  ASSUME LogTypes, ReportsStand, NEW line \in LogLines, parent' \in Leaves(parent, line),
         UNCHANGED sub,
         line.kind = "RETURNED" =>
           /\ line.id \in SubIds
           /\ Stands(sub[line.id], line.events)
           /\ \E j \in DOMAIN parent : parent[j].kind = "SPAWNED" /\ parent[j].id = line.id
  PROVE  ReportsStand'
<1>1. PICK l \in LogLines : /\ parent' = parent \/ parent' = Append(parent, l)
                            /\ l = line \/ l.kind = "torn"
  BY TornTyped DEF Leaves
<1>2. parent \in Seq(LogLines)
  BY DEF LogTypes
<1> SUFFICES ASSUME NEW i \in DOMAIN parent', parent'[i].kind = "RETURNED"
             PROVE  /\ parent'[i].id \in SubIds
                    /\ Stands(sub[parent'[i].id], parent'[i].events)
                    /\ \E j \in 1..i - 1 : /\ parent'[j].kind = "SPAWNED"
                                           /\ parent'[j].id = parent'[i].id
  BY DEF ReportsStand, Stands
<1>3. CASE i \in DOMAIN parent
  <2>1. \A j \in 1..i : parent'[j] = parent[j]
    BY <1>1, <1>2, <1>3
  <2>2. i \in 1..i /\ 1..i - 1 \subseteq 1..i
    BY <1>2, <1>3
  <2>3. parent'[i] = parent[i] /\ \A j \in 1..i - 1 : parent'[j] = parent[j]
    BY <2>1, <2>2
  <2> QED
    BY <1>3, <2>3 DEF ReportsStand
<1>4. CASE i \notin DOMAIN parent
  <2>1. parent' = Append(parent, l) /\ i = Len(parent) + 1 /\ parent'[i] = l
    BY <1>1, <1>2, <1>4
  <2>2. l = line
    BY <1>1, <2>1
  <2>3. PICK j \in DOMAIN parent : parent[j].kind = "SPAWNED" /\ parent[j].id = line.id
    BY <2>1, <2>2
  <2>4. j \in 1..i - 1 /\ parent'[j] = parent[j]
    BY <1>2, <2>1
  <2> QED
    BY <2>1, <2>2, <2>3, <2>4
<1> QED
  BY <1>3, <1>4

(* A line of its kind at the end of the sub-session's log, and no other    *)
(* line touched, when spawn_and_execute goes on.                           *)
LEMMA SubAppends ==
  ASSUME LogTypes, ReturnedInv, NEW kind \in Kinds, NEW then, SubAppend(kind, then),
         UNCHANGED <<parent, job>>, pc \in Announced, pc' # "idle"
  PROVE  LET log == sub[job.id]
             after == sub'[job.id]
         IN /\ pc' = then
            /\ Len(log) \in Nat
            /\ Len(after) = Len(log) + 1
            /\ after[Len(after)].kind = kind
            /\ \A i \in 1..Len(log) : after[i] = log[i]
<1> DEFINE log == sub[job.id]
           line == Line(kind, subNext, 0)
<1>1. pc # "idle" /\ 0 \in Nat /\ subNext \in Nat /\ log \in Seq(LogLines)
  BY DEF Announced, LogTypes
<1>2. line \in LogLines /\ line.kind = kind
  BY <1>1, LineTyped
<1>3. pc' = then /\ sub'[job.id] = Append(log, line)
  BY <1>1, SubGrows
<1>4. job' = job
  OBVIOUS
<1> HIDE DEF log, line
<1>5. /\ Len(log) \in Nat
      /\ Len(Append(log, line)) = Len(log) + 1
      /\ Append(log, line)[Len(log) + 1] = line
      /\ \A i \in 1..Len(log) : Append(log, line)[i] = log[i]
  BY <1>1, <1>2
<1> QED
  BY <1>2, <1>3, <1>5 DEF log

LEMMA SubAppendKeepsReports ==
  ASSUME LogTypes, ReturnedInv, NEW kind \in Kinds, NEW then, SubAppend(kind, then),
         UNCHANGED <<parent, job>>, pc \in Announced
  PROVE  ReportsStand' /\ JobAnnounced'
<1> DEFINE line == Line(kind, subNext, 0)
<1>1. pc # "idle"
  BY DEF Announced
<1>2. /\ line \in LogLines /\ job.id \in SubIds
      /\ \A id \in SubIds \ {job.id} : sub'[id] = sub[id]
      /\ sub'[job.id] \in Leaves(sub[job.id], line)
  BY <1>1, SubGrows
<1> HIDE DEF line
<1> QED
  BY <1>2, SubKeepsReports DEF ReturnedInv

LEMMA ReturnedKept == LogTypes /\ ReturnedInv /\ [Next]_vars => ReturnedInv'
<1> SUFFICES ASSUME LogTypes, ReturnedInv, [Next]_vars PROVE ReturnedInv'
  OBVIOUS
<1>0. /\ {"SPAWNED", "START", "TASK", "SUCCESS", "FAILED", "TIMEOUT", "END", "RETURNED"}
           \subseteq Kinds
      /\ 0 \in Nat /\ next \in Nat /\ parent \in Seq(LogLines)
  BY DEF Kinds, LogTypes
<1>1. ASSUME NEW id \in SubIds, NEW caps \in Requests, Spawn(id, caps)
      PROVE  ReturnedInv'
  BY <1>1, DoneKeepsReports DEF Spawn
<1>2. CASE Announce
  <2> DEFINE line == Line("SPAWNED", next, 0)
  <2>1. /\ line \in LogLines /\ parent' \in Leaves(parent, line)
        /\ pc' = "idle" \/ (pc' = "starting" /\ parent' = Append(parent, line))
    BY <1>0, <1>2, ParentGrows DEF Announce
  <2>2. line.kind = "SPAWNED" /\ line.id = job.id
    BY <1>0, LineTyped
  <2>3. UNCHANGED <<sub, job>>
    BY <1>2 DEF Announce
  <2> HIDE DEF line
  <2>4. ReportsStand'
    BY <2>1, <2>2, <2>3, ParentKeepsReports DEF ReturnedInv
  <2>5. JobAnnounced'
    <3>1. CASE pc' = "idle"
      BY <3>1 DEF JobAnnounced, Announced
    <3>2. CASE parent' = Append(parent, line)
      <4>1. Len(parent) + 1 \in DOMAIN parent' /\ parent'[Len(parent) + 1] = line
        BY <1>0, <2>1, <3>2
      <4> QED
        BY <2>2, <2>3, <4>1 DEF JobAnnounced
    <3> QED
      BY <2>1, <3>1, <3>2
  <2>6. LogSoFar'
    BY <2>1 DEF LogSoFar, Started, Announced
  <2> QED
    BY <2>4, <2>5, <2>6 DEF ReturnedInv
<1>3. CASE Start
  <2>1. ReportsStand' /\ JobAnnounced'
    BY <1>0, <1>3, SubAppendKeepsReports DEF Start, Announced
  <2>2. CASE pc' = "idle"
    BY <2>1, <2>2 DEF ReturnedInv, LogSoFar, Started, Announced
  <2>3. CASE pc' # "idle"
    <3>1. /\ pc' = "running" /\ job' = job
          /\ Len(sub[job.id]) \in Nat /\ Len(sub'[job.id]) = Len(sub[job.id]) + 1
      BY <1>0, <1>3, <2>3, SubAppends DEF Start, Announced
    <3> QED
      BY <2>1, <3>1 DEF ReturnedInv, LogSoFar
  <2> QED
    BY <2>2, <2>3
<1>4. CASE TaskLogs
  <2> DEFINE log == sub[job.id]
             line == Line("TASK", Len(log), 0)
  <2>1. /\ line \in LogLines /\ job.id \in SubIds
        /\ \A id \in SubIds \ {job.id} : sub'[id] = sub[id]
        /\ sub'[job.id] = Append(log, line)
    BY <1>4, TaskGrows
  <2>2. pc = "running" /\ UNCHANGED <<parent, job, pc>>
    BY <1>4 DEF TaskLogs
  <2>3. log \in Seq(LogLines)
    BY <2>1 DEF LogTypes
  <2> HIDE DEF line
  <2>4. sub'[job.id] \in Leaves(sub[job.id], line)
    BY <2>1 DEF Leaves
  <2>5. ReportsStand' /\ JobAnnounced'
    BY <2>1, <2>2, <2>4, SubKeepsReports DEF ReturnedInv
  <2>6. Len(sub'[job.id]) >= 1
    BY <2>1, <2>3
  <2> QED
    BY <2>2, <2>5, <2>6 DEF ReturnedInv, LogSoFar
<1>5. CASE Conclude
  <2>1. pc \in Announced /\ UNCHANGED <<parent, job>>
    BY <1>5 DEF Conclude, Announced
  <2>2. ReportsStand' /\ JobAnnounced'
    BY <1>0, <1>5, <2>1, SubAppendKeepsReports DEF Conclude
  <2>3. CASE pc' = "idle"
    BY <2>2, <2>3 DEF ReturnedInv, LogSoFar, Started, Announced
  <2>4. CASE pc = "succeeded" /\ SubAppend("SUCCESS", "ending") /\ pc' # "idle"
    <3>1. /\ pc' = "ending" /\ job' = job
          /\ Len(sub[job.id]) \in Nat /\ Len(sub'[job.id]) = Len(sub[job.id]) + 1
          /\ sub'[job.id][Len(sub'[job.id])].kind = "SUCCESS"
      BY <1>0, <2>1, <2>4, SubAppends
    <3>2. Len(sub[job.id]) >= 1
      BY <2>4 DEF ReturnedInv, LogSoFar, Started, Announced
    <3>3. Len(sub'[job.id]) >= 2
      BY <3>1, <3>2
    <3> QED
      BY <2>2, <3>1, <3>3 DEF ReturnedInv, LogSoFar
  <2>5. CASE pc # "succeeded" /\ pc' # "idle"
    BY <1>0, <1>5, <2>1, <2>5, SubAppends DEF Conclude
  <2> QED
    BY <1>5, <2>3, <2>4, <2>5 DEF Conclude
<1>6. CASE End
  <2>1. ReportsStand' /\ JobAnnounced'
    BY <1>0, <1>6, SubAppendKeepsReports DEF End, Announced
  <2>2. CASE pc' = "idle"
    BY <2>1, <2>2 DEF ReturnedInv, LogSoFar, Started, Announced
  <2>3. CASE pc' # "idle"
    <3>1. /\ pc' = "checking" /\ job' = job
          /\ Len(sub[job.id]) \in Nat /\ Len(sub'[job.id]) = Len(sub[job.id]) + 1
          /\ sub'[job.id][Len(sub'[job.id])].kind = "END"
          /\ \A i \in 1..Len(sub[job.id]) : sub'[job.id][i] = sub[job.id][i]
      BY <1>0, <1>6, <2>3, SubAppends DEF End, Announced
    <3>2. Len(sub[job.id]) >= 2 /\ sub[job.id][Len(sub[job.id])].kind = "SUCCESS"
      BY <1>6 DEF End, ReturnedInv, LogSoFar
    <3>3. Len(sub'[job.id]) >= 3 /\ sub'[job.id][Len(sub'[job.id]) - 1].kind = "SUCCESS"
      BY <3>1, <3>2, SMTT(30)
    <3> QED
      BY <2>1, <3>1, <3>3 DEF ReturnedInv, LogSoFar, Started, Announced
  <2> QED
    BY <2>2, <2>3
<1>7. CASE Report
  <2>1. /\ sub[job.id] \in Seq(LogLines) /\ job.id \in SubIds
        /\ pc = "checking" /\ UNCHANGED <<sub, job>>
    BY <1>7 DEF Report, LogTypes
  <2>2. Len(sub[job.id]) \in Nat
    BY <2>1
  <2>3. CASE Checks(sub[job.id]) /\ ParentAppend("RETURNED", Len(sub[job.id]), "idle")
    <3> DEFINE line == Line("RETURNED", next, Len(sub[job.id]))
    <3>1. line \in LogLines /\ parent' \in Leaves(parent, line) /\ pc' = "idle"
      BY <1>0, <2>2, <2>3, ParentGrows
    <3>2. line.id = job.id /\ line.events = Len(sub[job.id])
      BY DEF Line
    <3> HIDE DEF line
    <3>3. Stands(sub[job.id], Len(sub[job.id]))
      <4>1. /\ Len(sub[job.id]) >= 3
            /\ sub[job.id][Len(sub[job.id]) - 1].kind = "SUCCESS"
            /\ sub[job.id][Len(sub[job.id])].kind = "END"
        BY <2>1 DEF ReturnedInv, LogSoFar
      <4>2. \A i \in 1..Len(sub[job.id]) : /\ sub[job.id][i].seq = i - 1
                                           /\ sub[job.id][i].kind # "torn"
        BY <2>1, <2>3 DEF Checks, Verifies
      <4> QED
        BY <2>2, <4>1, <4>2 DEF Stands
    <3>4. \E j \in DOMAIN parent : parent[j].kind = "SPAWNED" /\ parent[j].id = job.id
      BY <2>1 DEF ReturnedInv, JobAnnounced, Announced
    <3>5. ReportsStand'
      BY <2>1, <3>1, <3>2, <3>3, <3>4, ParentKeepsReports DEF ReturnedInv
    <3> QED
      BY <3>1, <3>5 DEF ReturnedInv, JobAnnounced, LogSoFar, Started, Announced
  <2>4. CASE pc' = "idle" /\ UNCHANGED parent
    BY <2>1, <2>4, DoneKeepsReports
  <2> QED
    BY <1>7, <2>3, <2>4 DEF Report
<1>8. CASE Restart
  BY <1>8, QuietKeepsReports DEF Restart
<1>9. CASE /\ UNCHANGED <<parent, sub, next, subNext, job>>
           /\ \/ pc' = pc
              \/ pc' = "idle"
              \/ pc = "running" /\ pc' \in {"succeeded", "failed", "late"}
  <2>1. UNCHANGED <<parent, sub, job>>
    BY <1>9
  <2>2. CASE pc' = pc
    BY <2>1, <2>2, QuietKeepsReports
  <2>3. CASE pc' = "idle"
    BY <2>1, <2>3, DoneKeepsReports
  <2>4. CASE pc = "running" /\ pc' \in {"succeeded", "failed", "late"}
    <3>1. pc \in Started
      BY <2>4 DEF Started, Announced
    <3> QED
      BY <2>1, <2>4, <3>1, QuietKeepsReports
  <2> QED
    BY <1>9, <2>2, <2>3, <2>4
<1> QED
  BY <1>1, <1>2, <1>3, <1>4, <1>5, <1>6, <1>7, <1>8, <1>9, Steps

(* A success the parent's log reports stands in the sub-session's, for any *)
(* number of lines and spawns: what spawn_and_execute verified is never    *)
(* taken away, whatever is appended to the log after.                      *)
THEOREM ReturnsStand == Spec => []ReturnedIsVerified
<1>1. Init => ReturnedInv
  BY DEF Init, ReturnedInv, ReportsStand, JobAnnounced, LogSoFar, Started, Announced
<1>2. LogTypes /\ ReturnedInv => ReturnedIsVerified
  <2> SUFFICES ASSUME LogTypes, ReturnedInv,
                      NEW i \in DOMAIN parent, parent[i].kind = "RETURNED"
               PROVE  LET log == sub[parent[i].id]
                          n == parent[i].events
                      IN /\ n >= 3 /\ n <= Len(log)
                         /\ Verifies(SubSeq(log, 1, n))
                         /\ log[n - 1].kind = "SUCCESS" /\ log[n].kind = "END"
                         /\ \E j \in 1..i - 1 : /\ parent[j].kind = "SPAWNED"
                                                /\ parent[j].id = parent[i].id
    BY DEF ReturnedIsVerified
  <2> DEFINE log == sub[parent[i].id]
             n == parent[i].events
  <2>1. /\ parent[i].id \in SubIds /\ Stands(log, n)
        /\ \E j \in 1..i - 1 : parent[j].kind = "SPAWNED" /\ parent[j].id = parent[i].id
    BY DEF ReturnedInv, ReportsStand
  <2>2. parent[i] \in LogLines
    BY DEF LogTypes
  <2>3. n \in Nat /\ log \in Seq(LogLines)
    BY <2>1, <2>2 DEF LogTypes, LogLines
  <2>4. n >= 3 /\ n <= Len(log)
    BY <2>1 DEF Stands
  <2>5. Verifies(SubSeq(log, 1, n))
    <3> HIDE DEF log, n
    <3>1. /\ DOMAIN SubSeq(log, 1, n) = 1..n
          /\ \A k \in 1..n : SubSeq(log, 1, n)[k] = log[k]
      BY <2>3, <2>4
    <3> QED
      BY <2>1, <3>1 DEF Verifies, Stands
  <2> QED
    BY <2>1, <2>4, <2>5 DEF Stands
<1> QED
  BY <1>1, <1>2, ReturnedKept, LogsTyped, PTL DEF Spec

-----------------------------------------------------------------------------
(* Counting.  The induction the paths need, over sets of naturals.         *)

(* A set of naturals has its least member in it: the intervals up to its   *)
(* members are finite sets, and one of them has none of the others in it.  *)
LEMMA LeastOf ==
  ASSUME NEW S \in SUBSET Nat, S # {}
  PROVE  \E m \in S : \A k \in S : m <= k
<1> DEFINE Below(m) == 1..m
           Low(n) == {m \in S : m <= n}
<1>1. PICK n \in S : TRUE
  OBVIOUS
<1>2. IsFiniteSet(1..n)
  BY FS_Interval
<1>3. \A m \in Low(n) : Below(m) \in SUBSET (1..n)
  OBVIOUS
<1>4. {Below(m) : m \in Low(n)} \subseteq FiniteSubsetsOf(1..n)
  BY <1>2, <1>3, FS_Subset DEF FiniteSubsetsOf
<1>5. Below(n) \in {Below(m) : m \in Low(n)}
  BY <1>1
<1>6. IsWellFoundedOn(StrictSubsetOrdering(1..n), FiniteSubsetsOf(1..n))
  BY FS_StrictSubsetOrderingWellFounded
<1>7. PICK least \in {Below(m) : m \in Low(n)} :
        \A other \in {Below(m) : m \in Low(n)} : ~(<<other, least>> \in StrictSubsetOrdering(1..n))
  BY <1>4, <1>5, <1>6, WFMin
<1>8. PICK m \in Low(n) : least = Below(m)
  OBVIOUS
<1>9. ASSUME NEW k \in S, k < m PROVE FALSE
  <2>1. k \in Low(n)
    BY <1>1, <1>9
  <2>2. m \in Below(m) /\ m \notin Below(k) /\ Below(k) \subseteq Below(m)
    BY <1>9
  <2>3. <<Below(k), Below(m)>> \in StrictSubsetOrdering(1..n)
    BY <1>3, <2>1, <2>2 DEF StrictSubsetOrdering
  <2> QED
    BY <1>7, <1>8, <2>1, <2>3
<1> QED
  BY <1>9

LEMMA CountingUp ==
  ASSUME NEW n \in Nat, NEW P \in SUBSET Nat, 0 \in P, \A i \in 1..n : i - 1 \in P => i \in P
  PROVE  0..n \subseteq P
<1> DEFINE Left == {i \in 0..n : i \notin P}
<1> SUFFICES ASSUME Left # {} PROVE FALSE
  OBVIOUS
<1>1. Left \in SUBSET Nat
  OBVIOUS
<1>2. PICK m \in Left : \A k \in Left : m <= k
  <2> HIDE DEF Left
  <2> QED
    BY <1>1, LeastOf
<1>3. m \in 1..n /\ m - 1 \in 0..n
  OBVIOUS
<1>4. m - 1 \in P
  BY <1>2, <1>3
<1> QED
  BY <1>3, <1>4

(* What goes along a sequence from a start by steps of its own set exists. *)
Ways(S, T) == [S \X T -> S]

Leads(S, start, step, parts) ==
  \E g \in [0..Len(parts) -> S] :
    g[0] = start /\ \A i \in 1..Len(parts) : g[i] = step[<<g[i - 1], parts[i]>>]

LEMMA Goes ==
  ASSUME NEW S, NEW T, NEW start \in S, NEW step \in Ways(S, T), NEW parts \in Seq(T)
  PROVE  Leads(S, start, step, parts)
<1> DEFINE Gone(n, g) == g[0] = start /\ \A i \in 1..n : g[i] = step[<<g[i - 1], parts[i]>>]
           P == {n \in 0..Len(parts) : \E g \in [0..n -> S] : Gone(n, g)}
<1>1. 0 \in P
  <2> DEFINE g == [i \in 0..0 |-> start]
  <2>1. g \in [0..0 -> S] /\ g[0] = start
    OBVIOUS
  <2> HIDE DEF g
  <2>2. Gone(0, g)
    BY <2>1
  <2>3. 0 \in 0..Len(parts)
    OBVIOUS
  <2> QED
    BY <2>1, <2>2, <2>3
<1>2. ASSUME NEW n \in 1..Len(parts), n - 1 \in P PROVE n \in P
  <2>1. PICK g \in [0..n - 1 -> S] : Gone(n - 1, g)
    BY <1>2
  <2> DEFINE to == step[<<g[n - 1], parts[n]>>]
             h == [i \in 0..n |-> IF i = n THEN to ELSE g[i]]
  <2>2. g[n - 1] \in S /\ parts[n] \in T
    OBVIOUS
  <2>3. to \in S
    BY <2>2 DEF Ways
  <2>4. h \in [0..n -> S]
    BY <2>3
  <2>5. h[0] = start
    BY <2>1
  <2>6. ASSUME NEW i \in 1..n PROVE h[i] = step[<<h[i - 1], parts[i]>>]
    <3>1. CASE i = n
      <4>1. h[n] = to /\ h[n - 1] = g[n - 1]
        OBVIOUS
      <4> QED
        BY <3>1, <4>1
    <3>2. CASE i \in 1..n - 1
      <4>1. h[i] = g[i] /\ h[i - 1] = g[i - 1]
        BY <3>2
      <4> QED
        BY <2>1, <3>2, <4>1
    <3> QED
      BY <3>1, <3>2
  <2> HIDE DEF h
  <2> QED
    BY <2>4, <2>5, <2>6
<1>3. Len(parts) \in P
  <2> HIDE DEF P
  <2>1. P \in SUBSET Nat /\ Len(parts) \in Nat
    BY DEF P
  <2>2. \A i \in 1..Len(parts) : i - 1 \in P => i \in P
    BY <1>2
  <2>3. 0..Len(parts) \subseteq P
    BY <1>1, <2>1, <2>2, CountingUp
  <2> QED
    BY <2>1, <2>3
<1> QED
  BY <1>3 DEF Leads

-----------------------------------------------------------------------------
(* Paths.                                                                  *)

LEMMA UpTyped ==
  ASSUME NEW T, NEW p \in Seq(T)
  PROVE  /\ Up(p) \in Seq(T)
         /\ p # <<>> => /\ Len(Up(p)) = Len(p) - 1
                        /\ \A i \in 1..Len(p) - 1 : Up(p)[i] = p[i]
                        /\ Last(p) = p[Len(p)] /\ Last(p) \in T
<1>1. CASE p = <<>>
  BY <1>1 DEF Up
<1>2. CASE p # <<>>
  <2>1. Len(p) \in Nat \ {0}
    BY <1>2, EmptySeq
  <2>2. PICK n \in Nat : n = Len(p) - 1
    BY <2>1
  <2>3. Up(p) = SubSeq(p, 1, n)
    BY <1>2, <2>2 DEF Up, Front
  <2>4. \A i \in 1..n + 1 : p[i] \in T
    BY <2>2
  <2>5. /\ SubSeq(p, 1, n) \in Seq(T)
        /\ Len(SubSeq(p, 1, n)) = IF 1 <= n THEN n - 1 + 1 ELSE 0
        /\ \A i \in 1..n - 1 + 1 : SubSeq(p, 1, n)[i] = p[1 + i - 1]
    BY <2>2, <2>4, SubSeqProperties
  <2>6. n - 1 + 1 = n /\ (IF 1 <= n THEN n - 1 + 1 ELSE 0) = n
    OBVIOUS
  <2>7. Len(Up(p)) = n
    BY <2>3, <2>5, <2>6, Zenon
  <2>8. ASSUME NEW i \in 1..n PROVE Up(p)[i] = p[i]
    <3>1. i \in 1..n - 1 + 1 /\ 1 + i - 1 = i
      OBVIOUS
    <3> QED
      BY <2>3, <2>5, <3>1, Zenon
  <2> QED
    BY <2>2, <2>3, <2>4, <2>5, <2>7, <2>8 DEF Last
<1> QED
  BY <1>1, <1>2

(* normalize_path, name by name; of the names it is given.                 *)
LEMMA NormalizeGoes ==
  ASSUME NEW T \in SUBSET STRING, NEW parts \in Seq(T)
  PROVE  \E at \in [0..Len(parts) -> Seq(T \ {".."})] :
           /\ at[0] = <<>>
           /\ \A i \in 1..Len(parts) : at[i] = PushOrPop(at[i - 1], parts[i])
           /\ Normalize(parts) = at[Len(parts)]
<1> DEFINE S == Seq(T \ {".."})
           step == [x \in S \X T |-> PushOrPop(x[1], x[2])]
           Is(f) == f = [i \in 0..Len(parts) |->
                           IF i = 0 THEN <<>> ELSE PushOrPop(f[i - 1], parts[i])]
           way == CHOOSE f : Is(f)
<1>1. step \in Ways(S, T)
  <2> SUFFICES ASSUME NEW p \in S, NEW name \in T PROVE PushOrPop(p, name) \in S
    BY DEF Ways
  <2>1. Up(p) \in S
    BY UpTyped
  <2>2. name # ".." => Append(p, name) \in S
    OBVIOUS
  <2> QED
    BY <2>1, <2>2 DEF PushOrPop
<1>2. <<>> \in S
  OBVIOUS
<1>3. PICK g \in [0..Len(parts) -> S] :
        g[0] = <<>> /\ \A i \in 1..Len(parts) : g[i] = step[<<g[i - 1], parts[i]>>]
  <2> HIDE DEF S, step
  <2>1. Leads(S, <<>>, step, parts)
    BY <1>1, <1>2, Goes
  <2> QED
    BY <2>1 DEF Leads
<1>4. \A i \in 1..Len(parts) : g[i] = PushOrPop(g[i - 1], parts[i])
  <2> SUFFICES ASSUME NEW i \in 1..Len(parts) PROVE g[i] = PushOrPop(g[i - 1], parts[i])
    OBVIOUS
  <2>1. g[i - 1] \in S /\ parts[i] \in T
    BY <1>3
  <2> QED
    BY <1>3, <2>1
<1>5. Is(g)
  BY <1>3, <1>4
<1>6. Is(way)
  <2> HIDE DEF Is
  <2> QED
    BY <1>5
<1>7. way[0] = <<>> /\ \A i \in 1..Len(parts) : way[i] = PushOrPop(way[i - 1], parts[i])
  <2> HIDE DEF way
  <2> QED
    BY <1>6
<1>8. \A i \in 0..Len(parts) : g[i] = way[i]
  <2> HIDE DEF way, step, S
  <2> DEFINE P == {i \in 0..Len(parts) : g[i] = way[i]}
  <2>1. P \in SUBSET Nat /\ 0 \in P /\ Len(parts) \in Nat
    BY <1>3, <1>7
  <2>2. ASSUME NEW i \in 1..Len(parts), i - 1 \in P PROVE i \in P
    BY <1>4, <1>7, <2>2
  <2>3. 0..Len(parts) \subseteq P
    <3> HIDE DEF P
    <3> QED
      BY <2>1, <2>2, CountingUp
  <2> QED
    BY <2>3
<1>9. Normalize(parts) = way[Len(parts)]
  BY DEF Normalize
<1> HIDE DEF way, S, step, Is
<1>10. Normalize(parts) = g[Len(parts)]
  <2>1. Len(parts) \in 0..Len(parts)
    OBVIOUS
  <2> QED
    BY <1>8, <1>9, <2>1
<1> QED
  BY <1>3, <1>4, <1>10 DEF S

(* What it yields is a path.                                               *)
LEMMA NormalizeTyped ==
  ASSUME NEW parts \in Seq(STRING)
  PROVE  Normalize(parts) \in Paths
<1>1. PICK at \in [0..Len(parts) -> Seq(STRING \ {".."})] :
        Normalize(parts) = at[Len(parts)]
  BY NormalizeGoes
<1>2. Len(parts) \in 0..Len(parts)
  OBVIOUS
<1> QED
  BY <1>1, <1>2 DEF Paths

(* The last name of a path is taken last.                                  *)
LEMMA NormalizeLast ==
  ASSUME NEW parts \in Seq(STRING), parts # <<>>
  PROVE  Normalize(parts) = PushOrPop(Normalize(Up(parts)), Last(parts))
<1> DEFINE front == Up(parts)
<1>1. /\ front \in Seq(STRING) /\ Len(parts) \in Nat \ {0} /\ Len(front) = Len(parts) - 1
      /\ \A i \in 1..Len(parts) - 1 : front[i] = parts[i]
      /\ Last(parts) = parts[Len(parts)]
  BY UpTyped, EmptySeq
<1>2. PICK at \in [0..Len(parts) -> Seq(STRING \ {".."})] :
        /\ at[0] = <<>>
        /\ \A i \in 1..Len(parts) : at[i] = PushOrPop(at[i - 1], parts[i])
        /\ Normalize(parts) = at[Len(parts)]
  BY NormalizeGoes
<1> HIDE DEF front
<1>3. PICK to \in [0..Len(front) -> Seq(STRING \ {".."})] :
        /\ to[0] = <<>>
        /\ \A i \in 1..Len(front) : to[i] = PushOrPop(to[i - 1], front[i])
        /\ Normalize(front) = to[Len(front)]
  BY <1>1, NormalizeGoes
<1> DEFINE P == {i \in 0..Len(front) : at[i] = to[i]}
<1>4. 0..Len(front) \subseteq P
  <2>1. P \in SUBSET Nat /\ 0 \in P /\ Len(front) \in Nat
    BY <1>1, <1>2, <1>3
  <2>2. ASSUME NEW i \in 1..Len(front), i - 1 \in P PROVE i \in P
    BY <1>1, <1>2, <1>3, <2>2
  <2> HIDE DEF P
  <2> QED
    BY <2>1, <2>2, CountingUp
<1>5. at[Len(parts)] = PushOrPop(at[Len(parts) - 1], parts[Len(parts)])
  BY <1>1, <1>2
<1>6. at[Len(parts) - 1] = Normalize(front)
  <2>1. Len(front) \in P
    BY <1>1, <1>4
  <2>2. at[Len(front)] = Normalize(front)
    BY <1>3, <2>1
  <2> QED
    BY <1>1, <2>2
<1> QED
  BY <1>1, <1>2, <1>5, <1>6 DEF front

LEMMA NowhereIsNoPath == Nowhere \notin Paths
<1> SUFFICES ASSUME Nowhere \in Paths PROVE FALSE
  OBVIOUS
<1>1. Len(Nowhere) = 1 /\ Nowhere[1] = ".."
  BY DEF Nowhere
<1>2. Nowhere[1] \in STRING \ {".."}
  <2>1. Nowhere \in Seq(STRING \ {".."}) /\ 1 \in 1..Len(Nowhere)
    BY <1>1 DEF Paths
  <2> HIDE DEF Nowhere
  <2> QED
    BY <2>1, ElementOfSeq
<1> QED
  BY <1>1, <1>2

(* Where there are no links, a path leads where its letters say or it      *)
(* leads nowhere, whatever directories there are.                          *)
LEMMA WalkIsNormal ==
  ASSUME NEW t, t.dirs \subseteq Paths, NEW parts \in Seq(STRING)
  PROVE  Walk(t, parts) \in {Normalize(parts), Nowhere}
<1> DEFINE S == Seq(STRING) \cup {Nowhere}
           step == [x \in S \X STRING |-> StepTo(t, x[1], x[2])]
           Is(f) == f = [i \in 0..Len(parts) |->
                           IF i = 0 THEN <<>> ELSE StepTo(t, f[i - 1], parts[i])]
           way == CHOOSE f : Is(f)
<1>0. Nowhere \notin t.dirs
  BY NowhereIsNoPath
<1>1. step \in Ways(S, STRING)
  <2> SUFFICES ASSUME NEW p \in S, NEW name \in STRING PROVE StepTo(t, p, name) \in S
    BY DEF Ways
  <2>1. CASE p = Nowhere
    BY <1>0, <2>1 DEF StepTo
  <2>2. CASE p \in Seq(STRING)
    <3>1. Up(p) \in S /\ Append(p, name) \in S
      BY <2>2, UpTyped
    <3> QED
      BY <3>1 DEF StepTo
  <2> QED
    BY <2>1, <2>2
<1>2. <<>> \in S
  OBVIOUS
<1>3. PICK g \in [0..Len(parts) -> S] :
        g[0] = <<>> /\ \A i \in 1..Len(parts) : g[i] = step[<<g[i - 1], parts[i]>>]
  <2> HIDE DEF S, step
  <2>1. Leads(S, <<>>, step, parts)
    BY <1>1, <1>2, Goes
  <2> QED
    BY <2>1 DEF Leads
<1>4. \A i \in 1..Len(parts) : g[i] = StepTo(t, g[i - 1], parts[i])
  <2> SUFFICES ASSUME NEW i \in 1..Len(parts) PROVE g[i] = StepTo(t, g[i - 1], parts[i])
    OBVIOUS
  <2>1. g[i - 1] \in S /\ parts[i] \in STRING
    BY <1>3
  <2> QED
    BY <1>3, <2>1
<1>5. Is(g)
  BY <1>3, <1>4
<1>6. Is(way)
  <2> HIDE DEF Is
  <2> QED
    BY <1>5
<1>7. way[0] = <<>> /\ \A i \in 1..Len(parts) : way[i] = StepTo(t, way[i - 1], parts[i])
  <2> HIDE DEF way
  <2> QED
    BY <1>6
<1>8. Walk(t, parts) = way[Len(parts)]
  BY DEF Walk
<1>9. PICK at \in [0..Len(parts) -> Seq(STRING \ {".."})] :
        /\ at[0] = <<>>
        /\ \A i \in 1..Len(parts) : at[i] = PushOrPop(at[i - 1], parts[i])
        /\ Normalize(parts) = at[Len(parts)]
  BY NormalizeGoes
<1> HIDE DEF way, S, step
<1> DEFINE P == {i \in 0..Len(parts) : way[i] \in {at[i], Nowhere}}
<1>10. ASSUME NEW i \in 1..Len(parts), i - 1 \in P PROVE i \in P
  <2>1. CASE way[i - 1] \notin t.dirs
    BY <1>7, <2>1 DEF StepTo
  <2>2. CASE way[i - 1] \in t.dirs /\ way[i - 1] = at[i - 1]
    BY <1>7, <1>9, <2>2 DEF StepTo, PushOrPop
  <2> QED
    BY <1>0, <1>10, <2>1, <2>2
<1>11. 0..Len(parts) \subseteq P
  <2>1. P \in SUBSET Nat /\ 0 \in P /\ Len(parts) \in Nat
    BY <1>7, <1>9
  <2> HIDE DEF P
  <2> QED
    BY <1>10, <2>1, CountingUp
<1>12. Len(parts) \in P
  BY <1>11
<1> QED
  BY <1>8, <1>9, <1>12

(* What there is keeps its types when the directories of a path are made.  *)
Trees == [dirs : SUBSET Paths, files : SUBSET Paths]

LEMMA MadeTyped ==
  ASSUME NEW t \in Trees, NEW parts \in Seq(STRING)
  PROVE  CreateDirAll(t, parts) \in Trees
<1> DEFINE S == [at : Paths, dirs : SUBSET Paths]
           start == [at |-> <<>>, dirs |-> t.dirs]
           step == [x \in S \X STRING |-> MakeDir(t, x[1], x[2])]
           Is(f) == f = [i \in 0..Len(parts) |->
                           IF i = 0 THEN start ELSE MakeDir(t, f[i - 1], parts[i])]
           way == CHOOSE f : Is(f)
<1>1. step \in Ways(S, STRING)
  <2> SUFFICES ASSUME NEW s \in S, NEW name \in STRING PROVE MakeDir(t, s, name) \in S
    BY DEF Ways
  <2>1. Up(s.at) \in Paths
    BY UpTyped DEF Paths
  <2>2. name # ".." => Append(s.at, name) \in Paths
    BY DEF Paths
  <2> QED
    BY <2>1, <2>2 DEF MakeDir
<1>2. start \in S
  BY DEF Paths, Trees
<1>3. PICK g \in [0..Len(parts) -> S] :
        g[0] = start /\ \A i \in 1..Len(parts) : g[i] = step[<<g[i - 1], parts[i]>>]
  <2> HIDE DEF S, step, start
  <2>1. Leads(S, start, step, parts)
    BY <1>1, <1>2, Goes
  <2> QED
    BY <2>1 DEF Leads
<1> HIDE DEF start
<1>4. \A i \in 1..Len(parts) : g[i] = MakeDir(t, g[i - 1], parts[i])
  <2> SUFFICES ASSUME NEW i \in 1..Len(parts) PROVE g[i] = MakeDir(t, g[i - 1], parts[i])
    OBVIOUS
  <2>1. g[i - 1] \in S /\ parts[i] \in STRING
    BY <1>3
  <2> HIDE DEF S
  <2> QED
    BY <1>3, <2>1
<1>5. Is(g)
  BY <1>3, <1>4
<1>6. Is(way)
  <2> HIDE DEF Is
  <2> QED
    BY <1>5
<1>7. way[0] = start /\ \A i \in 1..Len(parts) : way[i] = MakeDir(t, way[i - 1], parts[i])
  <2> HIDE DEF way
  <2> QED
    BY <1>6
<1> HIDE DEF way, step
<1>8. \A i \in 0..Len(parts) : g[i] = way[i]
  <2> HIDE DEF S
  <2> DEFINE P == {i \in 0..Len(parts) : g[i] = way[i]}
  <2>1. P \in SUBSET Nat /\ 0 \in P /\ Len(parts) \in Nat
    BY <1>3, <1>7
  <2>2. ASSUME NEW i \in 1..Len(parts), i - 1 \in P PROVE i \in P
    BY <1>4, <1>7, <2>2
  <2>3. 0..Len(parts) \subseteq P
    <3> HIDE DEF P
    <3> QED
      BY <2>1, <2>2, CountingUp
  <2> QED
    BY <2>3
<1>9. way[Len(parts)] \in S
  <2> HIDE DEF S
  <2> QED
    BY <1>3, <1>8
<1>10. CreateDirAll(t, parts) = [t EXCEPT !.dirs = way[Len(parts)].dirs]
  BY DEF CreateDirAll, way, start
<1> QED
  BY <1>9, <1>10 DEF Trees

-----------------------------------------------------------------------------
(* The gate of the file tools.                                             *)

(* A call past the gate was let through for the path its letters spell,    *)
(* whichever of its three ways validate_path took to it.                   *)
GateInv ==
  /\ tree \in Trees
  /\ \A c \in calls : /\ c.call \in Asked
                      /\ c.path = Normalize(Target(c.call))
                      /\ Inside(c.path)
                      /\ ~IsForbidden(c.path)

LEMMA TargetTyped ==
  ASSUME NEW call \in Asked
  PROVE  Target(call) \in Seq(STRING)
<1>1. Root \in Paths /\ call.parts \in Seq(STRING)
  BY FileToolsAssumption
<1>2. Root \in Seq(STRING)
  BY <1>1 DEF Paths
<1>3. Root \o call.parts \in Seq(STRING)
  BY <1>1, <1>2, ConcatProperties
<1> QED
  BY <1>1, <1>3 DEF Target

LEMMA RootIsInside == ~Inside(<<>>)
<1>1. Root \in Seq(STRING) /\ Root # <<>>
  BY FileToolsAssumption DEF Paths
<1>2. Len(Root) > 0
  BY <1>1, EmptySeq
<1> QED
  BY <1>2 DEF Inside, IsPrefix

LEMMA NormalOfNothing == Normalize(<<>>) = <<>>
<1>1. PICK parts \in Seq(STRING) : parts = <<>>
  <2>1. <<>> \in Seq(STRING)
    BY EmptySeq
  <2> QED
    BY <2>1
<1>2. PICK at \in [0..Len(parts) -> Seq(STRING \ {".."})] :
        at[0] = <<>> /\ Normalize(parts) = at[Len(parts)]
  BY NormalizeGoes
<1> QED
  BY <1>1, <1>2

(* normalize_path makes up no name.                                        *)
LEMMA NothingForbiddenIsMade ==
  ASSUME NEW parts \in Seq(STRING), ~IsForbidden(parts)
  PROVE  Normalize(parts) \in Paths /\ ~IsForbidden(Normalize(parts))
<1> DEFINE T == STRING \ Forbidden
<1>1. parts \in Seq(T)
  BY DEF IsForbidden
<1>2. Normalize(parts) \in Seq(T \ {".."})
  <2>1. T \in SUBSET STRING
    OBVIOUS
  <2> HIDE DEF T
  <2> QED
    BY <1>1, <2>1, NormalizeGoes
<1>3. \A i \in DOMAIN Normalize(parts) : Normalize(parts)[i] \in STRING \ {".."}
                                         /\ Normalize(parts)[i] \notin Forbidden
  BY <1>2
<1> QED
  BY <1>2, <1>3 DEF IsForbidden, Paths

LEMMA AdmittedAsSpelled ==
  ASSUME GateInv, NEW call \in Asked, NEW l, NEW p \in ValidatePath(l, call)
  PROVE  p = Normalize(Target(call)) /\ Inside(p) /\ ~IsForbidden(p)
<1> DEFINE parts == Target(call)
<1>1. parts \in Seq(STRING) /\ p \in Resolved(parts) /\ Inside(p) /\ ~IsForbidden(parts)
  BY TargetTyped DEF ValidatePath
<1> HIDE DEF parts
<1>2. tree.dirs \subseteq Paths
  BY DEF GateInv, Trees
<1>3. Walk(tree, parts) \in {Normalize(parts), Nowhere}
  BY <1>1, <1>2, WalkIsNormal
<1>4. CASE Exists(parts)
  <2>1. p = Walk(tree, parts)
    BY <1>1, <1>4 DEF Resolved
  <2>2. p = Normalize(parts)
    BY <1>3, <1>4, <2>1 DEF Exists
  <2> QED
    BY <1>1, <2>2, NothingForbiddenIsMade DEF parts
<1>5. CASE ~Exists(parts) /\ ~Exists(Up(parts))
  <2>1. p = Normalize(parts)
    BY <1>1, <1>5 DEF Resolved
  <2> QED
    BY <1>1, <2>1, NothingForbiddenIsMade DEF parts
<1>6. CASE ~Exists(parts) /\ Exists(Up(parts))
  <2>1. Last(parts) # ".." /\ p = Append(Walk(tree, Up(parts)), Last(parts))
    BY <1>1, <1>6 DEF Resolved
  <2>2. Up(parts) \in Seq(STRING)
    BY <1>1, UpTyped
  <2>3. Walk(tree, Up(parts)) = Normalize(Up(parts))
    BY <1>2, <1>6, <2>2, WalkIsNormal DEF Exists
  <2>4. parts # <<>>
    BY <1>6 DEF Up
  <2>5. p = Normalize(parts)
    BY <1>1, <2>1, <2>3, <2>4, NormalizeLast DEF PushOrPop
  <2> QED
    BY <1>1, <2>5, NothingForbiddenIsMade DEF parts
<1> QED
  BY <1>4, <1>5, <1>6

(* What a call past the gate touches, whatever came and went since.        *)
LEMMA TouchesAsSpelled ==
  ASSUME GateInv, NEW c \in calls
  PROVE  Touched(c.call) \in {c.path, Nowhere}
<1> DEFINE parts == Target(c.call)
<1>1. parts \in Seq(STRING) /\ c.path = Normalize(parts) /\ Inside(c.path)
  BY TargetTyped DEF GateInv
<1>2. parts # <<>>
  BY <1>1, NormalOfNothing, RootIsInside
<1>3. tree \in Trees /\ tree.dirs \subseteq Paths
  BY DEF GateInv, Trees
<1> HIDE DEF parts
<1>4. CASE ~IsWrite(c.call)
  BY <1>1, <1>3, <1>4, WalkIsNormal DEF Touched, parts
<1>5. CASE IsWrite(c.call)
  <2> DEFINE made == CreateDirAll(tree, Up(parts))
             folder == Walk(made, Up(parts))
             file == Append(folder, Last(parts))
  <2>1. Up(parts) \in Seq(STRING)
    BY <1>1, UpTyped
  <2>2. made \in Trees /\ made.dirs \subseteq Paths
    BY <1>3, <2>1, MadeTyped DEF Trees
  <2>3. folder \in {Normalize(Up(parts)), Nowhere}
    BY <2>1, <2>2, WalkIsNormal
  <2>4. ASSUME folder \in made.dirs, Last(parts) # ".." PROVE file = c.path
    <3>1. folder = Normalize(Up(parts))
      BY <2>2, <2>3, <2>4, NowhereIsNoPath
    <3> QED
      BY <1>1, <1>2, <2>4, <3>1, NormalizeLast DEF PushOrPop
  <2>5. Touched(c.call) = IF folder \in made.dirs /\ Last(parts) # ".." /\ file \notin made.dirs
                          THEN file ELSE Nowhere
    BY <1>5 DEF Touched, parts
  <2> QED
    BY <2>4, <2>5
<1> QED
  BY <1>4, <1>5

LEMMA GateHolds == Spec => []GateInv
<1>1. Init => GateInv
  BY FileToolsAssumption DEF Init, FilesInit, GateInv, Trees
<1>2. GateInv /\ [Next]_vars => GateInv'
  <2> SUFFICES ASSUME GateInv, [Next]_vars PROVE GateInv'
    OBVIOUS
  <2>1. ASSUME NEW call \in Asked, TaskCalls(call) PROVE GateInv'
    <3>1. PICK p \in ValidatePath(lease, call) :
            calls' = calls \cup {[call |-> call, path |-> p]} /\ UNCHANGED tree
      BY <2>1 DEF TaskCalls, Admit
    <3>2. p = Normalize(Target(call)) /\ Inside(p) /\ ~IsForbidden(p)
      BY AdmittedAsSpelled
    <3> QED
      BY <3>1, <3>2 DEF GateInv
  <2>2. ASSUME NEW c \in calls, FileWrite(c) PROVE GateInv'
    <3> DEFINE made == CreateDirAll(tree, Up(Target(c.call)))
    <3>1. tree' = [made EXCEPT !.files = @ \cup ({Touched(c.call)} \ {Nowhere})]
          /\ calls' \subseteq calls
      BY <2>2 DEF FileWrite
    <3>2. tree \in Trees /\ Up(Target(c.call)) \in Seq(STRING) /\ Target(c.call) \in Seq(STRING)
      BY TargetTyped, UpTyped DEF GateInv
    <3>3. made \in Trees
      BY <3>2, MadeTyped
    <3>4. c.path \in Paths /\ Touched(c.call) \in {c.path, Nowhere}
      <4>1. c.path = Normalize(Target(c.call))
        BY DEF GateInv
      <4>2. Normalize(Target(c.call)) \in Paths
        BY <3>2, NormalizeTyped
      <4> QED
        BY <4>1, <4>2, TouchesAsSpelled
    <3> HIDE DEF made
    <3>5. tree' \in Trees
      BY <3>1, <3>3, <3>4 DEF Trees
    <3> QED
      BY <3>1, <3>5 DEF GateInv
  <2>3. ASSUME NEW c \in calls, FileRead(c) PROVE GateInv'
    BY <2>3 DEF FileRead, GateInv
  <2>4. ASSUME NEW p \in UserFiles, UserCreates(p) PROVE GateInv'
    BY <2>4, FileToolsAssumption DEF UserCreates, GateInv, Trees
  <2>5. ASSUME NEW p \in UserFiles, UserDeletes(p) PROVE GateInv'
    BY <2>5 DEF UserDeletes, GateInv, Trees
  <2>6. CASE UNCHANGED fileVars
    BY <2>6 DEF fileVars, GateInv
  <2>7. \/ \E call \in Asked : TaskCalls(call)
        \/ FilesNext
        \/ UNCHANGED fileVars
    BY DEF vars, Next, Spawn, SpawnStep, TaskStep, Announce, Start, TimesOut, Conclude, End, Report,
           TaskLogs, TaskReturns, Crash, Restart
  <2> QED
    BY <2>1, <2>2, <2>3, <2>4, <2>5, <2>6, <2>7 DEF FilesNext
<1> QED
  BY <1>1, <1>2, PTL DEF Spec

(* What the file tools are about to read or write is what the gate let the *)
(* call through for, in the workspace and no forbidden file, for any       *)
(* paths, however long, any number of calls past the gate, and whatever    *)
(* directories calls and the user make and remove in between               *)
(* (validate_path, normalize_path, file_write).                            *)
THEOREM TouchesWhatWasApproved == Spec => []AsApproved
<1>1. GateInv => AsApproved
  BY TouchesAsSpelled DEF GateInv, AsApproved
<1> QED
  BY <1>1, GateHolds, PTL

=============================================================================
