------------------------- MODULE ProcessTreeProofs -------------------------
(***************************************************************************)
(* Proofs about ProcessTree, for any number of plugins and processes.      *)
(*                                                                         *)
(* GroupIsGone rests on Rooted: as long as a pid is not given out twice,   *)
(* the process a handle names is its plugin's and leads its group, so what *)
(* the last walk of a handle signals is the whole group (Swept), and the   *)
(* group cannot come back: those that could fork in it are dying.          *)
(*                                                                         *)
(* KillsOnlyItsOwn rests on kinship: a child has the owner of its parent   *)
(* (Kin), the members of a group have one owner (GroupOwned), and a listed *)
(* pid does not become another plugin's (ListOwned).                       *)
(***************************************************************************)
EXTENDS ProcessTree, TLAPS

(* What a handle names.                                                    *)
Rooted ==
  \A h \in Handles :
    pid[h] # None =>
      /\ state[pid[h]] # "free"
      /\ state[pid[h]] \notin Gone => owner[pid[h]] = h /\ group[pid[h]] = pid[h]

(* The last kill of its group is behind h.                                 *)
Swept(h) ==
  \/ stage[h] = "gone"
  \/ stage[h] \in {"discarding", "guarding"} /\ kill[h] \in {"each", "reap", "child"}

GroupSwept ==
  \A h \in Handles, p \in Pids :
    Swept(h) /\ owner[p] = h /\ group[p] = pid[h] => state[p] # "running"

TreeInv == TypeOK /\ Rooted /\ GroupSwept

-----------------------------------------------------------------------------
LEMMA TreeInit == Init => TreeInv
BY ProcessAssumption DEF Init, TreeInv, TypeOK, Rooted, GroupSwept, Swept, Gone, Killing

(* Handles as they were, and processes that only die, detach or disappear. *)
LEMMA Declining ==
  ASSUME TreeInv, ~Reuse, TypeOK', UNCHANGED <<stage, kill, pid>>,
         \A p \in Pids : state'[p] = "running" => state[p] = "running",
         \A p \in Pids : state'[p] = "free" => state[p] = "free",
         \A p \in Pids : state'[p] \notin Gone => state[p] \notin Gone /\ owner'[p] = owner[p],
         \A p \in Pids : state'[p] \notin Gone =>
            group'[p] = group[p]
              \/ (group'[p] = p /\ state[p] = "running" /\ group[p] # p)
  PROVE  TreeInv'
<1>1. Rooted'
  BY DEF TreeInv, TypeOK, Rooted
<1>2. GroupSwept'
  <2> SUFFICES ASSUME NEW h \in Handles, NEW p \in Pids, Swept(h)', owner'[p] = h,
                      group'[p] = pid'[h], state'[p] = "running"
               PROVE  FALSE
    BY DEF GroupSwept
  <2>1. Swept(h) /\ owner[p] = h /\ state[p] = "running" /\ pid'[h] = pid[h] /\ pid[h] # None
    BY DEF Swept, Gone, TreeInv, TypeOK, Killing
  <2>2. ~(group[p] = pid[h])
    BY <2>1 DEF TreeInv, GroupSwept
  <2>3. p = pid[h] => group[p] = p
    BY <2>1 DEF TreeInv, Rooted, Gone
  <2>4. group'[p] = pid[h]
    BY <2>1
  <2> QED
    BY <2>2, <2>3, <2>4 DEF Gone
<1> QED
  BY <1>1, <1>2 DEF TreeInv

(* Clear, as a step of the processes.                                      *)
LEMMA ClearDeclines ==
  ASSUME TreeInv, ~Reuse, NEW S \in SUBSET Pids, Clear(S)
  PROVE  /\ \A p \in Pids : state'[p] = "running" => state[p] = "running"
         /\ \A p \in Pids : state'[p] = "free" => state[p] = "free"
         /\ \A p \in Pids : state'[p] \notin Gone =>
              state[p] \notin Gone /\ owner'[p] = owner[p] /\ group'[p] = group[p]
         /\ state' \in [Pids -> {"running", "dying", "zombie"} \cup Gone]
         /\ owner' \in [Pids -> Handles \cup {Outside, None}]
         /\ parent' \in [Pids -> Pids \cup {Kernel, Outside, None}]
         /\ group' \in [Pids -> Pids \cup {Kernel, None}]
         /\ \A p \in Pids : state'[p] \in Gone <=> owner'[p] = None
<1> USE DEF Clear, TreeInv, TypeOK, Gone
<1>1. /\ \A p \in Pids : state'[p] = "running" => state[p] = "running"
      /\ \A p \in Pids : state'[p] = "free" => state[p] = "free"
      /\ \A p \in Pids : state'[p] \notin Gone =>
           state[p] \notin Gone /\ owner'[p] = owner[p] /\ group'[p] = group[p]
  OBVIOUS
<1>2. /\ state' \in [Pids -> {"running", "dying", "zombie"} \cup Gone]
      /\ owner' \in [Pids -> Handles \cup {Outside, None}]
  OBVIOUS
<1>3. /\ parent' \in [Pids -> Pids \cup {Kernel, Outside, None}]
      /\ group' \in [Pids -> Pids \cup {Kernel, None}]
  OBVIOUS
<1>4. \A p \in Pids : state'[p] \in Gone <=> owner'[p] = None
  OBVIOUS
<1> QED
  BY <1>1, <1>2, <1>3, <1>4

(* Signal, likewise.                                                       *)
LEMMA SignalDeclines ==
  ASSUME TreeInv, NEW S, Signal(S)
  PROVE  /\ \A p \in Pids : state'[p] = "running" => state[p] = "running" /\ p \notin S
         /\ \A p \in Pids : state'[p] \in Gone <=> state[p] \in Gone
         /\ \A p \in Pids : state'[p] = "free" <=> state[p] = "free"
         /\ state' \in [Pids -> {"running", "dying", "zombie"} \cup Gone]
         /\ UNCHANGED <<owner, parent, group>>
BY DEF Signal, TreeInv, TypeOK, Gone

(* One handle moves on, and comes to be swept only if its group is.        *)
LEMMA Moving ==
  ASSUME TreeInv, NEW h \in Handles, TypeOK', pid' = pid,
         \A g \in Handles \ {h} : stage'[g] = stage[g] /\ kill'[g] = kill[g],
         \A p \in Pids : state'[p] = "running" => state[p] = "running",
         \A p \in Pids : state'[p] = "free" => state[p] = "free",
         \A p \in Pids : state'[p] \notin Gone =>
           state[p] \notin Gone /\ owner'[p] = owner[p] /\ group'[p] = group[p],
         \/ Swept(h)' => Swept(h)
         \/ \A p \in Pids : group[p] = pid[h] => state'[p] # "running"
  PROVE  TreeInv'
<1>1. Rooted'
  BY DEF TreeInv, TypeOK, Rooted
<1>2. GroupSwept'
  <2> SUFFICES ASSUME NEW g \in Handles, NEW p \in Pids, Swept(g)', owner'[p] = g,
                      group'[p] = pid[g], state'[p] = "running"
               PROVE  FALSE
    BY DEF GroupSwept
  <2>1. owner[p] = g /\ group[p] = pid[g] /\ state[p] = "running"
    BY DEF Gone
  <2>2. ~Swept(g)
    BY <2>1 DEF TreeInv, GroupSwept
  <2>3. CASE g # h
    BY <2>2, <2>3 DEF Swept
  <2>4. CASE g = h
    BY <2>1, <2>2, <2>4
  <2> QED
    BY <2>3, <2>4
<1> QED
  BY <1>1, <1>2 DEF TreeInv

-----------------------------------------------------------------------------
(* The steps of the processes.                                             *)

LEMMA ForkKeeps ==
  ASSUME TreeInv, NEW q \in Pids, NEW p \in Pids, Fork(q, p)
  PROVE  TreeInv'
<1>1. /\ state[q] = "running" /\ owner[q] \in Handles
      /\ state[p] = "free" /\ q # p /\ UNCHANGED handleVars
      /\ state' = [state EXCEPT ![p] = "running"] /\ owner' = [owner EXCEPT ![p] = owner[q]]
      /\ parent' = [parent EXCEPT ![p] = q] /\ group' = [group EXCEPT ![p] = group[q]]
  BY DEF Fork, Start, Free
<1>2. TypeOK'
  BY <1>1, ProcessAssumption DEF TreeInv, TypeOK, Gone, handleVars
<1>3. Rooted'
  BY <1>1 DEF TreeInv, TypeOK, Rooted, handleVars
<1>4. GroupSwept'
  <2> SUFFICES ASSUME NEW h \in Handles, NEW r \in Pids, Swept(h), owner'[r] = h,
                      group'[r] = pid[h]
               PROVE  state'[r] # "running"
    BY <1>1 DEF GroupSwept, Swept, handleVars
  <2>1. CASE r = p
    BY <1>1, <2>1 DEF TreeInv, TypeOK, GroupSwept
  <2>2. CASE r # p
    BY <1>1, <2>2 DEF TreeInv, TypeOK, GroupSwept
  <2> QED
    BY <2>1, <2>2
<1> QED
  BY <1>2, <1>3, <1>4 DEF TreeInv

LEMMA StrangerKeeps ==
  ASSUME TreeInv, NEW p \in Pids, StrangerStarts(p)
  PROVE  TreeInv'
<1>1. /\ state[p] = "free" /\ UNCHANGED handleVars
      /\ state' = [state EXCEPT ![p] = "running"] /\ owner' = [owner EXCEPT ![p] = Outside]
      /\ parent' = [parent EXCEPT ![p] = Outside] /\ group' = [group EXCEPT ![p] = p]
  BY DEF StrangerStarts, Start, Free
<1>2. TypeOK'
  BY <1>1, ProcessAssumption DEF TreeInv, TypeOK, Gone, handleVars
<1>3. Rooted'
  BY <1>1 DEF TreeInv, TypeOK, Rooted, handleVars
<1>4. GroupSwept'
  BY <1>1, ProcessAssumption DEF TreeInv, TypeOK, GroupSwept, Swept, handleVars
<1> QED
  BY <1>2, <1>3, <1>4 DEF TreeInv

LEMMA DetachKeeps ==
  ASSUME TreeInv, ~Reuse, NEW q \in Pids, Detach(q)
  PROVE  TreeInv'
<1>1. TypeOK'
  BY DEF Detach, TreeInv, TypeOK, handleVars
<1>2. \A p \in Pids : group'[p] = group[p]
        \/ (group'[p] = p /\ state[p] = "running" /\ group[p] # p)
  BY DEF Detach, TreeInv, TypeOK
<1> QED
  BY <1>1, <1>2, Declining DEF Detach, handleVars

LEMMA EndsKeep ==
  ASSUME TreeInv, ~Reuse, NEW q \in Pids, Dies(q) \/ ParentWaits(q)
  PROVE  TreeInv'
<1>1. CASE Clear({q}) /\ UNCHANGED handleVars
  <2>1. TypeOK'
    BY <1>1, ClearDeclines DEF TreeInv, TypeOK, handleVars
  <2> QED
    BY <1>1, <2>1, ClearDeclines, Declining DEF handleVars
<1>2. CASE /\ state[q] \in {"running", "dying"} /\ state' = [state EXCEPT ![q] = "zombie"]
           /\ parent' = [p \in Pids |-> IF parent[p] = q THEN Kernel ELSE parent[p]]
           /\ UNCHANGED <<owner, group, handleVars>>
  <2>1. TypeOK'
    <3>1. /\ state' \in [Pids -> {"running", "dying", "zombie"} \cup Gone]
          /\ parent' \in [Pids -> Pids \cup {Kernel, Outside, None}]
          /\ \A p \in Pids : state'[p] \in Gone <=> state[p] \in Gone
      BY <1>2 DEF TreeInv, TypeOK, Gone
    <3> QED
      BY <1>2, <3>1 DEF TreeInv, TypeOK, handleVars
  <2> QED
    BY <1>2, <2>1, Declining DEF TreeInv, TypeOK, Gone, handleVars
<1> QED
  BY <1>1, <1>2 DEF Dies, ParentWaits, handleVars

-----------------------------------------------------------------------------
(* The steps of a handle.                                                  *)

LEMMA LaunchKeeps ==
  ASSUME TreeInv, NEW h \in Handles, Launch(h)
  PROVE  TreeInv'
<1>1. PICK p \in Pids : Start(p, h, Kernel, p) /\ pid' = [pid EXCEPT ![h] = p]
  BY DEF Launch
<1>2. /\ stage[h] = "new" /\ stage' = [stage EXCEPT ![h] = "launching"]
      /\ UNCHANGED <<kill, list, waited>> /\ state[p] = "free"
      /\ state' = [state EXCEPT ![p] = "running"] /\ owner' = [owner EXCEPT ![p] = h]
      /\ parent' = [parent EXCEPT ![p] = Kernel] /\ group' = [group EXCEPT ![p] = p]
  BY <1>1 DEF Launch, Start, Free
<1>3. TypeOK'
  <2>1. /\ state' \in [Pids -> {"running", "dying", "zombie"} \cup Gone]
        /\ owner' \in [Pids -> Handles \cup {Outside, None}]
        /\ parent' \in [Pids -> Pids \cup {Kernel, Outside, None}]
        /\ group' \in [Pids -> Pids \cup {Kernel, None}]
        /\ \A r \in Pids : state'[r] \in Gone <=> owner'[r] = None
    BY <1>2, ProcessAssumption DEF TreeInv, TypeOK, Gone
  <2>2. /\ stage' \in [Handles -> {"new", "launching", "up", "asking", "waiting", "closed", "gone"}
                                  \cup Killing]
        /\ \A g \in Handles : /\ kill'[g] # "no" <=> stage'[g] \in Killing
                              /\ kill'[g] = "child" => stage'[g] # "guarding"
                              /\ pid'[g] = None <=> stage'[g] = "new"
        /\ pid' \in [Handles -> Pids \cup {None}]
    <3>1. \A g \in Handles : /\ kill'[g] # "no" <=> stage'[g] \in Killing
                             /\ kill'[g] = "child" => stage'[g] # "guarding"
                             /\ pid'[g] = None <=> stage'[g] = "new"
      BY <1>1, <1>2, ProcessAssumption DEF TreeInv, TypeOK, Killing
    <3> QED
      BY <3>1, <1>1, <1>2 DEF TreeInv, TypeOK
  <2>3. /\ kill' \in [Handles -> {"no", "list", "group", "each", "reap", "child"}]
        /\ list' \in [Handles -> SUBSET Pids]
        /\ waited' \in [Handles -> BOOLEAN]
    BY <1>2 DEF TreeInv, TypeOK
  <2> QED
    BY <2>1, <2>2, <2>3 DEF TypeOK
<1>4. Rooted'
  <2> SUFFICES ASSUME NEW g \in Handles, pid'[g] # None
               PROVE  /\ state'[pid'[g]] # "free"
                      /\ state'[pid'[g]] \notin Gone =>
                           owner'[pid'[g]] = g /\ group'[pid'[g]] = pid'[g]
    BY DEF Rooted
  <2>1. CASE g = h
    BY <1>1, <1>2, <2>1 DEF TreeInv, TypeOK
  <2>2. CASE g # h
    BY <1>1, <1>2, <2>2 DEF TreeInv, TypeOK, Rooted
  <2> QED
    BY <2>1, <2>2
<1>5. GroupSwept'
  <2> SUFFICES ASSUME NEW g \in Handles, NEW r \in Pids, Swept(g)', owner'[r] = g,
                      group'[r] = pid'[g]
               PROVE  state'[r] # "running"
    BY DEF GroupSwept
  <2>1. g # h
    BY <1>2 DEF Swept, TreeInv, TypeOK
  <2>2. r # p
    BY <1>2, <2>1 DEF TreeInv, TypeOK
  <2>3. /\ Swept(g) /\ owner[r] = g /\ group[r] = pid[g] /\ state'[r] = state[r]
    BY <1>1, <1>2, <2>1, <2>2 DEF Swept, TreeInv, TypeOK
  <2> QED
    BY <2>3 DEF TreeInv, GroupSwept
<1> QED
  BY <1>3, <1>4, <1>5 DEF TreeInv

(* Moves that leave the processes alone and are not under a walk.          *)
LEMMA StageKeeps ==
  ASSUME TreeInv, NEW h \in Handles,
         \/ Mount(h) \/ Shutdown(h) \/ LaunchFails(h) \/ GraceEnds(h) \/ DropSupervisor(h)
  PROVE  TreeInv'
<1>1. /\ pid' = pid /\ UNCHANGED <<procVars, list, waited>>
      /\ \A g \in Handles \ {h} : stage'[g] = stage[g] /\ kill'[g] = kill[g]
      /\ ~Swept(h)'
  BY DEF Mount, Shutdown, LaunchFails, GraceEnds, DropSupervisor, Begin, TreeInv, TypeOK, Swept,
         Killing
<1>2. TypeOK'
  BY <1>1 DEF Mount, Shutdown, LaunchFails, GraceEnds, DropSupervisor, Begin, TreeInv, TypeOK,
         Killing, procVars
<1> QED
  BY <1>1, <1>2, Moving DEF procVars, Gone

LEMMA WaitKeeps ==
  ASSUME TreeInv, ~Reuse, NEW h \in Handles, WaitReturns(h)
  PROVE  TreeInv'
<1>1. /\ pid' = pid /\ UNCHANGED <<kill, list>> /\ waited' \in [Handles -> BOOLEAN]
      /\ stage' = [stage EXCEPT ![h] = "closed"] /\ stage[h] \in {"asking", "waiting"}
      /\ kill[h] = "no"
  BY DEF WaitReturns, TreeInv, TypeOK, Killing
<1>2. /\ \A g \in Handles \ {h} : stage'[g] = stage[g] /\ kill'[g] = kill[g]
      /\ ~Swept(h)'
  BY <1>1 DEF TreeInv, TypeOK, Swept
<1>3. CASE pid[h] \in Waitable /\ Clear({pid[h]})
  <2>1. {pid[h]} \in SUBSET Pids
    BY <1>3 DEF Waitable
  <2>2. TypeOK'
    BY <1>1, <1>3, <2>1, ClearDeclines DEF TreeInv, TypeOK, Killing
  <2> QED
    BY <1>1, <1>2, <1>3, <2>1, <2>2, ClearDeclines, Moving
<1>4. CASE UNCHANGED procVars
  <2>1. TypeOK'
    BY <1>1, <1>4 DEF TreeInv, TypeOK, Killing, procVars
  <2> QED
    BY <1>1, <1>2, <1>4, <2>1, Moving DEF procVars, Gone
<1> QED
  BY <1>3, <1>4 DEF WaitReturns

LEMMA TokioKeeps ==
  ASSUME TreeInv, ~Reuse, NEW h \in Handles, TokioReaps(h)
  PROVE  TreeInv'
<1>1. {pid[h]} \in SUBSET Pids /\ Clear({pid[h]})
  BY DEF TokioReaps, Waitable
<1>2. TypeOK'
  BY <1>1, ClearDeclines DEF TokioReaps, TreeInv, TypeOK
<1> QED
  BY <1>1, <1>2, ClearDeclines, Declining DEF TokioReaps

-----------------------------------------------------------------------------
(* The walk of kill_process_tree.                                          *)

LEMMA DescendantsArePids == \A r : Descendants(r) \in SUBSET Pids
BY DEF Descendants

LEMMA ListKeeps ==
  ASSUME TreeInv, NEW h \in Handles, List(h)
  PROVE  TreeInv'
<1>1. /\ kill[h] = "list" /\ kill' = [kill EXCEPT ![h] = "group"]
      /\ list' \in [Handles -> SUBSET Pids] /\ UNCHANGED <<procVars, stage, pid, waited>>
  BY DescendantsArePids DEF List, TreeInv, TypeOK
<1>2. TypeOK'
  BY <1>1 DEF TreeInv, TypeOK, procVars
<1>3. Swept(h)' => Swept(h)
  BY <1>1 DEF Swept, TreeInv, TypeOK
<1>4. \A g \in Handles \ {h} : stage'[g] = stage[g] /\ kill'[g] = kill[g]
  BY <1>1 DEF TreeInv, TypeOK
<1> QED
  BY <1>1, <1>2, <1>3, <1>4, Moving DEF procVars, Gone

(* Signals and the moves of kill and stage that follow them.               *)
LEMMA SignalKeeps ==
  ASSUME TreeInv, NEW h \in Handles, NEW S, Signal(S), UNCHANGED <<pid, waited>>,
         NEW k \in {"no", "list", "each", "reap"}, kill' = [kill EXCEPT ![h] = k],
         NEW s \in {"gone", "waiting", "forcing", "dropping", "discarding", "guarding"},
         stage' = [stage EXCEPT ![h] = s],
         k # "no" <=> s \in Killing, stage[h] # "new", list' \in [Handles -> SUBSET Pids],
         \/ Swept(h)' => Swept(h)
         \/ \A p \in Pids : group[p] = pid[h] => p \in S
  PROVE  TreeInv'
<1>1. TypeOK'
  <2>1. /\ \A g \in Handles : /\ kill'[g] # "no" <=> stage'[g] \in Killing
                              /\ kill'[g] = "child" => stage'[g] # "guarding"
                              /\ pid'[g] = None <=> stage'[g] = "new"
        /\ kill' \in [Handles -> {"no", "list", "group", "each", "reap", "child"}]
        /\ stage' \in [Handles -> {"new", "launching", "up", "asking", "waiting", "closed",
                                   "gone"} \cup Killing]
    BY DEF TreeInv, TypeOK, Killing
  <2> QED
    BY <2>1, SignalDeclines DEF TreeInv, TypeOK
<1>2. \A g \in Handles \ {h} : stage'[g] = stage[g] /\ kill'[g] = kill[g]
  BY DEF TreeInv, TypeOK
<1>3. \A p \in Pids : /\ state'[p] = "running" => state[p] = "running" /\ p \notin S
                      /\ state'[p] = "free" => state[p] = "free"
                      /\ state'[p] \notin Gone =>
                          state[p] \notin Gone /\ owner'[p] = owner[p] /\ group'[p] = group[p]
  BY SignalDeclines
<1>4. CASE Swept(h)' => Swept(h)
  BY <1>1, <1>2, <1>3, <1>4, Moving
<1>5. CASE \A p \in Pids : group[p] = pid[h] => p \in S
  <2>1. \A p \in Pids : group[p] = pid[h] => state'[p] # "running"
    BY <1>3, <1>5
  <2> QED
    BY <1>1, <1>2, <1>3, <2>1, Moving
<1> QED
  BY <1>4, <1>5

LEMMA KillGroupKeeps ==
  ASSUME TreeInv, NEW h \in Handles, KillGroup(h)
  PROVE  TreeInv'
<1> DEFINE S == {p \in Pids : group[p] = pid[h]}
<1>1. /\ Signal(S) /\ UNCHANGED <<pid, waited, list, stage>> /\ kill[h] = "group"
      /\ kill' = [kill EXCEPT ![h] = "each"]
  BY DEF KillGroup
<1>2. /\ stage[h] \in Killing /\ stage' = [stage EXCEPT ![h] = stage[h]]
      /\ list' \in [Handles -> SUBSET Pids]
  BY <1>1 DEF TreeInv, TypeOK
<1>3. \A p \in Pids : group[p] = pid[h] => p \in S
  OBVIOUS
<1> HIDE DEF S
<1> QED
  BY <1>1, <1>2, <1>3, SignalKeeps DEF Killing

LEMMA KillEachKeeps ==
  ASSUME TreeInv, NEW h \in Handles, KillEach(h)
  PROVE  TreeInv'
<1>1. /\ Signal(list[h]) /\ UNCHANGED <<pid, waited, stage>> /\ kill[h] = "each"
      /\ kill' = [kill EXCEPT ![h] = "reap"] /\ list' = [list EXCEPT ![h] = {}]
  BY DEF KillEach
<1>2. /\ stage[h] \in Killing /\ stage' = [stage EXCEPT ![h] = stage[h]]
      /\ list' \in [Handles -> SUBSET Pids]
  BY <1>1 DEF TreeInv, TypeOK
<1>3. Swept(h)' => Swept(h)
  BY <1>1, <1>2 DEF Swept, Killing
<1> QED
  BY <1>1, <1>2, <1>3, SignalKeeps DEF Killing

LEMMA StartKillKeeps ==
  ASSUME TreeInv, NEW h \in Handles, StartKill(h)
  PROVE  TreeInv'
<1> DEFINE S == IF waited[h] THEN {} ELSE {pid[h]}
           s == CASE stage[h] = "discarding" -> "gone"
                  [] stage[h] = "forcing"    -> "waiting"
                  [] stage[h] = "dropping"   -> "guarding"
           k == IF stage[h] = "dropping" THEN "list" ELSE "no"
<1>1. /\ Signal(S) /\ UNCHANGED <<pid, waited, list>> /\ kill[h] = "child"
      /\ kill' = [kill EXCEPT ![h] = k] /\ stage' = [stage EXCEPT ![h] = s]
  BY DEF StartKill, TreeInv, TypeOK
<1>2. stage[h] \in {"discarding", "forcing", "dropping"} /\ list' \in [Handles -> SUBSET Pids]
  BY <1>1 DEF TreeInv, TypeOK, Killing
<1>3. \/ stage[h] = "discarding" /\ s = "gone" /\ k = "no"
      \/ stage[h] = "forcing" /\ s = "waiting" /\ k = "no"
      \/ stage[h] = "dropping" /\ s = "guarding" /\ k = "list"
  BY <1>2
<1> HIDE DEF S, s, k
<1>4. Swept(h)' => Swept(h)
  <2>1. stage'[h] = s /\ kill'[h] = k
    BY <1>1 DEF TreeInv, TypeOK
  <2> QED
    BY <1>1, <1>3, <2>1 DEF Swept
<1>5. /\ s \in {"gone", "waiting", "guarding"} /\ k \in {"no", "list"}
      /\ (k # "no" <=> s \in Killing)
      /\ stage[h] # "new"
  BY <1>2, <1>3 DEF Killing
<1> QED
  BY <1>1, <1>2, <1>4, <1>5, SignalKeeps

LEMMA ReapKeeps ==
  ASSUME TreeInv, ~Reuse, NEW h \in Handles, Reap(h)
  PROVE  TreeInv'
<1>1. /\ Waitable \in SUBSET Pids /\ Clear(Waitable) /\ UNCHANGED <<pid, list, waited>>
      /\ kill[h] = "reap" /\ stage[h] \in Killing
  BY DEF Reap, Waitable, TreeInv, TypeOK
<1>2. \/ /\ stage[h] = "guarding" /\ stage' = [stage EXCEPT ![h] = "gone"]
         /\ kill' = [kill EXCEPT ![h] = "no"]
      \/ stage[h] # "guarding" /\ stage' = stage /\ kill' = [kill EXCEPT ![h] = "child"]
  BY DEF Reap
<1>3. /\ stage' \in [Handles -> {"new", "launching", "up", "asking", "waiting", "closed",
                                 "gone"} \cup Killing]
      /\ kill' \in [Handles -> {"no", "list", "group", "each", "reap", "child"}]
      /\ \A g \in Handles : /\ kill'[g] # "no" <=> stage'[g] \in Killing
                            /\ kill'[g] = "child" => stage'[g] # "guarding"
                            /\ pid'[g] = None <=> stage'[g] = "new"
      /\ \A g \in Handles \ {h} : stage'[g] = stage[g] /\ kill'[g] = kill[g]
  BY <1>1, <1>2 DEF TreeInv, TypeOK, Killing
<1>4. TypeOK'
  <2>1. /\ pid' \in [Handles -> Pids \cup {None}] /\ list' \in [Handles -> SUBSET Pids]
        /\ waited' \in [Handles -> BOOLEAN]
    BY <1>1 DEF TreeInv, TypeOK
  <2>2. /\ state' \in [Pids -> {"running", "dying", "zombie"} \cup Gone]
        /\ owner' \in [Pids -> Handles \cup {Outside, None}]
        /\ parent' \in [Pids -> Pids \cup {Kernel, Outside, None}]
        /\ group' \in [Pids -> Pids \cup {Kernel, None}]
        /\ \A p \in Pids : state'[p] \in Gone <=> owner'[p] = None
    BY <1>1, ClearDeclines
  <2> QED
    BY <1>3, <2>1, <2>2 DEF TypeOK
<1>5. Swept(h)' => Swept(h)
  BY <1>1, <1>2 DEF Swept, TreeInv, TypeOK
<1> QED
  BY <1>1, <1>3, <1>4, <1>5, ClearDeclines, Moving

-----------------------------------------------------------------------------
LEMMA TreeStep == ~Reuse /\ TreeInv /\ [Next]_vars => TreeInv'
<1> SUFFICES ASSUME ~Reuse, TreeInv, [Next]_vars PROVE TreeInv'
  OBVIOUS
<1>1. CASE UNCHANGED vars
  BY <1>1 DEF vars, procVars, handleVars, TreeInv, TypeOK, Rooted, GroupSwept, Swept
<1>2. ASSUME NEW p \in Pids,
             Detach(p) \/ Dies(p) \/ ParentWaits(p) \/ StrangerStarts(p)
      PROVE  TreeInv'
  BY <1>2, DetachKeeps, EndsKeep, StrangerKeeps
<1>3. ASSUME NEW p \in Pids, NEW q \in Pids, Fork(q, p) PROVE TreeInv'
  BY <1>3, ForkKeeps
<1>4. ASSUME NEW h \in Handles,
             \/ Launch(h) \/ Mount(h) \/ LaunchFails(h) \/ Shutdown(h) \/ GraceEnds(h)
             \/ WaitReturns(h) \/ DropSupervisor(h) \/ TokioReaps(h)
      PROVE  TreeInv'
  BY <1>4, LaunchKeeps, StageKeeps, WaitKeeps, TokioKeeps
<1>5. ASSUME NEW h \in Handles, Walk(h) PROVE TreeInv'
  BY <1>5, ListKeeps, KillGroupKeeps, KillEachKeeps, ReapKeeps, StartKillKeeps DEF Walk
<1> QED
  BY <1>1, <1>2, <1>3, <1>4, <1>5 DEF Next

(* When a plugin is gone no process of its group runs, however many there  *)
(* were and whatever they did while they were being killed, as long as no  *)
(* pid is given out twice.                                                 *)
THEOREM GroupsAreGone == ASSUME ~Reuse PROVE Spec => []GroupIsGone
<1>1. TreeInv => GroupIsGone
  BY DEF TreeInv, GroupSwept, Swept, GroupIsGone
<1> QED
  BY <1>1, TreeInit, TreeStep, PTL DEF Spec

-----------------------------------------------------------------------------
(* Who is killed.  A walk signals the group of its pid, the processes it   *)
(* listed a moment ago, and its child.  All of them are its plugin's: by   *)
(* descent a process has the owner of its parent (Kin), a group has one    *)
(* owner (GroupOwned), and a listed process, dead or alive, is never       *)
(* another's, for its pid is not given out again (ListOwned).              *)

Kin ==
  \A p \in Pids :
    /\ parent[p] \in Pids =>
         state[parent[p]] \in {"running", "dying"} /\ owner[p] = owner[parent[p]]
    /\ owner[p] = Outside <=> parent[p] = Outside

GroupOwned ==
  \A h \in Handles, p \in Pids :
    pid[h] # None /\ group[p] = pid[h] /\ state[p] \notin Gone => owner[p] = h

ListOwned ==
  \A h \in Handles : \A p \in list[h] :
    state[p] # "free" /\ (state[p] \notin Gone => owner[p] = h)

OwnInv == TreeInv /\ Kin /\ GroupOwned /\ ListOwned

LEMMA OwnInit == Init => OwnInv
BY TreeInit, ProcessAssumption DEF Init, OwnInv, Kin, GroupOwned, ListOwned

(* Zombies have no children, and neither have the processes of the others. *)
LEMMA Childless ==
  ASSUME TypeOK, Kin, NEW q \in Pids, state[q] = "zombie" \/ parent[q] = Outside
  PROVE  \A p \in Pids : parent[p] # q
<1> SUFFICES ASSUME NEW p \in Pids, parent[p] = q PROVE FALSE
  OBVIOUS
<1>1. state[q] \in {"running", "dying"} /\ owner[p] = owner[q]
  BY DEF Kin
<1>2. parent[q] = Outside
  BY <1>1
<1>3. parent[p] = Outside
  BY <1>1, <1>2 DEF Kin
<1> QED
  BY <1>3, ProcessAssumption

LEMMA KinCleared ==
  ASSUME TypeOK, Kin, NEW S \in SUBSET Pids, Clear(S), \A q \in S, p \in Pids : parent[p] # q
  PROVE  Kin'
<1> SUFFICES ASSUME NEW p \in Pids
             PROVE  /\ parent'[p] \in Pids =>
                         /\ state'[parent'[p]] \in {"running", "dying"}
                         /\ owner'[p] = owner'[parent'[p]]
                    /\ owner'[p] = Outside <=> parent'[p] = Outside
  BY DEF Kin
<1>1. CASE p \in S
  BY <1>1, ProcessAssumption DEF Clear
<1>2. CASE p \notin S
  <2>1. parent'[p] = parent[p] /\ owner'[p] = owner[p]
    BY <1>2 DEF Clear
  <2>2. ASSUME parent[p] \in Pids
        PROVE  state'[parent[p]] = state[parent[p]] /\ owner'[parent[p]] = owner[parent[p]]
    <3>1. parent[p] \notin S
      OBVIOUS
    <3> QED
      BY <2>2, <3>1 DEF Clear
  <2> QED
    BY <2>1, <2>2 DEF Kin
<1> QED
  BY <1>1, <1>2

LEMMA KinSignalled ==
  ASSUME TypeOK, Kin, NEW S, Signal(S)
  PROVE  Kin'
<1>1. /\ UNCHANGED <<owner, parent>>
      /\ \A p \in Pids : state[p] \in {"running", "dying"} => state'[p] \in {"running", "dying"}
  BY DEF Signal
<1> QED
  BY <1>1 DEF Kin

(* Processes only die, detach or disappear, and nothing is listed.         *)
LEMMA OwnersDecline ==
  ASSUME TreeInv, GroupOwned, ListOwned, UNCHANGED pid,
         \A h \in Handles : list'[h] \subseteq list[h],
         \A p \in Pids : state'[p] = "free" => state[p] = "free",
         \A p \in Pids : state'[p] \notin Gone => state[p] \notin Gone /\ owner'[p] = owner[p],
         \A p \in Pids : state'[p] \notin Gone =>
            group'[p] = group[p]
              \/ (group'[p] = p /\ state[p] = "running" /\ group[p] # p)
  PROVE  GroupOwned' /\ ListOwned'
<1>1. GroupOwned'
  <2> SUFFICES ASSUME NEW h \in Handles, NEW p \in Pids, pid[h] # None, group'[p] = pid[h],
                      state'[p] \notin Gone
               PROVE  owner'[p] = h
    BY DEF GroupOwned
  <2>1. state[p] \notin Gone /\ owner'[p] = owner[p]
    OBVIOUS
  <2>2. CASE group'[p] = group[p]
    <3>1. group[p] = pid[h]
      BY <2>2
    <3>2. owner[p] = h
      BY <2>1, <3>1 DEF GroupOwned
    <3> QED
      BY <2>1, <3>2
  <2>3. CASE group'[p] = p /\ group[p] # p
    <3>1. p = pid[h]
      BY <2>3
    <3>2. group[p] = p
      BY <2>1, <3>1 DEF TreeInv, Rooted
    <3> QED
      BY <2>3, <3>2
  <2> QED
    BY <2>2, <2>3
<1>2. ListOwned'
  <2> SUFFICES ASSUME NEW h \in Handles, NEW p \in list'[h]
               PROVE  state'[p] # "free" /\ (state'[p] \notin Gone => owner'[p] = h)
    BY DEF ListOwned
  <2>1. p \in list[h] /\ p \in Pids
    BY DEF TreeInv, TypeOK
  <2> QED
    BY <2>1 DEF ListOwned
<1> QED
  BY <1>1, <1>2

-----------------------------------------------------------------------------
LEMMA BirthKeepsOwners ==
  ASSUME OwnInv, NEW p \in Pids, NEW o, NEW par, NEW g, Start(p, o, par, g),
         UNCHANGED handleVars,
         \/ o = Outside /\ par = Outside /\ g = p
         \/ \E q \in Pids : state[q] = "running" /\ par = q /\ o = owner[q] /\ o \in Handles
                              /\ g = group[q]
  PROVE  Kin' /\ GroupOwned' /\ ListOwned'
<1>1. /\ state[p] = "free" /\ (\A q \in Pids : group[q] # p)
      /\ state' = [state EXCEPT ![p] = "running"] /\ owner' = [owner EXCEPT ![p] = o]
      /\ parent' = [parent EXCEPT ![p] = par] /\ group' = [group EXCEPT ![p] = g]
      /\ UNCHANGED <<pid, list>> /\ TypeOK
  BY DEF Start, Free, OwnInv, TreeInv, handleVars
<1>2. Kin'
  <2>1. \A q \in Pids : parent[q] # p
    BY <1>1 DEF OwnInv, Kin
  <2>2. ASSUME NEW q \in Pids, q # p
        PROVE  /\ parent'[q] \in Pids =>
                    /\ state'[parent'[q]] \in {"running", "dying"}
                    /\ owner'[q] = owner'[parent'[q]]
               /\ owner'[q] = Outside <=> parent'[q] = Outside
    BY <1>1, <2>1, <2>2 DEF OwnInv, Kin, TypeOK
  <2>3. /\ parent'[p] \in Pids =>
             state'[parent'[p]] \in {"running", "dying"} /\ owner'[p] = owner'[parent'[p]]
        /\ owner'[p] = Outside <=> parent'[p] = Outside
    BY <1>1, ProcessAssumption DEF TypeOK
  <2> QED
    BY <2>2, <2>3 DEF Kin
<1>3. GroupOwned'
  <2> SUFFICES ASSUME NEW h \in Handles, NEW r \in Pids, pid[h] # None, group'[r] = pid[h],
                      state'[r] \notin Gone
               PROVE  owner'[r] = h
    BY <1>1 DEF GroupOwned
  <2>1. CASE r # p
    BY <1>1, <2>1 DEF OwnInv, GroupOwned, TypeOK
  <2>2. CASE r = p
    <3>1. pid[h] # p
      BY <1>1 DEF OwnInv, TreeInv, Rooted
    <3>2. PICK q \in Pids : state[q] = "running" /\ o = owner[q] /\ g = group[q]
      BY <1>1, <2>2, <3>1 DEF TypeOK
    <3>3. owner[q] = h
      BY <1>1, <2>2, <3>2 DEF OwnInv, GroupOwned, TypeOK, Gone
    <3> QED
      BY <1>1, <2>2, <3>2, <3>3 DEF TypeOK
  <2> QED
    BY <2>1, <2>2
<1>4. ListOwned'
  <2> SUFFICES ASSUME NEW h \in Handles, NEW r \in list[h]
               PROVE  state'[r] # "free" /\ (state'[r] \notin Gone => owner'[r] = h)
    BY <1>1 DEF ListOwned
  <2>1. r \in Pids /\ r # p
    BY <1>1 DEF OwnInv, ListOwned, TypeOK
  <2> QED
    BY <1>1, <2>1 DEF OwnInv, ListOwned, TypeOK
<1> QED
  BY <1>2, <1>3, <1>4

LEMMA LaunchKeepsOwners ==
  ASSUME OwnInv, NEW h \in Handles, Launch(h)
  PROVE  Kin' /\ GroupOwned' /\ ListOwned'
<1>1. PICK p \in Pids : Start(p, h, Kernel, p) /\ pid' = [pid EXCEPT ![h] = p]
  BY DEF Launch
<1>2. /\ state[p] = "free" /\ (\A q \in Pids : group[q] # p)
      /\ state' = [state EXCEPT ![p] = "running"] /\ owner' = [owner EXCEPT ![p] = h]
      /\ parent' = [parent EXCEPT ![p] = Kernel] /\ group' = [group EXCEPT ![p] = p]
      /\ UNCHANGED list /\ TypeOK
  BY <1>1 DEF Launch, Start, Free, OwnInv, TreeInv
<1>3. Kin'
  <2>1. \A q \in Pids : parent[q] # p
    BY <1>2 DEF OwnInv, Kin
  <2>2. ASSUME NEW q \in Pids, q # p
        PROVE  /\ parent'[q] \in Pids =>
                    /\ state'[parent'[q]] \in {"running", "dying"}
                    /\ owner'[q] = owner'[parent'[q]]
               /\ owner'[q] = Outside <=> parent'[q] = Outside
    BY <1>2, <2>1, <2>2 DEF OwnInv, Kin, TypeOK
  <2>3. parent'[p] = Kernel /\ owner'[p] = h /\ Kernel \notin Pids /\ Kernel # Outside /\ h # Outside
    BY <1>2, ProcessAssumption DEF TypeOK
  <2> QED
    BY <2>2, <2>3 DEF Kin
<1>4. GroupOwned'
  <2> SUFFICES ASSUME NEW g \in Handles, NEW r \in Pids, pid'[g] # None, group'[r] = pid'[g],
                      state'[r] \notin Gone
               PROVE  owner'[r] = g
    BY DEF GroupOwned
  <2>1. CASE g = h
    <3>1. r = p
      BY <1>1, <1>2, <2>1 DEF TypeOK
    <3> QED
      BY <1>2, <2>1, <3>1 DEF TypeOK
  <2>2. CASE g # h
    <3>1. pid'[g] = pid[g] /\ pid[g] # p
      BY <1>1, <1>2, <2>2 DEF OwnInv, TreeInv, Rooted, TypeOK
    <3>2. r # p
      BY <1>2, <3>1 DEF TypeOK
    <3> QED
      BY <1>2, <3>1, <3>2 DEF OwnInv, GroupOwned, TypeOK
  <2> QED
    BY <2>1, <2>2
<1>5. ListOwned'
  <2> SUFFICES ASSUME NEW g \in Handles, NEW r \in list[g]
               PROVE  state'[r] # "free" /\ (state'[r] \notin Gone => owner'[r] = g)
    BY <1>2 DEF ListOwned
  <2>1. r \in Pids /\ r # p
    BY <1>2 DEF OwnInv, ListOwned, TypeOK
  <2> QED
    BY <1>2, <2>1 DEF OwnInv, ListOwned, TypeOK
<1> QED
  BY <1>3, <1>4, <1>5

LEMMA EndsKeepOwners ==
  ASSUME ~Reuse, OwnInv, NEW q \in Pids, Dies(q) \/ ParentWaits(q)
  PROVE  Kin' /\ GroupOwned' /\ ListOwned'
<1>0. TypeOK /\ UNCHANGED <<pid, list>>
  BY DEF OwnInv, TreeInv, Dies, ParentWaits, handleVars
<1>1. CASE Clear({q}) /\ (state[q] = "zombie" \/ parent[q] = Outside)
  <2>1. \A r \in {q}, p \in Pids : parent[p] # r
    BY <1>0, <1>1, Childless DEF OwnInv
  <2>2. Kin'
    BY <1>0, <1>1, <2>1, KinCleared DEF OwnInv
  <2>3. GroupOwned' /\ ListOwned'
    BY <1>0, <1>1, ClearDeclines, OwnersDecline DEF OwnInv
  <2> QED
    BY <2>2, <2>3
<1>2. CASE /\ state[q] \in {"running", "dying"} /\ state' = [state EXCEPT ![q] = "zombie"]
           /\ parent[q] # Outside
           /\ parent' = [p \in Pids |-> IF parent[p] = q THEN Kernel ELSE parent[p]]
           /\ UNCHANGED <<owner, group>>
  <2>1. Kin'
    <3> SUFFICES ASSUME NEW p \in Pids
                 PROVE  /\ parent'[p] \in Pids =>
                             /\ state'[parent'[p]] \in {"running", "dying"}
                             /\ owner'[p] = owner'[parent'[p]]
                        /\ owner'[p] = Outside <=> parent'[p] = Outside
      BY DEF Kin
    <3>1. CASE parent[p] = q
      <4>1. parent'[p] = Kernel /\ owner[p] # Outside
        BY <1>2, <3>1, ProcessAssumption DEF OwnInv, Kin
      <4> QED
        BY <1>2, <4>1, ProcessAssumption
    <3>2. CASE parent[p] # q
      BY <1>0, <1>2, <3>2 DEF OwnInv, Kin, TypeOK
    <3> QED
      BY <3>1, <3>2
  <2>2. \A p \in Pids : /\ state'[p] = "free" => state[p] = "free"
                        /\ state'[p] \notin Gone => state[p] \notin Gone
    BY <1>0, <1>2 DEF TypeOK, Gone
  <2>3. GroupOwned' /\ ListOwned'
    BY <1>0, <1>2, <2>2, OwnersDecline DEF OwnInv
  <2> QED
    BY <2>1, <2>3
<1> QED
  BY <1>1, <1>2 DEF Dies, ParentWaits

(* The steps of a handle, but for a launch: they clear zombies, or signal, *)
(* or leave the processes alone.                                           *)
LEMMA HandleKeepsKin ==
  ASSUME TypeOK, Kin,
         \/ \E S \in SUBSET Pids : Clear(S) /\ \A q \in S : state[q] = "zombie"
         \/ \E S : Signal(S)
         \/ UNCHANGED procVars
  PROVE  Kin'
<1>1. ASSUME NEW S \in SUBSET Pids, Clear(S), \A q \in S : state[q] = "zombie" PROVE Kin'
  <2>1. \A q \in S, p \in Pids : parent[p] # q
    BY <1>1, Childless
  <2> QED
    BY <1>1, <2>1, KinCleared
<1>2. ASSUME NEW S, Signal(S) PROVE Kin'
  BY <1>2, KinSignalled
<1>3. CASE UNCHANGED procVars
  BY <1>3 DEF Kin, procVars
<1> QED
  BY <1>1, <1>2, <1>3

LEMMA HandleKeepsOwners ==
  ASSUME ~Reuse, OwnInv, UNCHANGED pid, \A h \in Handles : list'[h] \subseteq list[h],
         \/ \E S \in SUBSET Pids : Clear(S) /\ \A q \in S : state[q] = "zombie"
         \/ \E S : Signal(S)
         \/ UNCHANGED procVars
  PROVE  Kin' /\ GroupOwned' /\ ListOwned'
<1>1. Kin'
  BY HandleKeepsKin DEF OwnInv, TreeInv
<1>2. /\ \A p \in Pids : state'[p] = "free" => state[p] = "free"
      /\ \A p \in Pids : state'[p] \notin Gone =>
           state[p] \notin Gone /\ owner'[p] = owner[p] /\ group'[p] = group[p]
  <2>1. ASSUME NEW S \in SUBSET Pids, Clear(S) PROVE <1>2!1 /\ <1>2!2
    BY <2>1, ClearDeclines DEF OwnInv
  <2>2. ASSUME NEW S, Signal(S) PROVE <1>2!1 /\ <1>2!2
    BY <2>2, SignalDeclines DEF OwnInv
  <2>3. CASE UNCHANGED procVars
    BY <2>3 DEF procVars
  <2> QED
    BY <2>1, <2>2, <2>3
<1>3. GroupOwned' /\ ListOwned'
  BY <1>2, OwnersDecline DEF OwnInv
<1> QED
  BY <1>1, <1>3

(* What a walk lists descends from its plugin.                             *)
LEMMA DescendantsAreOwn ==
  ASSUME OwnInv, NEW h \in Handles, pid[h] # None, NEW p \in Descendants(pid[h])
  PROVE  p \in Pids /\ state[p] # "free" /\ owner[p] = h
<1> DEFINE S == {q \in Pids : owner[q] = h}
<1>1. Below(pid[h], S)
  <2> SUFFICES ASSUME NEW q \in Pids, parent[q] \in S \cup {pid[h]} PROVE q \in S
    BY DEF Below
  <2>1. parent[q] \in Pids
    BY DEF OwnInv, TreeInv, TypeOK
  <2>2. owner[q] = owner[parent[q]] /\ state[parent[q]] \in {"running", "dying"}
    BY <2>1 DEF OwnInv, Kin
  <2>3. CASE parent[q] \in S
    BY <2>2, <2>3
  <2>4. CASE parent[q] = pid[h]
    BY <2>2, <2>4 DEF OwnInv, TreeInv, Rooted, Gone
  <2> QED
    BY <2>3, <2>4
<1>2. p \in S
  BY <1>1 DEF Descendants
<1>3. p \in Pids /\ owner[p] = h /\ h # None
  BY <1>2, ProcessAssumption
<1> QED
  BY <1>3 DEF OwnInv, TreeInv, TypeOK, Gone

LEMMA ListKeepsOwners ==
  ASSUME OwnInv, NEW h \in Handles, List(h)
  PROVE  Kin' /\ GroupOwned' /\ ListOwned'
<1>1. /\ UNCHANGED <<state, owner, parent, group, pid>> /\ kill[h] = "list"
      /\ list' = [list EXCEPT ![h] = Descendants(pid[h])]
  BY DEF List, procVars
<1>2. Kin' /\ GroupOwned'
  BY <1>1 DEF OwnInv, Kin, GroupOwned
<1>3. pid[h] # None
  BY <1>1 DEF OwnInv, TreeInv, TypeOK, Killing
<1>4. \A p \in Descendants(pid[h]) : state[p] # "free" /\ owner[p] = h
  BY <1>3, DescendantsAreOwn
<1>5. ListOwned'
  <2> SUFFICES ASSUME NEW g \in Handles, NEW p \in list'[g]
               PROVE  state[p] # "free" /\ (state[p] \notin Gone => owner[p] = g)
    BY <1>1 DEF ListOwned
  <2>1. CASE g = h
    <3>1. p \in Descendants(pid[h])
      BY <1>1, <2>1 DEF OwnInv, TreeInv, TypeOK
    <3> QED
      BY <1>4, <2>1, <3>1
  <2>2. CASE g # h
    BY <1>1, <2>2 DEF OwnInv, ListOwned, TreeInv, TypeOK
  <2> QED
    BY <2>1, <2>2
<1> QED
  BY <1>2, <1>5

LEMMA OwnStep == ~Reuse /\ OwnInv /\ [Next]_vars => OwnInv'
<1> SUFFICES ASSUME ~Reuse, OwnInv, [Next]_vars PROVE Kin' /\ GroupOwned' /\ ListOwned'
  BY TreeStep DEF OwnInv
<1>0. list \in [Handles -> SUBSET Pids]
  BY DEF OwnInv, TreeInv, TypeOK
<1>1. CASE UNCHANGED vars
  BY <1>1, HandleKeepsOwners DEF vars, handleVars
<1>2. ASSUME NEW p \in Pids, Detach(p) PROVE Kin' /\ GroupOwned' /\ ListOwned'
  <2>1. Kin'
    BY <1>2 DEF Detach, OwnInv, Kin
  <2>2. \A q \in Pids : group'[q] = group[q]
          \/ (group'[q] = q /\ state[q] = "running" /\ group[q] # q)
    BY <1>2 DEF Detach, OwnInv, TreeInv, TypeOK
  <2>3. GroupOwned' /\ ListOwned'
    BY <1>2, <2>2, OwnersDecline DEF Detach, handleVars, OwnInv
  <2> QED
    BY <2>1, <2>3
<1>3. ASSUME NEW p \in Pids, Dies(p) \/ ParentWaits(p) PROVE Kin' /\ GroupOwned' /\ ListOwned'
  BY <1>3, EndsKeepOwners
<1>4. ASSUME NEW p \in Pids, StrangerStarts(p) PROVE Kin' /\ GroupOwned' /\ ListOwned'
  BY <1>4, BirthKeepsOwners DEF StrangerStarts
<1>5. ASSUME NEW p \in Pids, NEW q \in Pids, Fork(q, p) PROVE Kin' /\ GroupOwned' /\ ListOwned'
  BY <1>5, BirthKeepsOwners DEF Fork
<1>6. ASSUME NEW h \in Handles, Launch(h) PROVE Kin' /\ GroupOwned' /\ ListOwned'
  BY <1>6, LaunchKeepsOwners
<1>7. ASSUME NEW h \in Handles,
             \/ Mount(h) \/ LaunchFails(h) \/ Shutdown(h) \/ GraceEnds(h) \/ DropSupervisor(h)
      PROVE  Kin' /\ GroupOwned' /\ ListOwned'
  <2>1. UNCHANGED <<pid, list, procVars>>
    BY <1>7 DEF Mount, LaunchFails, Shutdown, GraceEnds, DropSupervisor, Begin
  <2> QED
    BY <2>1, HandleKeepsOwners
<1>8. ASSUME NEW h \in Handles, WaitReturns(h) \/ TokioReaps(h) \/ Reap(h)
      PROVE  Kin' /\ GroupOwned' /\ ListOwned'
  <2>1. /\ UNCHANGED <<pid, list>>
        /\ \/ Clear({pid[h]}) /\ pid[h] \in Waitable
           \/ Clear(Waitable)
           \/ UNCHANGED procVars
    BY <1>8 DEF WaitReturns, TokioReaps, Reap
  <2>2. \/ UNCHANGED procVars
        \/ \E S \in SUBSET Pids : Clear(S) /\ \A q \in S : state[q] = "zombie"
    <3>1. CASE Clear({pid[h]}) /\ pid[h] \in Waitable
      BY <3>1 DEF Waitable
    <3>2. CASE Clear(Waitable)
      BY <3>2 DEF Waitable
    <3> QED
      BY <2>1, <3>1, <3>2
  <2> QED
    BY <2>1, <2>2, HandleKeepsOwners
<1>9. ASSUME NEW h \in Handles, List(h) PROVE Kin' /\ GroupOwned' /\ ListOwned'
  BY <1>9, ListKeepsOwners
<1>10. ASSUME NEW h \in Handles, KillGroup(h) \/ KillEach(h) \/ StartKill(h)
       PROVE  Kin' /\ GroupOwned' /\ ListOwned'
  <2>1. /\ UNCHANGED pid /\ (\A g \in Handles : list'[g] \subseteq list[g])
        /\ \E S : Signal(S)
    BY <1>0, <1>10 DEF KillGroup, KillEach, StartKill
  <2> QED
    BY <2>1, HandleKeepsOwners
<1> QED
  BY <1>1, <1>2, <1>3, <1>4, <1>5, <1>6, <1>7, <1>8, <1>9, <1>10 DEF Next, Walk

(* A process that begins to die without having asked for it was signalled  *)
(* by a walk of its own plugin.                                            *)
LEMMA SignalsHitTheOwn ==
  ASSUME OwnInv, NEW h \in Handles, NEW S, Signal(S),
         \/ S = {p \in Pids : group[p] = pid[h]}
         \/ S = list[h]
         \/ S = {pid[h]}
         \/ S = {},
         pid[h] # None,
         NEW p \in Pids, state[p] = "running", state'[p] = "dying"
  PROVE  owner[p] = h
<1>1. p \in S /\ state[p] \notin Gone
  BY DEF Signal, Gone
<1> QED
  BY <1>1 DEF OwnInv, GroupOwned, ListOwned, TreeInv, Rooted

LEMMA KillsStep ==
  ASSUME OwnInv, [Next]_vars, NEW p \in Pids, state[p] = "running", state'[p] = "dying"
  PROVE  \E h \in Handles : kill'[h] # kill[h] /\ owner[p] = h
<1>0. TypeOK /\ state \in [Pids -> {"running", "dying", "zombie"} \cup Gone]
      /\ kill \in [Handles -> {"no", "list", "group", "each", "reap", "child"}]
  BY DEF OwnInv, TreeInv, TypeOK
<1>1. ASSUME NEW S, Clear(S) PROVE FALSE
  BY <1>1 DEF Clear
<1>2. ASSUME NEW q \in Pids, NEW o, NEW par, NEW g, Start(q, o, par, g) PROVE FALSE
  BY <1>0, <1>2 DEF Start
<1>3. ASSUME UNCHANGED state PROVE FALSE
  BY <1>3
<1>4. ASSUME NEW q \in Pids,
             \/ Detach(q) \/ Dies(q) \/ ParentWaits(q) \/ StrangerStarts(q)
             \/ \E r \in Pids : Fork(r, q)
      PROVE  FALSE
  BY <1>0, <1>1, <1>2, <1>3, <1>4 DEF Detach, Dies, ParentWaits, StrangerStarts, Fork
<1>5. ASSUME NEW h \in Handles,
             \/ Launch(h) \/ Mount(h) \/ LaunchFails(h) \/ Shutdown(h) \/ GraceEnds(h)
             \/ WaitReturns(h) \/ DropSupervisor(h) \/ TokioReaps(h) \/ List(h) \/ Reap(h)
      PROVE  FALSE
  BY <1>1, <1>2, <1>3, <1>5 DEF Launch, Mount, LaunchFails, Shutdown, GraceEnds, WaitReturns,
     DropSupervisor, TokioReaps, List, Reap, Begin, procVars
<1>6. ASSUME NEW h \in Handles, KillGroup(h) \/ KillEach(h) \/ StartKill(h)
      PROVE  kill'[h] # kill[h] /\ owner[p] = h
  <2>1. kill[h] # "no" /\ kill'[h] # kill[h]
    BY <1>0, <1>6 DEF KillGroup, KillEach, StartKill
  <2>2. pid[h] # None
    BY <1>0, <2>1 DEF TypeOK, Killing
  <2>3. CASE KillGroup(h)
    <3>1. PICK S \in SUBSET Pids : S = {q \in Pids : group[q] = pid[h]} /\ Signal(S)
      BY <2>3 DEF KillGroup
    <3> QED
      BY <2>1, <2>2, <3>1, SignalsHitTheOwn
  <2>4. CASE KillEach(h)
    <3>1. PICK S \in SUBSET Pids : S = list[h] /\ Signal(S)
      BY <1>0, <2>4 DEF KillEach, TypeOK
    <3> QED
      BY <2>1, <2>2, <3>1, SignalsHitTheOwn
  <2>5. CASE StartKill(h)
    <3>1. PICK S \in SUBSET {pid[h]} : (S = {pid[h]} \/ S = {}) /\ Signal(S)
      BY <2>5 DEF StartKill
    <3> QED
      BY <2>1, <2>2, <3>1, SignalsHitTheOwn
  <2> QED
    BY <1>6, <2>1, <2>3, <2>4, <2>5
<1> QED
  BY <1>3, <1>4, <1>5, <1>6 DEF Next, Walk, vars, procVars

(* Removing a plugin kills its own processes only, orphans among them, and *)
(* none of another plugin and none of the rest of the machine, as long as  *)
(* no pid is given out twice (process.rs, kill_process_tree).              *)
THEOREM KillsAreOfTheOwn == ASSUME ~Reuse PROVE Spec => KillsOnlyItsOwn
<1>1. OwnInv /\ [Next]_vars =>
        [\A p \in Pids : state[p] = "running" /\ state'[p] = "dying"
            => \E h \in Handles : kill'[h] # kill[h] /\ owner[p] = h]_vars
  BY KillsStep
<1> QED
  BY <1>1, OwnInit, OwnStep, PTL DEF Spec, KillsOnlyItsOwn

-----------------------------------------------------------------------------
(* Types, whether or not pids are given out again.                         *)

ProcTyped ==
  /\ state \in [Pids -> {"running", "dying", "zombie"} \cup Gone]
  /\ owner \in [Pids -> Handles \cup {Outside, None}]
  /\ parent \in [Pids -> Pids \cup {Kernel, Outside, None}]
  /\ group \in [Pids -> Pids \cup {Kernel, None}]
  /\ \A p \in Pids : state[p] \in Gone <=> owner[p] = None

HandleTyped ==
  /\ stage \in [Handles -> {"new", "launching", "up", "asking", "waiting", "closed", "gone"}
                           \cup Killing]
  /\ kill \in [Handles -> {"no", "list", "group", "each", "reap", "child"}]
  /\ \A h \in Handles : /\ kill[h] # "no" <=> stage[h] \in Killing
                        /\ kill[h] = "child" => stage[h] # "guarding"
                        /\ pid[h] = None <=> stage[h] = "new"
  /\ pid \in [Handles -> Pids \cup {None}]
  /\ list \in [Handles -> SUBSET Pids]
  /\ waited \in [Handles -> BOOLEAN]

LEMMA TypesSplit == (TypeOK <=> ProcTyped /\ HandleTyped) /\ (TypeOK' <=> ProcTyped' /\ HandleTyped')
BY DEF TypeOK, ProcTyped, HandleTyped

LEMMA ClearTyped == ASSUME ProcTyped, NEW S, Clear(S) PROVE ProcTyped'
BY ProcessAssumption DEF Clear, ProcTyped, Gone

LEMMA SignalTyped == ASSUME ProcTyped, NEW S, Signal(S) PROVE ProcTyped'
BY DEF Signal, ProcTyped, Gone

LEMMA StartTyped ==
  ASSUME ProcTyped, NEW p \in Pids, NEW o \in Handles \cup {Outside},
         NEW par \in Pids \cup {Kernel, Outside}, NEW g \in Pids \cup {Kernel, None},
         Start(p, o, par, g)
  PROVE  ProcTyped'
BY ProcessAssumption DEF Start, ProcTyped, Gone

LEMMA ProcStepTyped ==
  ASSUME ProcTyped, HandleTyped, [Next]_vars
  PROVE  ProcTyped'
<1>1. ASSUME UNCHANGED procVars PROVE ProcTyped'
  BY <1>1 DEF procVars, ProcTyped
<1>2. ASSUME NEW p \in Pids, Detach(p) PROVE ProcTyped'
  BY <1>2 DEF Detach, ProcTyped
<1>3. ASSUME NEW q \in Pids, Dies(q) PROVE ProcTyped'
  <2>1. CASE Clear({q})
    BY <2>1, ClearTyped
  <2>2. CASE /\ state' = [state EXCEPT ![q] = "zombie"]
             /\ parent' = [p \in Pids |-> IF parent[p] = q THEN Kernel ELSE parent[p]]
             /\ UNCHANGED <<owner, group>>
    BY <1>3, <2>2 DEF Dies, ProcTyped, Gone
  <2> QED
    BY <1>3, <2>1, <2>2 DEF Dies
<1>4. ASSUME NEW q \in Pids, ParentWaits(q) PROVE ProcTyped'
  BY <1>4, ClearTyped DEF ParentWaits
<1>5. ASSUME NEW p \in Pids, StrangerStarts(p) PROVE ProcTyped'
  BY <1>5, StartTyped DEF StrangerStarts
<1>6. ASSUME NEW p \in Pids, NEW q \in Pids, Fork(q, p) PROVE ProcTyped'
  <2>1. group[q] \in Pids \cup {Kernel, None}
    BY DEF ProcTyped
  <2> QED
    BY <1>6, <2>1, StartTyped DEF Fork
<1>7. ASSUME NEW h \in Handles, Launch(h) PROVE ProcTyped'
  BY <1>7, StartTyped DEF Launch
<1>8. ASSUME NEW h \in Handles, WaitReturns(h) \/ TokioReaps(h) \/ Reap(h) PROVE ProcTyped'
  BY <1>1, <1>8, ClearTyped DEF WaitReturns, TokioReaps, Reap
<1>9. ASSUME NEW h \in Handles, KillGroup(h) \/ KillEach(h) \/ StartKill(h) PROVE ProcTyped'
  BY <1>9, SignalTyped DEF KillGroup, KillEach, StartKill
<1>10. ASSUME NEW h \in Handles,
              \/ Mount(h) \/ LaunchFails(h) \/ Shutdown(h) \/ GraceEnds(h) \/ DropSupervisor(h)
              \/ List(h)
       PROVE  ProcTyped'
  BY <1>1, <1>10 DEF Mount, LaunchFails, Shutdown, GraceEnds, DropSupervisor, Begin, List
<1> QED
  BY <1>1, <1>2, <1>3, <1>4, <1>5, <1>6, <1>7, <1>8, <1>9, <1>10 DEF Next, Walk, vars

LEMMA HandleStepTyped ==
  ASSUME ProcTyped, HandleTyped, [Next]_vars
  PROVE  HandleTyped'
<1>1. ASSUME UNCHANGED handleVars PROVE HandleTyped'
  BY <1>1 DEF handleVars, HandleTyped
<1>2. ASSUME NEW p \in Pids,
             \/ Detach(p) \/ Dies(p) \/ ParentWaits(p) \/ StrangerStarts(p)
             \/ \E q \in Pids : Fork(q, p)
      PROVE  HandleTyped'
  BY <1>1, <1>2 DEF Detach, Dies, ParentWaits, StrangerStarts, Fork
<1>3. ASSUME NEW h \in Handles, Launch(h) PROVE HandleTyped'
  <2>1. PICK p \in Pids : pid' = [pid EXCEPT ![h] = p]
    BY <1>3 DEF Launch
  <2>2. /\ stage[h] = "new" /\ stage' = [stage EXCEPT ![h] = "launching"] /\ p # None
        /\ UNCHANGED <<kill, list, waited>>
    BY <1>3, <2>1, ProcessAssumption DEF Launch
  <2> QED
    BY <2>1, <2>2 DEF HandleTyped, Killing
<1>4. ASSUME NEW h \in Handles, NEW s \in {"launching", "up", "asking", "closed"},
             stage[h] \notin Killing, stage[h] # "new", stage' = [stage EXCEPT ![h] = s],
             UNCHANGED <<kill, pid, list>>, waited' \in [Handles -> BOOLEAN]
      PROVE  HandleTyped'
  BY <1>4 DEF HandleTyped, Killing
<1>5. ASSUME NEW h \in Handles, Mount(h) \/ Shutdown(h) PROVE HandleTyped'
  BY <1>4, <1>5 DEF Mount, Shutdown, HandleTyped, Killing
<1>6. ASSUME NEW h \in Handles, WaitReturns(h) PROVE HandleTyped'
  <2>1. waited' \in [Handles -> BOOLEAN]
    BY <1>6 DEF WaitReturns, HandleTyped
  <2> QED
    BY <1>4, <1>6, <2>1 DEF WaitReturns, Killing
<1>7. ASSUME NEW h \in Handles, LaunchFails(h) \/ GraceEnds(h) \/ DropSupervisor(h)
      PROVE  HandleTyped'
  BY <1>7 DEF LaunchFails, GraceEnds, DropSupervisor, Begin, HandleTyped, Killing
<1>8. ASSUME NEW h \in Handles, TokioReaps(h) PROVE HandleTyped'
  BY <1>8 DEF TokioReaps, HandleTyped
<1>9. ASSUME NEW h \in Handles, kill[h] # "no", NEW k \in {"group", "each", "reap"},
             kill' = [kill EXCEPT ![h] = k], UNCHANGED <<stage, pid, waited>>,
             list' \in [Handles -> SUBSET Pids]
      PROVE  HandleTyped'
  BY <1>9 DEF HandleTyped
<1>10. ASSUME NEW h \in Handles, List(h) PROVE HandleTyped'
  <2>1. list' \in [Handles -> SUBSET Pids]
    BY <1>10, DescendantsArePids DEF List, HandleTyped
  <2> QED
    BY <1>9, <1>10, <2>1 DEF List
<1>11. ASSUME NEW h \in Handles, KillGroup(h) \/ KillEach(h) PROVE HandleTyped'
  <2>1. list' \in [Handles -> SUBSET Pids]
    BY <1>11 DEF KillGroup, KillEach, HandleTyped
  <2> QED
    BY <1>9, <1>11, <2>1 DEF KillGroup, KillEach
<1>12. ASSUME NEW h \in Handles, Reap(h) PROVE HandleTyped'
  BY <1>12 DEF Reap, HandleTyped, Killing
<1>13. ASSUME NEW h \in Handles, StartKill(h) PROVE HandleTyped'
  <2>1. stage[h] \in {"discarding", "forcing", "dropping"}
    BY <1>13 DEF StartKill, HandleTyped, Killing
  <2>2. /\ \/ stage[h] = "discarding" /\ stage' = [stage EXCEPT ![h] = "gone"]
           \/ stage[h] = "forcing" /\ stage' = [stage EXCEPT ![h] = "waiting"]
           \/ stage[h] = "dropping" /\ stage' = [stage EXCEPT ![h] = "guarding"]
        /\ kill' = [kill EXCEPT ![h] = IF stage[h] = "dropping" THEN "list" ELSE "no"]
        /\ UNCHANGED <<pid, list, waited>>
    BY <1>13, <2>1 DEF StartKill, HandleTyped
  <2> QED
    BY <2>2 DEF HandleTyped, Killing
<1> QED
  BY <1>1, <1>2, <1>3, <1>5, <1>6, <1>7, <1>8, <1>10, <1>11, <1>12, <1>13
     DEF Next, Walk, vars

(* Types, for any number of plugins and processes, whether or not a pid is *)
(* given out again.                                                        *)
THEOREM ProcessTypeCorrect == Spec => []TypeOK
<1>1. Init => TypeOK
  BY TreeInit DEF TreeInv
<1>2. TypeOK /\ [Next]_vars => TypeOK'
  BY TypesSplit, ProcStepTyped, HandleStepTyped
<1> QED
  BY <1>1, <1>2, PTL DEF Spec

=============================================================================
