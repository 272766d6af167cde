----------------------------- MODULE AgentProofs -----------------------------
(***************************************************************************)
(* Proofs about Agent and the conversation store, for any tasks, stores,   *)
(* limits, faults and visits of other sessions.                            *)
(***************************************************************************)
EXTENDS Agent, SequenceTheorems, FiniteSetTheorems, TLAPS

(* What a step does to the tables.                                         *)
LEMMA TableSteps ==
  ASSUME [Next]_vars
  PROVE  \/ \E s \in Stores, q \in requests : Create(s, q) \/ Delete(s, q) \/ InsertMessage(s, q)
         \/ \E s \in Stores : InsertEmbedding(s)
         \/ UNCHANGED tables
<1>1. ASSUME NEW t \in Tasks, TaskStep(t) PROVE UNCHANGED tables
  BY <1>1 DEF TaskStep, Begin, Iterate, Created, Generated, Observed, Recalled, Kept, Replied,
              Stored, rest
<1>2. ASSUME StoreStep
      PROVE  \/ \E s \in Stores, q \in requests : Create(s, q) \/ Delete(s, q) \/ InsertMessage(s, q)
             \/ \E s \in Stores : InsertEmbedding(s)
             \/ UNCHANGED tables
  BY <1>2 DEF StoreStep, StoreNext, StoreWorks, TakeRequest, GetHistory, Touch, Die, Refuse
<1>3. Stop \/ (\E q \in requests : ModelAnswers(q) \/ ToolAnswers(q)) => UNCHANGED tables
  BY DEF Stop, ModelAnswers, ToolAnswers, rest
<1>4. UNCHANGED vars => UNCHANGED tables
  BY DEF vars, storeVars, tables
<1> QED
  BY <1>1, <1>2, <1>3, <1>4 DEF Next

(* Every message is in a conversation that exists and every embedding      *)
(* belongs to a message, whatever the stores of any number of sessions do  *)
(* between each other's statements and wherever one of them dies: the      *)
(* foreign keys alone keep it (append_message, delete_conversation).       *)
THEOREM RowsHaveTheirParents == Spec => []NoOrphans
<1>1. Init => NoOrphans
  BY DEF Init, StoreInit, NoOrphans, IdsOf
<1>2. NoOrphans /\ [Next]_vars => NoOrphans'
  <2> SUFFICES ASSUME NoOrphans, [Next]_vars PROVE NoOrphans'
    OBVIOUS
  <2>1. ASSUME NEW s \in Stores, NEW q \in requests, Create(s, q) PROVE NoOrphans'
    BY <2>1 DEF Create, NoOrphans, IdsOf, tables
  <2>2. ASSUME NEW s \in Stores, NEW q \in requests, Delete(s, q) PROVE NoOrphans'
    BY <2>2 DEF Delete, Cascade, ForeignKeys, NoOrphans, IdsOf, tables
  <2>3. ASSUME NEW s \in Stores, NEW q \in requests, InsertMessage(s, q) PROVE NoOrphans'
    <3>1. CASE Insert(s, q)
      <4>1. /\ Row(q).conversation \in conversations
            /\ messages' = messages \cup {Row(q)}
            /\ UNCHANGED <<conversations, embeddings>>
        BY <2>3, <3>1 DEF InsertMessage, Insert, CanInsert, ForeignKeys
      <4> QED
        BY <4>1 DEF NoOrphans, IdsOf
    <3>2. CASE UNCHANGED messages
      BY <2>3, <3>2 DEF InsertMessage, NoOrphans, IdsOf
    <3> QED
      BY <2>3, <3>1, <3>2 DEF InsertMessage
  <2>4. ASSUME NEW s \in Stores, InsertEmbedding(s) PROVE NoOrphans'
    BY <2>4 DEF InsertEmbedding, CanEmbed, ForeignKeys, NoOrphans, IdsOf
  <2>5. CASE UNCHANGED tables
    BY <2>5 DEF tables, NoOrphans, IdsOf
  <2> QED
    BY <2>1, <2>2, <2>3, <2>4, <2>5, TableSteps
<1> QED
  BY <1>1, <1>2, PTL DEF Spec

(* A stored message is neither changed nor removed while its conversation  *)
(* exists, for any requests of any callers, those with an id that is taken *)
(* included.                                                               *)
THEOREM StoredRowsStay == Spec => StoredStays
<1>1. [Next]_vars => \A row \in messages : row.conversation \in conversations' => row \in messages'
  <2> SUFFICES ASSUME [Next]_vars, NEW row \in messages, row.conversation \in conversations'
               PROVE  row \in messages'
    OBVIOUS
  <2>1. ASSUME NEW s \in Stores, NEW q \in requests, Create(s, q) PROVE row \in messages'
    BY <2>1 DEF Create
  <2>2. ASSUME NEW s \in Stores, NEW q \in requests, Delete(s, q) PROVE row \in messages'
    BY <2>2 DEF Delete, Cascade, ForeignKeys, tables
  <2>3. ASSUME NEW s \in Stores, NEW q \in requests, InsertMessage(s, q) PROVE row \in messages'
    BY <2>3 DEF InsertMessage, Insert
  <2>4. ASSUME NEW s \in Stores, InsertEmbedding(s) PROVE row \in messages'
    BY <2>4 DEF InsertEmbedding
  <2>5. CASE UNCHANGED tables
    BY <2>5 DEF tables
  <2> QED
    BY <2>1, <2>2, <2>3, <2>4, <2>5, TableSteps
<1> QED
  BY <1>1, PTL DEF Spec, StoredStays

-----------------------------------------------------------------------------
(* Where the tasks are.                                                    *)

Places == Waiting \cup {"idle", "looping", "done", "lost"}
Outcomes == {"none", "completed", "max_steps_reached", "answered", "failed"}

PlaceInv ==
  /\ pc \in [Tasks -> Places]
  /\ step \in [Tasks -> Nat]
  /\ outcome \in [Tasks -> Outcomes]
  /\ limit \in [Goals -> Nat \ {0}]

LEMMA LimitsClamped ==
  ASSUME NEW n \in Nat
  PROVE  Clamp(n, 1, MaxIterations) \in Nat \ {0}
BY AgentAssumption DEF Clamp

(* The places a task goes to, by what it does.                             *)
LEMMA PlacesMove ==
  ASSUME NEW t \in Tasks, TaskStep(t), PlaceInv
  PROVE  /\ \E place \in Places : pc' = [pc EXCEPT ![t] = place]
         /\ step' = step \/ (t \in Tasks /\ step' = [step EXCEPT ![t] = step[t] + 1])
         /\ outcome' = outcome \/ \E how \in Outcomes : outcome' = [outcome EXCEPT ![t] = how]
         /\ limit' = limit
<1>1. CASE Begin(t)
  BY <1>1 DEF Begin, Places, Waiting
<1>2. CASE Iterate(t)
  BY <1>2 DEF Iterate, Places, Waiting, Outcome, Outcomes
<1>3. ASSUME NEW r \in replies, Created(t, r) PROVE \E place \in Places : pc' = [pc EXCEPT ![t] = place]
  BY <1>3 DEF Created, GoOn, Resume, Places, Waiting
<1>4. ASSUME NEW r \in replies, Created(t, r) PROVE UNCHANGED <<step, outcome, limit>>
  BY <1>4 DEF Created
<1>5. ASSUME NEW r \in replies, Generated(t, r)
      PROVE  /\ \E place \in Places : pc' = [pc EXCEPT ![t] = place]
             /\ outcome' = outcome \/ \E how \in Outcomes : outcome' = [outcome EXCEPT ![t] = how]
             /\ UNCHANGED <<step, limit>>
  BY <1>5 DEF Generated, FinalAnswer, Acts, Concludes, GoOn, Resume, Outcome, Places, Waiting,
              Outcomes
<1>6. ASSUME NEW r \in replies, Observed(t, r)
      PROVE  /\ \E place \in Places : pc' = [pc EXCEPT ![t] = place]
             /\ step' = [step EXCEPT ![t] = step[t] + 1]
             /\ UNCHANGED <<outcome, limit>>
  BY <1>6 DEF Observed, NextStep, Resume, Places, Waiting
<1>7. ASSUME NEW r \in replies, Recalled(t, r) \/ Kept(t, r) \/ Stored(t, r)
      PROVE  /\ \E place \in Places : pc' = [pc EXCEPT ![t] = place]
             /\ UNCHANGED <<step, outcome, limit>>
  BY <1>7 DEF Recalled, Kept, Stored, GoOn, Resume, Places, Waiting
<1>8. ASSUME NEW r \in replies, Replied(t, r)
      PROVE  /\ \E place \in Places : pc' = [pc EXCEPT ![t] = place]
             /\ \E how \in Outcomes : outcome' = [outcome EXCEPT ![t] = how]
             /\ UNCHANGED <<step, limit>>
  BY <1>8 DEF Replied, GoOn, Resume, Outcome, Places, Waiting, Outcomes
<1> QED
  BY <1>1, <1>2, <1>3, <1>4, <1>5, <1>6, <1>7, <1>8 DEF TaskStep, Begin, Iterate, Outcome, Outcomes

(* What the steps of the others change for the tasks: nothing but, when    *)
(* the plugin stops, where they are.                                       *)
LEMMA OtherSteps ==
  ASSUME [Next]_vars
  PROVE  \/ \E t \in Tasks : TaskStep(t)
         \/ Stop
         \/ StoreStep
         \/ \E q \in requests : ModelAnswers(q) \/ ToolAnswers(q)
         \/ UNCHANGED vars
BY DEF Next

LEMMA PlacesKept == PlaceInv /\ [Next]_vars => PlaceInv'
<1> SUFFICES ASSUME PlaceInv, [Next]_vars PROVE PlaceInv'
  OBVIOUS
<1>1. ASSUME NEW t \in Tasks, TaskStep(t) PROVE PlaceInv'
  BY <1>1, PlacesMove DEF PlaceInv
<1>2. CASE Stop
  BY <1>2 DEF Stop, PlaceInv, Places
<1>3. StoreStep \/ (\E q \in requests : ModelAnswers(q) \/ ToolAnswers(q)) \/ UNCHANGED vars
        => UNCHANGED agentVars
  BY DEF StoreStep, ModelAnswers, ToolAnswers, vars
<1>4. CASE UNCHANGED agentVars
  BY <1>4 DEF agentVars, PlaceInv
<1> QED
  BY <1>1, <1>2, <1>3, <1>4, OtherSteps

LEMMA PlacesHold == Spec => []PlaceInv
<1>1. Init => PlaceInv
  <2> SUFFICES ASSUME Init PROVE PlaceInv
    OBVIOUS
  <2>1. {Clamp(n, 1, MaxIterations) : n \in MaxSteps} \subseteq Nat \ {0}
    BY LimitsClamped, AgentAssumption
  <2>2. limit \in [Goals -> Nat \ {0}]
    BY <2>1 DEF Init
  <2> QED
    BY <2>2 DEF Init, PlaceInv, Places, Outcomes
<1> QED
  BY <1>1, PlacesKept, PTL DEF Spec

-----------------------------------------------------------------------------
(* Calls and their answers.                                                *)

Ops == {"conversation_create", "message_get_history", "message_append", "generate", "tool"}
Abouts == [task : Tasks, step : Nat, op : Ops]

(* A request or an answer whose id somebody still waits for is about what  *)
(* that task asked where it stands.                                        *)
OwnCall(id, about) ==
  /\ id \in Nat /\ id < nextId
  /\ id \in DOMAIN pending =>
       /\ about \in Abouts
       /\ about.task = pending[id]
       /\ about.step = step[pending[id]]
       /\ pc[pending[id]] = "acting" => about.op = "tool"
       /\ pc[pending[id]] = "generating" => about.op = "generate"

(* An id is waited for by one task, and a task waits for one id.           *)
PendingInv ==
  /\ nextId \in Nat
  /\ \A i \in DOMAIN pending :
       i \in Nat /\ i < nextId /\ pending[i] \in Tasks /\ pc[pending[i]] \in Waiting
  /\ \A i, j \in DOMAIN pending : pending[i] = pending[j] => i = j

(* The requests on their way, those a store is in the middle of, and the   *)
(* answers.                                                                *)
TrafficInv ==
  /\ \A q \in requests : q.internal => OwnCall(q.id, q.about)
  /\ serving = [s \in Stores |-> serving[s]]
  /\ \A s \in Stores : serving[s] # Idle =>
       LET q == serving[s].request
       IN /\ serving[s] = Job(q, serving[s].stage)
          /\ q.internal => OwnCall(q.id, q.about)
  /\ \A r \in replies : OwnCall(r.id, r.about)

CallInv == PendingInv /\ TrafficInv /\ NoCallIsLost

(* A step outside the orchestrator answers what was asked, or has it in    *)
(* hand.                                                                   *)
Answers(q) ==
  /\ replies \subseteq replies'
  /\ \A r \in replies' : r \in replies \/ (q.internal /\ r.id = q.id /\ r.about = q.about)

Answered(q) == q.internal => \E r \in replies' : r.id = q.id

InHand(s, q) == \E stage \in {"embed", "touch"} : serving'[s] = Job(q, stage)

LEMMA SendAnswers ==
  ASSUME NEW q, NEW ok, NEW body, Send(q, ok, body)
  PROVE  Answers(q) /\ Answered(q)
<1>1. CASE q.internal
  <2>1. replies' = replies \cup {Reply(q, ok, body)}
    BY <1>1 DEF Send
  <2>2. Reply(q, ok, body).id = q.id /\ Reply(q, ok, body).about = q.about
    BY DEF Reply
  <2> QED
    BY <1>1, <2>1, <2>2 DEF Answers, Answered
<1>2. CASE ~q.internal
  BY <1>2 DEF Send, Answers, Answered
<1> QED
  BY <1>1, <1>2

(* A store that has a request in hand is not idle.                         *)
LEMMA JobsAreNotIdle ==
  ASSUME NEW q, NEW stage \in {"embed", "touch"}
  PROVE  Job(q, stage) # Idle /\ Job(q, stage).request = q
BY DEF Job, Idle

LEMMA OutsideKeepsWays ==
  ASSUME NEW q, Answers(q), requests \ {q} \subseteq requests',
         Answered(q) \/ \E s \in Stores : InHand(s, q),
         \A s \in Stores :
           \/ serving'[s] = serving[s]
           \/ serving[s] = Idle
           \/ serving[s].request = q,
         NEW i, OnItsWay(i)
  PROVE  OnItsWay(i)'
<1>1. q.internal /\ q.id = i => OnItsWay(i)'
  <2>1. CASE Answered(q)
    BY <2>1 DEF Answered, OnItsWay
  <2>2. ASSUME NEW s \in Stores, InHand(s, q) PROVE serving'[s] # Idle /\ serving'[s].request = q
    BY <2>2, JobsAreNotIdle DEF InHand
  <2> QED
    BY <2>1, <2>2 DEF OnItsWay
<1>2. CASE \E m \in requests : m.internal /\ m.id = i
  BY <1>1, <1>2 DEF OnItsWay
<1>3. CASE \E r \in replies : r.id = i
  BY <1>3 DEF OnItsWay, Answers
<1>4. ASSUME NEW s \in Stores, serving[s] # Idle, serving[s].request.internal,
             serving[s].request.id = i
      PROVE  OnItsWay(i)'
  BY <1>1, <1>4 DEF OnItsWay
<1> QED
  BY <1>2, <1>3, <1>4 DEF OnItsWay

LEMMA OutsideKeepsCalls ==
  ASSUME CallInv, UNCHANGED agentVars,
         NEW q, Answers(q), q.internal => OwnCall(q.id, q.about),
         requests' \subseteq requests, requests \ {q} \subseteq requests',
         Answered(q) \/ \E s \in Stores : InHand(s, q),
         serving' = [s \in Stores |-> serving'[s]],
         \A s \in Stores :
           \/ serving'[s] = serving[s]
           \/ /\ serving[s] = Idle \/ serving[s].request = q
              /\ serving'[s] = Idle \/ InHand(s, q)
  PROVE  CallInv'
<1>1. \A id, about : OwnCall(id, about)' <=> OwnCall(id, about)
  BY DEF agentVars, OwnCall
<1>2. PendingInv'
  BY DEF agentVars, CallInv, PendingInv
<1>3. \A r \in replies' : OwnCall(r.id, r.about)
  BY DEF CallInv, TrafficInv, Answers
<1>4. ASSUME NEW s \in Stores, serving'[s] # Idle
      PROVE  LET own == serving'[s].request
             IN /\ serving'[s] = Job(own, serving'[s].stage)
                /\ own.internal => OwnCall(own.id, own.about)
  <2>1. CASE serving'[s] = serving[s]
    BY <1>4, <2>1 DEF CallInv, TrafficInv
  <2>2. CASE InHand(s, q)
    BY <2>2 DEF InHand, Job
  <2> QED
    BY <1>4, <2>1, <2>2
<1>5. \A m \in requests' : m.internal => OwnCall(m.id, m.about)
  BY DEF CallInv, TrafficInv
<1>6. NoCallIsLost'
  <2>1. \A i : OnItsWay(i) => OnItsWay(i)'
    BY OutsideKeepsWays
  <2> QED
    BY <2>1 DEF agentVars, CallInv, NoCallIsLost
<1> QED
  BY <1>1, <1>2, <1>3, <1>4, <1>5, <1>6 DEF CallInv, TrafficInv

(* No request is internal that no task made.                               *)
LEMMA QuietKeepsCalls ==
  ASSUME CallInv, UNCHANGED <<agentVars, storeVars>>
  PROVE  CallInv'
BY DEF agentVars, storeVars, CallInv, PendingInv, TrafficInv, OwnCall, NoCallIsLost, OnItsWay

LEMMA StoreKeepsCalls ==
  ASSUME CallInv, StoreNext, UNCHANGED agentVars
  PROVE  CallInv'
<1>0. /\ serving = [s \in Stores |-> serving[s]]
      /\ \A q \in requests : q.internal => OwnCall(q.id, q.about)
  BY DEF CallInv, TrafficInv
<1>1. ASSUME NEW q \in requests, NEW ok, NEW body, Send(q, ok, body),
             requests' = requests \ {q}, UNCHANGED serving
      PROVE  CallInv'
  <2>1. Answers(q) /\ Answered(q)
    BY <1>1, SendAnswers
  <2>2. serving' = [s \in Stores |-> serving'[s]]
    BY <1>0, <1>1
  <2> QED
    BY <1>0, <1>1, <2>1, <2>2, OutsideKeepsCalls
<1>2. ASSUME NEW s \in Stores, NEW q \in requests, Create(s, q) PROVE CallInv'
  BY <1>1, <1>2 DEF Create, Served
<1>3. ASSUME NEW s \in Stores, NEW q \in requests, Delete(s, q) PROVE CallInv'
  BY <1>1, <1>3 DEF Delete, Served
<1>4. ASSUME NEW s \in Stores, NEW q \in requests, GetHistory(s, q) PROVE CallInv'
  BY <1>1, <1>4 DEF GetHistory, Served
<1>5. ASSUME NEW q \in requests, Refuse(q) PROVE CallInv'
  BY <1>1, <1>5 DEF Refuse
<1>6. ASSUME NEW s \in Stores, NEW q \in requests, InsertMessage(s, q) PROVE CallInv'
  <2>1. CASE Send(q, FALSE, {}) /\ UNCHANGED serving
    BY <1>1, <1>6, <2>1 DEF InsertMessage
  <2>2. CASE Insert(s, q)
    <3>1. PICK stage \in {"embed", "touch"} : serving' = [serving EXCEPT ![s] = Job(q, stage)]
      BY <2>2 DEF Insert
    <3>2. Answers(q)
      BY <2>2 DEF Insert, Answers
    <3>3. /\ serving' = [u \in Stores |-> serving'[u]] /\ InHand(s, q)
          /\ \A u \in Stores \ {s} : serving'[u] = serving[u]
      BY <1>0, <3>1 DEF InHand
    <3>4. requests' = requests \ {q} /\ serving[s] = Idle
      BY <1>6 DEF InsertMessage
    <3> QED
      BY <1>0, <3>2, <3>3, <3>4, OutsideKeepsCalls
  <2> QED
    BY <1>6, <2>1, <2>2 DEF InsertMessage
<1>7. ASSUME NEW s \in Stores, serving[s] # Idle, NEW ok, NEW body,
             \/ /\ Send(serving[s].request, ok, body)
                /\ serving' = [serving EXCEPT ![s] = Idle]
             \/ /\ UNCHANGED replies
                /\ serving' = [serving EXCEPT ![s].stage = "touch"],
             UNCHANGED requests
      PROVE  CallInv'
  <2> DEFINE q == serving[s].request
  <2>1. /\ serving[s] = Job(q, serving[s].stage)
        /\ q.internal => OwnCall(q.id, q.about)
    BY <1>7 DEF CallInv, TrafficInv
  <2>2. Answers(q)
    BY <1>7, SendAnswers DEF Answers
  <2>3. /\ serving' = [u \in Stores |-> serving'[u]]
        /\ \A u \in Stores \ {s} : serving'[u] = serving[u]
        /\ (serving'[s] = Idle /\ Answered(q)) \/ InHand(s, q)
    <3>1. CASE Send(q, ok, body) /\ serving' = [serving EXCEPT ![s] = Idle]
      <4>1. Answered(q)
        BY <3>1, SendAnswers
      <4> HIDE DEF q
      <4> QED
        BY <1>0, <3>1, <4>1
    <3>2. CASE serving' = [serving EXCEPT ![s].stage = "touch"]
      <4> HIDE DEF q
      <4>1. serving'[s] = [serving[s] EXCEPT !.stage = "touch"]
        BY <1>0, <3>2
      <4>2. serving'[s] = Job(q, "touch")
        BY <2>1, <4>1 DEF Job
      <4> QED
        BY <1>0, <3>2, <4>2 DEF InHand
    <3> QED
      BY <1>7, <3>1, <3>2
  <2>4. serving[s].request = q
    OBVIOUS
  <2> HIDE DEF q
  <2> QED
    BY <1>7, <2>1, <2>2, <2>3, <2>4, OutsideKeepsCalls
<1>8. ASSUME NEW s \in Stores, InsertEmbedding(s) PROVE CallInv'
  BY <1>7, <1>8 DEF InsertEmbedding, EmbedFails
<1>9. ASSUME NEW s \in Stores, Touch(s) PROVE CallInv'
  BY <1>7, <1>9 DEF Touch
<1>10. ASSUME NEW s \in Stores, Die(s) PROVE CallInv'
  <2>1. CASE serving[s] # Idle
    BY <1>7, <1>10, <2>1 DEF Die
  <2>2. CASE serving[s] = Idle
    <3>1. serving' = serving /\ UNCHANGED <<requests, replies>>
      BY <1>0, <1>10, <2>2 DEF Die
    <3> QED
      BY <3>1 DEF CallInv, PendingInv, TrafficInv, OwnCall, NoCallIsLost, OnItsWay, agentVars
  <2> QED
    BY <2>1, <2>2
<1> QED
  BY <1>2, <1>3, <1>4, <1>5, <1>6, <1>8, <1>9, <1>10 DEF StoreNext, StoreWorks, TakeRequest

LEMMA OutsiderKeepsCalls ==
  ASSUME CallInv, NEW q \in requests, ModelAnswers(q) \/ ToolAnswers(q)
  PROVE  CallInv'
<1>1. /\ \E ok, body : Send(q, ok, body)
      /\ requests' = requests \ {q}
      /\ UNCHANGED <<serving, agentVars>>
  BY DEF ModelAnswers, ToolAnswers
<1>2. Answers(q) /\ Answered(q)
  BY <1>1, SendAnswers
<1>3. /\ serving = [s \in Stores |-> serving[s]]
      /\ q.internal => OwnCall(q.id, q.about)
  BY DEF CallInv, TrafficInv
<1>4. serving' = [s \in Stores |-> serving'[s]]
  BY <1>1, <1>3
<1> QED
  BY <1>1, <1>2, <1>3, <1>4, OutsideKeepsCalls

LEMMA StopKeepsCalls ==
  ASSUME CallInv, Stop
  PROVE  CallInv'
<1>1. DOMAIN pending' = {} /\ replies' = {} /\ requests' = {q \in requests : ~q.internal}
      /\ UNCHANGED <<serving, nextId>>
  BY DEF Stop, rest
<1>2. \A id, about : OwnCall(id, about) => OwnCall(id, about)'
  BY <1>1 DEF OwnCall
<1>3. PendingInv'
  BY <1>1 DEF CallInv, PendingInv
<1>4. NoCallIsLost'
  <2>1. \A t \in Tasks : pc'[t] \notin Waiting
    BY DEF Stop, CallInv, NoCallIsLost, Waiting
  <2> QED
    BY <1>1, <2>1 DEF NoCallIsLost
<1> QED
  BY <1>1, <1>2, <1>3, <1>4 DEF CallInv, TrafficInv

(* A step of a task: it no longer waits for an answer, or for a new one.   *)
LEMMA TaskKeepsCalls ==
  ASSUME CallInv, PlaceInv, NEW t \in Tasks, NEW left, NEW next \in Places,
         NEW op \in Ops, NEW content,
         \A i \in DOMAIN left : i \in DOMAIN pending /\ left[i] = pending[i] /\ left[i] # t,
         \A i \in DOMAIN pending : pending[i] # t => i \in DOMAIN left,
         pc' = [pc EXCEPT ![t] = next],
         \A u \in Tasks \ {t} : step'[u] = step[u],
         UNCHANGED serving, replies' \subseteq replies,
         \A r \in replies : r.id \in DOMAIN left => r \in replies',
         \/ /\ pending' = left
            /\ UNCHANGED <<nextId, requests>>
            /\ next \notin Waiting
         \/ /\ Invoke(t, left, op, content)
            /\ step' = step
            /\ next \in Waiting
            /\ next = "acting" => op = "tool"
            /\ next = "generating" => op = "generate"
  PROVE  CallInv'
<1>0. /\ PendingInv /\ TrafficInv /\ nextId \in Nat /\ nextId' \in Nat /\ nextId <= nextId'
      /\ pc'[t] = next /\ \A u \in Tasks \ {t} : pc'[u] = pc[u]
      /\ step[t] \in Nat
  BY DEF CallInv, PendingInv, PlaceInv, Invoke, FreshId
<1>1. ASSUME NEW i \in DOMAIN left
      PROVE  /\ i \in DOMAIN pending /\ left[i] = pending[i] /\ left[i] \in Tasks \ {t}
             /\ i \in Nat /\ i < nextId /\ i < nextId' /\ i # nextId
  BY <1>0 DEF PendingInv
<1>2. \/ pending' = left
      \/ /\ DOMAIN pending' = DOMAIN left \cup {nextId}
         /\ pending'[nextId] = t
         /\ \A i \in DOMAIN left : pending'[i] = left[i]
         /\ nextId < nextId' /\ next \in Waiting
  BY <1>0, <1>1 DEF Invoke, FreshId
<1>3. PendingInv'
  BY <1>0, <1>1, <1>2 DEF PendingInv
<1>4. ASSUME NEW id, NEW about, OwnCall(id, about)
      PROVE  OwnCall(id, about)'
  <2>1. id \in Nat /\ id < nextId /\ id < nextId' /\ id # nextId
    BY <1>0, <1>4 DEF OwnCall
  <2>2. id \in DOMAIN pending' => /\ id \in DOMAIN pending
                                  /\ pending'[id] = pending[id]
                                  /\ pending[id] \in Tasks \ {t}
    BY <1>1, <1>2, <2>1
  <2> QED
    BY <1>0, <1>4, <2>1, <2>2 DEF OwnCall
<1>5. NoCallIsLost'
  <2>1. ASSUME NEW i \in DOMAIN left PROVE pc'[left[i]] \in Waiting /\ OnItsWay(i)'
    <3>1. pc[left[i]] \in Waiting /\ OnItsWay(i) /\ left[i] \in Tasks \ {t}
      BY <1>1, <2>1 DEF CallInv, NoCallIsLost
    <3>2. requests \subseteq requests'
      BY DEF Invoke
    <3> QED
      BY <1>0, <2>1, <3>1, <3>2 DEF OnItsWay
  <2>2. ASSUME NEW u \in Tasks \ {t}, pc'[u] \in Waiting PROVE \E i \in DOMAIN left : left[i] = u
    BY <1>0, <2>2 DEF CallInv, NoCallIsLost
  <2>3. CASE pending' = left /\ next \notin Waiting
    BY <1>0, <2>1, <2>2, <2>3 DEF NoCallIsLost
  <2>4. CASE Invoke(t, left, op, content) /\ next \in Waiting
    <3> PICK id : id = nextId
      OBVIOUS
    <3>1. OnItsWay(id)'
      <4>1. Request(t, op, content) \in requests'
        BY <2>4 DEF Invoke
      <4>2. Request(t, op, content).internal /\ Request(t, op, content).id = id
        BY DEF Request
      <4> QED
        BY <4>1, <4>2 DEF OnItsWay
    <3>2. /\ DOMAIN pending' = DOMAIN left \cup {id} /\ pending'[id] = t
          /\ \A i \in DOMAIN left : pending'[i] = left[i]
      BY <1>1, <2>4 DEF Invoke
    <3> QED
      BY <1>0, <2>1, <2>2, <2>4, <3>1, <3>2 DEF NoCallIsLost
  <2> QED
    BY <2>3, <2>4
<1>6. CASE UNCHANGED requests
  BY <1>0, <1>3, <1>4, <1>5, <1>6 DEF CallInv, TrafficInv
<1>7. CASE /\ Invoke(t, left, op, content)
           /\ step' = step
           /\ next = "acting" => op = "tool"
           /\ next = "generating" => op = "generate"
  <2>1. PICK new : new = Request(t, op, content)
    OBVIOUS
  <2>2. PICK about : about = About(t, op)
    OBVIOUS
  <2>3. new.id = nextId /\ new.about = about
    BY <2>1, <2>2 DEF Request
  <2>4. /\ about \in Abouts /\ about.task = t
        /\ about.step = step[t] /\ about.op = op
    BY <1>0, <2>2 DEF About, Abouts
  <2>5. pending'[nextId] = t /\ nextId < nextId'
    BY <1>0, <1>7 DEF Invoke, FreshId
  <2>6. PICK id : id = nextId
    OBVIOUS
  <2>7. OwnCall(id, about)'
    BY <1>0, <1>7, <2>4, <2>5, <2>6 DEF OwnCall
  <2>8. requests' = requests \cup {new}
    BY <1>7, <2>1 DEF Invoke
  <2>9. \A q \in requests' : q.internal => OwnCall(q.id, q.about)'
    BY <1>0, <1>4, <2>3, <2>6, <2>7, <2>8 DEF TrafficInv
  <2>10. \A r \in replies' : OwnCall(r.id, r.about)'
    BY <1>0, <1>4 DEF TrafficInv
  <2>11. ASSUME NEW u \in Stores, serving'[u] # Idle
         PROVE  /\ serving'[u] = Job(serving'[u].request, serving'[u].stage)
                /\ serving'[u].request.internal =>
                     OwnCall(serving[u].request.id, serving[u].request.about)'
    <3>1. PICK q : q = serving[u].request
      OBVIOUS
    <3>2. /\ serving[u] = Job(q, serving[u].stage)
          /\ q.internal => OwnCall(q.id, q.about)
      BY <1>0, <2>11, <3>1 DEF TrafficInv
    <3>3. q.internal => OwnCall(q.id, q.about)'
      BY <1>4, <3>2
    <3>4. serving' = serving
      OBVIOUS
    <3> QED
      BY <3>1, <3>2, <3>3, <3>4
  <2>12. serving' = [u \in Stores |-> serving'[u]]
    BY <1>0 DEF TrafficInv
  <2>13. TrafficInv'
    BY <2>9, <2>10, <2>11, <2>12 DEF TrafficInv
  <2> QED
    BY <1>3, <1>5, <2>13 DEF CallInv
<1> QED
  BY <1>6, <1>7

(* The task that is woken waits for nothing else, and the answer is about  *)
(* what it asked.                                                          *)
LEMMA WokenByItsOwn ==
  ASSUME CallInv, NEW t \in Tasks, NEW r \in replies, Woken(t, r)
  PROVE  /\ \A i \in DOMAIN Without(r) :
              i \in DOMAIN pending /\ Without(r)[i] = pending[i] /\ Without(r)[i] # t
         /\ \A i \in DOMAIN pending : pending[i] # t => i \in DOMAIN Without(r)
         /\ replies' \subseteq replies
         /\ \A a \in replies : a.id \in DOMAIN Without(r) => a \in replies'
         /\ r.about \in Abouts
         /\ r.about.task = t
         /\ r.about.step = step[t]
         /\ pc[t] = "acting" => r.about.op = "tool"
         /\ pc[t] = "generating" => r.about.op = "generate"
BY DEF CallInv, PendingInv, TrafficInv, OwnCall, Woken, Without

LEMMA GoingOn ==
  ASSUME CallInv, PlaceInv, NEW t \in Tasks, NEW r \in replies, Woken(t, r),
         NEW next \in Waiting, NEW op \in Ops, NEW content, GoOn(t, r, next, op, content),
         UNCHANGED <<serving, step>>,
         next = "acting" => op = "tool",
         next = "generating" => op = "generate"
  PROVE  CallInv'
<1>1. pc' = [pc EXCEPT ![t] = next] /\ Invoke(t, Without(r), op, content)
  BY DEF GoOn
<1>2. next \in Places
  BY DEF Places
<1>3. PICK left : left = Without(r)
  OBVIOUS
<1>4. /\ \A i \in DOMAIN left : i \in DOMAIN pending /\ left[i] = pending[i] /\ left[i] # t
      /\ \A i \in DOMAIN pending : pending[i] # t => i \in DOMAIN left
      /\ replies' \subseteq replies
      /\ \A a \in replies : a.id \in DOMAIN left => a \in replies'
  BY <1>3, WokenByItsOwn
<1>5. Invoke(t, left, op, content)
  BY <1>1, <1>3
<1>6. \A u \in Tasks \ {t} : step'[u] = step[u]
  OBVIOUS
<1> QED
  BY <1>1, <1>2, <1>4, <1>5, <1>6, TaskKeepsCalls

LEMMA Resuming ==
  ASSUME CallInv, PlaceInv, NEW t \in Tasks, NEW r \in replies, Woken(t, r),
         NEW next \in Places \ Waiting, Resume(t, r, next), UNCHANGED serving,
         \A u \in Tasks \ {t} : step'[u] = step[u]
  PROVE  CallInv'
<1>1. pc' = [pc EXCEPT ![t] = next] /\ pending' = Without(r) /\ UNCHANGED <<nextId, requests>>
  BY DEF Resume
<1>2. PICK left : left = Without(r)
  OBVIOUS
<1>3. /\ \A i \in DOMAIN left : i \in DOMAIN pending /\ left[i] = pending[i] /\ left[i] # t
      /\ \A i \in DOMAIN pending : pending[i] # t => i \in DOMAIN left
      /\ replies' \subseteq replies
      /\ \A a \in replies : a.id \in DOMAIN left => a \in replies'
  BY <1>2, WokenByItsOwn
<1>4. "tool" \in Ops
  BY DEF Ops
<1> QED
  BY <1>1, <1>2, <1>3, <1>4, TaskKeepsCalls, ZenonT(30)

LEMMA Starting ==
  ASSUME CallInv, PlaceInv, NEW t \in Tasks, Begin(t) \/ Iterate(t)
  PROVE  CallInv'
<1>1. /\ pc[t] \in {"idle", "looping"}
      /\ UNCHANGED <<serving, step, replies>>
  BY DEF Begin, Iterate, rest
<1>2. PICK left : left = pending
  OBVIOUS
<1>3. /\ \A i \in DOMAIN left : i \in DOMAIN pending /\ left[i] = pending[i] /\ left[i] # t
      /\ \A i \in DOMAIN pending : i \in DOMAIN left
  BY <1>1, <1>2 DEF CallInv, PendingInv, Waiting
<1>4. \A u \in Tasks \ {t} : step'[u] = step[u]
  BY <1>1
<1>5. ASSUME NEW next \in Places \ Waiting, pc' = [pc EXCEPT ![t] = next],
             UNCHANGED <<pending, nextId, requests>>
      PROVE  CallInv'
  <2>1. "tool" \in Ops
    BY DEF Ops
  <2> QED
    BY <1>1, <1>2, <1>3, <1>4, <1>5, <2>1, TaskKeepsCalls
<1>6. ASSUME NEW next \in Waiting, NEW op \in Ops, NEW content,
             pc' = [pc EXCEPT ![t] = next], Invoke(t, pending, op, content),
             next # "acting", next = "generating" => op = "generate"
      PROVE  CallInv'
  <2>1. next \in Places /\ Invoke(t, left, op, content)
    BY <1>2, <1>6 DEF Places
  <2> QED
    BY <1>1, <1>3, <1>4, <1>6, <2>1, TaskKeepsCalls
<1>7. CASE Begin(t)
  <2>1. CASE /\ pc' = [pc EXCEPT ![t] = "creating"]
             /\ Invoke(t, pending, "conversation_create", Said(t, "none"))
    BY <1>6, <2>1 DEF Waiting, Ops
  <2>2. CASE pc' = [pc EXCEPT ![t] = "looping"] /\ UNCHANGED <<pending, nextId, requests>>
    BY <1>5, <2>2 DEF Places, Waiting
  <2> QED
    BY <1>7, <2>1, <2>2 DEF Begin
<1>8. CASE Iterate(t)
  <2>1. CASE /\ pc' = [pc EXCEPT ![t] = "generating"]
             /\ Invoke(t, pending, "generate", Said(t, "none"))
    BY <1>6, <2>1 DEF Waiting, Ops
  <2>2. CASE pc' = [pc EXCEPT ![t] = "done"] /\ UNCHANGED <<pending, nextId, requests>>
    BY <1>5, <2>2 DEF Places, Waiting
  <2> QED
    BY <1>8, <2>1, <2>2 DEF Iterate
<1> QED
  BY <1>7, <1>8

LEMMA TaskStepKeepsCalls ==
  ASSUME CallInv, PlaceInv, NEW t \in Tasks, TaskStep(t)
  PROVE  CallInv'
<1>0. /\ {"looping", "done"} \subseteq Places \ Waiting
      /\ {"recalling", "keeping", "generating", "acting", "storing"} \subseteq Waiting
      /\ {"message_get_history", "message_append", "generate", "tool"} \subseteq Ops
  BY DEF Places, Waiting, Ops
<1>1. CASE Begin(t) \/ Iterate(t)
  BY <1>1, Starting
<1>2. ASSUME NEW r \in replies, Created(t, r) PROVE CallInv'
  <2>1. UNCHANGED <<serving, step>> /\ Woken(t, r)
    BY <1>2 DEF Created, rest
  <2>2. CASE Resume(t, r, "looping")
    BY <1>0, <2>1, <2>2, Resuming
  <2>3. CASE GoOn(t, r, "recalling", "message_get_history", Said(t, "none"))
    BY <1>0, <2>1, <2>3, GoingOn
  <2> QED
    BY <1>2, <2>2, <2>3 DEF Created
<1>3. ASSUME NEW r \in replies, Generated(t, r) PROVE CallInv'
  <2>1. UNCHANGED <<serving, step>> /\ Woken(t, r)
    BY <1>3 DEF Generated, rest
  <2>2. CASE Resume(t, r, "done")
    BY <1>0, <2>1, <2>2, Resuming
  <2>3. CASE GoOn(t, r, "storing", "message_append", Said(t, "assistant"))
    BY <1>0, <2>1, <2>3, GoingOn
  <2>4. CASE GoOn(t, r, "acting", "tool", Said(t, "none"))
    BY <1>0, <2>1, <2>4, GoingOn
  <2> QED
    BY <1>3, <2>2, <2>3, <2>4 DEF Generated, FinalAnswer, Acts, Concludes
<1>4. ASSUME NEW r \in replies, Observed(t, r) PROVE CallInv'
  <2>1. UNCHANGED serving /\ Woken(t, r) /\ Resume(t, r, "looping")
    BY <1>4 DEF Observed, rest
  <2>2. \A u \in Tasks \ {t} : step'[u] = step[u]
    BY <1>4 DEF Observed, NextStep, PlaceInv
  <2> QED
    BY <1>0, <2>1, <2>2, Resuming
<1>5. ASSUME NEW r \in replies, Recalled(t, r) PROVE CallInv'
  BY <1>0, <1>5, GoingOn DEF Recalled, rest
<1>6. ASSUME NEW r \in replies, Kept(t, r) PROVE CallInv'
  BY <1>0, <1>6, GoingOn DEF Kept, rest
<1>7. ASSUME NEW r \in replies, Replied(t, r) PROVE CallInv'
  <2>1. UNCHANGED <<serving, step>> /\ Woken(t, r)
    BY <1>7 DEF Replied, rest
  <2>2. CASE Resume(t, r, "done")
    BY <1>0, <2>1, <2>2, Resuming
  <2>3. CASE GoOn(t, r, "storing", "message_append", Said(t, "assistant"))
    BY <1>0, <2>1, <2>3, GoingOn
  <2> QED
    BY <1>7, <2>2, <2>3 DEF Replied
<1>8. ASSUME NEW r \in replies, Stored(t, r) PROVE CallInv'
  BY <1>0, <1>8, Resuming DEF Stored, rest
<1> QED
  BY <1>1, <1>2, <1>3, <1>4, <1>5, <1>6, <1>7, <1>8 DEF TaskStep

LEMMA CallsHold == Spec => []CallInv
<1>1. Init => CallInv
  BY AgentAssumption, StoreAssumption DEF Init, StoreInit, CallInv, PendingInv, TrafficInv,
     NoCallIsLost, Waiting
<1>2. CallInv /\ PlaceInv /\ [Next]_vars => CallInv'
  <2> SUFFICES ASSUME CallInv, PlaceInv, [Next]_vars PROVE CallInv'
    OBVIOUS
  <2>1. CASE \E t \in Tasks : TaskStep(t)
    BY <2>1, TaskStepKeepsCalls
  <2>2. CASE Stop
    BY <2>2, StopKeepsCalls
  <2>3. CASE StoreStep
    BY <2>3, StoreKeepsCalls DEF StoreStep
  <2>4. CASE \E q \in requests : ModelAnswers(q) \/ ToolAnswers(q)
    BY <2>4, OutsiderKeepsCalls
  <2>5. CASE UNCHANGED vars
    BY <2>5, QuietKeepsCalls DEF vars
  <2> QED
    BY <2>1, <2>2, <2>3, <2>4, <2>5, OtherSteps
<1> QED
  BY <1>1, <1>2, PlacesHold, PTL DEF Spec

(* A task that waits has its entry in the client's table, and the request, *)
(* or the answer, is somewhere: a store that dies, a refused call and a    *)
(* failed statement leave nobody waiting for nothing.                      *)
THEOREM CallsAreNotLost == Spec => []NoCallIsLost
<1>1. CallInv => NoCallIsLost
  BY DEF CallInv
<1> QED
  BY <1>1, CallsHold, PTL

-----------------------------------------------------------------------------
(* The history of a goal.                                                  *)

Entries == [step : Nat, acted : BOOLEAN, seen : Abouts]

(* What a history of n entries, all but the last of which acted, says of   *)
(* the answers it was made of.                                             *)
OwnHistory(t, h) ==
  \A i \in 1..Len(h) :
    /\ h[i].step = i
    /\ i < Len(h) => h[i].acted
    /\ h[i].seen = [task |-> t, step |-> h[i].step, op |-> IF h[i].acted THEN "tool" ELSE "generate"]

(* While a goal goes on, every entry acted and the step is the next; it is *)
(* within the limit from the call of the model to the observation.         *)
GoalHistory(t) ==
  LET h == history[t]
  IN /\ h \in Seq(Entries)
     /\ OwnHistory(t, h)
     /\ Len(h) <= limit[t]
     /\ outcome[t] \in {"none", "completed", "max_steps_reached"}
     /\ outcome[t] = "none" => step[t] = Len(h) + 1 /\ (Len(h) > 0 => h[Len(h)].acted)
     /\ outcome[t] = "completed" => Len(h) > 0 /\ ~h[Len(h)].acted
     /\ outcome[t] = "max_steps_reached" => Len(h) = limit[t] /\ h[Len(h)].acted
     /\ pc[t] \in {"idle", "creating", "looping", "generating", "acting"} => outcome[t] = "none"
     /\ pc[t] \in {"generating", "acting"} => step[t] <= limit[t]
     /\ pc[t] \notin {"recalling", "keeping"}

HistoryInv ==
  /\ history = [t \in Tasks |-> history[t]]
  /\ \A t \in Goals : GoalHistory(t)

LEMMA Pushed ==
  ASSUME NEW t \in Goals, NEW h \in Seq(Entries), OwnHistory(t, h),
         Len(h) > 0 => h[Len(h)].acted,
         NEW entry \in Entries, entry.step = Len(h) + 1,
         entry.seen = [task |-> t, step |-> entry.step,
                       op |-> IF entry.acted THEN "tool" ELSE "generate"]
  PROVE  /\ Append(h, entry) \in Seq(Entries)
         /\ OwnHistory(t, Append(h, entry))
         /\ Len(Append(h, entry)) = Len(h) + 1
         /\ Append(h, entry)[Len(h) + 1] = entry
<1>1. /\ Append(h, entry) \in Seq(Entries)
      /\ Len(h) \in Nat
      /\ Len(Append(h, entry)) = Len(h) + 1
      /\ Append(h, entry)[Len(h) + 1] = entry
      /\ \A i \in 1..Len(h) : Append(h, entry)[i] = h[i]
  OBVIOUS
<1>2. ASSUME NEW i \in 1..Len(h) + 1
      PROVE  /\ Append(h, entry)[i].step = i
             /\ i < Len(h) + 1 => Append(h, entry)[i].acted
             /\ Append(h, entry)[i].seen =
                  [task |-> t, step |-> Append(h, entry)[i].step,
                   op |-> IF Append(h, entry)[i].acted THEN "tool" ELSE "generate"]
  <2>1. CASE i = Len(h) + 1
    BY <1>1, <2>1
  <2>2. CASE i \in 1..Len(h)
    <3>1. h[i].acted
      <4>1. CASE i = Len(h)
        BY <1>1, <2>2, <4>1
      <4>2. CASE i < Len(h)
        BY <2>2, <4>2 DEF OwnHistory
      <4> QED
        BY <1>1, <2>2, <4>1, <4>2
    <3> QED
      BY <1>1, <2>2, <3>1 DEF OwnHistory
  <2> QED
    BY <1>1, <2>1, <2>2
<1> QED
  BY <1>1, <1>2 DEF OwnHistory

(* The entry a goal pushes, of an answer to its own call.                  *)
LEMMA EntryOfItsOwn ==
  ASSUME CallInv, PlaceInv, HistoryInv, NEW t \in Goals, NEW r \in replies, Woken(t, r),
         NEW acted \in BOOLEAN, Push(t, acted, r.about),
         pc[t] = IF acted THEN "acting" ELSE "generating"
  PROVE  /\ history'[t] \in Seq(Entries)
         /\ OwnHistory(t, history'[t])
         /\ Len(history'[t]) = step[t]
         /\ step[t] = Len(history[t]) + 1
         /\ step[t] \in Nat /\ step[t] <= limit[t]
         /\ history'[t][step[t]].acted = acted
         /\ history' = [u \in Tasks |-> history'[u]]
         /\ \A u \in Tasks \ {t} : history'[u] = history[u]
<1> DEFINE h == history[t]
           entry == [step |-> step[t], acted |-> acted, seen |-> r.about]
<1>1. /\ GoalHistory(t) /\ t \in Tasks /\ step[t] \in Nat
      /\ history = [u \in Tasks |-> history[u]]
  BY DEF HistoryInv, PlaceInv, Tasks
<1>2. /\ h \in Seq(Entries) /\ OwnHistory(t, h)
      /\ step[t] = Len(h) + 1 /\ (Len(h) > 0 => h[Len(h)].acted)
      /\ step[t] <= limit[t]
  BY <1>1 DEF GoalHistory
<1>3. /\ r.about \in Abouts /\ r.about.task = t /\ r.about.step = step[t]
      /\ r.about.op = IF acted THEN "tool" ELSE "generate"
  BY <1>1, WokenByItsOwn
<1>4. r.about = [task |-> t, step |-> step[t], op |-> IF acted THEN "tool" ELSE "generate"]
  BY <1>3 DEF Abouts
<1>5. entry \in Entries
  BY <1>1, <1>3 DEF Entries
<1>6. history' = [history EXCEPT ![t] = Append(h, entry)]
  BY DEF Push
<1>7. /\ history'[t] = Append(h, entry)
      /\ history' = [u \in Tasks |-> history'[u]]
      /\ \A u \in Tasks \ {t} : history'[u] = history[u]
  BY <1>1, <1>6
<1>8. entry.step = step[t] /\ entry.acted = acted /\ entry.seen = r.about
  OBVIOUS
<1> HIDE DEF h, entry
<1>9. /\ Append(h, entry) \in Seq(Entries)
      /\ OwnHistory(t, Append(h, entry))
      /\ Len(Append(h, entry)) = Len(h) + 1
      /\ Append(h, entry)[Len(h) + 1] = entry
  <2>1. PICK one \in Entries : one = entry
    BY <1>5
  <2>2. one.seen = [task |-> t, step |-> one.step, op |-> IF one.acted THEN "tool" ELSE "generate"]
    BY <1>4, <1>8, <2>1
  <2>3. one.step = Len(h) + 1 /\ h \in Seq(Entries) /\ OwnHistory(t, h)
        /\ (Len(h) > 0 => h[Len(h)].acted)
    BY <1>2, <1>8, <2>1
  <2> QED
    BY <2>1, <2>2, <2>3, Pushed
<1>10. PICK longer \in Seq(Entries) : longer = Append(h, entry)
  BY <1>9
<1>11. /\ history'[t] = longer /\ OwnHistory(t, longer) /\ Len(longer) = step[t]
       /\ longer[step[t]].acted = acted
  BY <1>2, <1>7, <1>8, <1>9, <1>10
<1>12. Len(history[t]) = Len(h)
  BY DEF h
<1> QED
  BY <1>1, <1>2, <1>7, <1>11, <1>12

LEMMA GoalUntouched ==
  ASSUME NEW u \in Goals, GoalHistory(u), history'[u] = history[u], limit'[u] = limit[u],
         outcome'[u] = outcome[u], step'[u] = step[u],
         \/ pc'[u] = pc[u]
         \/ pc'[u] \in {"done", "lost", "storing"}
         \/ pc[u] = "idle" /\ pc'[u] \in {"creating", "looping"}
         \/ pc[u] = "creating" /\ pc'[u] = "looping"
         \/ pc[u] = "looping" /\ pc'[u] = "generating" /\ step[u] <= limit[u]
         \/ pc[u] = "generating" /\ pc'[u] = "acting"
  PROVE  GoalHistory(u)'
BY DEF GoalHistory, OwnHistory

(* A goal that ends at a step that did not act.                            *)
LEMMA GoalCompletes ==
  ASSUME CallInv, PlaceInv, HistoryInv, NEW t \in Goals, NEW r \in replies, Woken(t, r),
         pc[t] = "generating", Push(t, FALSE, r.about), Outcome(t, "completed"),
         UNCHANGED <<limit, step>>, NEW next \in {"storing", "done"},
         pc' = [pc EXCEPT ![t] = next]
  PROVE  GoalHistory(t)'
<1>1. /\ history'[t] \in Seq(Entries)
      /\ OwnHistory(t, history'[t])
      /\ Len(history'[t]) = step[t]
      /\ step[t] = Len(history[t]) + 1
      /\ step[t] \in Nat /\ step[t] <= limit[t]
      /\ history'[t][step[t]].acted = FALSE
  BY EntryOfItsOwn
<1>2. t \in Tasks /\ Len(history[t]) \in Nat
  BY DEF Tasks, HistoryInv, GoalHistory
<1>3. pc'[t] = next /\ outcome'[t] = "completed" /\ limit'[t] = limit[t]
  BY <1>2 DEF PlaceInv, Outcome
<1>4. step[t] > 0
  BY <1>1, <1>2
<1> QED
  BY <1>1, <1>3, <1>4 DEF GoalHistory, OwnHistory

LEMMA GoalActs ==
  ASSUME CallInv, PlaceInv, HistoryInv, NEW t \in Goals, NEW r \in replies, Observed(t, r)
  PROVE  GoalHistory(t)'
<1>0. /\ pc[t] = "acting" /\ Push(t, TRUE, r.about) /\ Woken(t, r)
      /\ UNCHANGED <<limit, outcome>>
  BY DEF Observed
<1>1. /\ history'[t] \in Seq(Entries)
      /\ OwnHistory(t, history'[t])
      /\ Len(history'[t]) = step[t]
      /\ step[t] \in Nat /\ step[t] <= limit[t]
      /\ history'[t][step[t]].acted = TRUE
  BY <1>0, EntryOfItsOwn
<1>2. t \in Tasks /\ outcome[t] = "none"
  BY <1>0 DEF Tasks, HistoryInv, GoalHistory
<1>3. pc'[t] = "looping" /\ step'[t] = step[t] + 1
  BY <1>2 DEF Observed, Resume, NextStep, PlaceInv
<1> QED
  BY <1>0, <1>1, <1>2, <1>3 DEF GoalHistory, OwnHistory

LEMMA GoalGivesUp ==
  ASSUME PlaceInv, HistoryInv, NEW t \in Goals, pc[t] = "looping", step[t] > limit[t],
         pc' = [pc EXCEPT ![t] = "done"], Outcome(t, "max_steps_reached"),
         UNCHANGED <<limit, step, history>>
  PROVE  GoalHistory(t)'
<1>1. t \in Tasks /\ limit[t] \in Nat \ {0} /\ GoalHistory(t)
  BY DEF Tasks, PlaceInv, HistoryInv
<1>2. pc'[t] = "done" /\ outcome'[t] = "max_steps_reached"
  BY <1>1 DEF PlaceInv, Outcome
<1>3. Len(history[t]) \in Nat
  BY <1>1 DEF GoalHistory
<1>4. Len(history[t]) = limit[t] /\ history[t][Len(history[t])].acted
  BY <1>1, <1>3 DEF GoalHistory
<1> QED
  BY <1>1, <1>2, <1>4 DEF GoalHistory, OwnHistory

LEMMA HistoryKept ==
  ASSUME CallInv, PlaceInv, HistoryInv, NEW t \in Tasks, TaskStep(t)
  PROVE  HistoryInv'
<1>0. /\ history = [u \in Tasks |-> history[u]]
      /\ Goals \subseteq Tasks
      /\ \A u \in Goals : GoalHistory(u)
      /\ pc \in [Tasks -> Places] /\ outcome \in [Tasks -> Outcomes]
      /\ step \in [Tasks -> Nat]
  BY DEF HistoryInv, PlaceInv, Tasks
<1>1. /\ history' = [u \in Tasks |-> history'[u]]
      /\ \A u \in Tasks \ {t} : history'[u] = history[u]
  <2>1. UNCHANGED history \/ \E entry : history' = [history EXCEPT ![t] = Append(history[t], entry)]
    BY DEF TaskStep, Begin, Iterate, Created, Generated, FinalAnswer, Acts, Concludes, Observed,
           Recalled, Kept, Replied, Stored, Push
  <2> QED
    BY <1>0, <2>1
<1>2. /\ \A u \in Tasks \ {t} : /\ pc'[u] = pc[u] /\ step'[u] = step[u]
                                /\ outcome'[u] = outcome[u]
      /\ limit' = limit
  BY <1>0, PlacesMove
<1>3. \A u \in Goals \ {t} : GoalHistory(u)'
  BY <1>0, <1>1, <1>2, GoalUntouched
<1>4. ASSUME t \in Goals PROVE GoalHistory(t)'
  <2>1. CASE Begin(t)
    <3>1. /\ UNCHANGED <<history, limit, outcome, step>>
          /\ pc[t] = "idle" /\ pc'[t] \in {"creating", "looping"}
      BY <1>0, <2>1 DEF Begin
    <3> QED
      BY <1>0, <1>4, <3>1, GoalUntouched
  <2>2. CASE Iterate(t)
    <3>1. UNCHANGED <<history, limit, step>> /\ pc[t] = "looping"
      BY <2>2 DEF Iterate
    <3>2. CASE step[t] <= limit[t] /\ pc' = [pc EXCEPT ![t] = "generating"] /\ UNCHANGED outcome
      <4>1. pc'[t] = "generating"
        BY <1>0, <3>2
      <4> QED
        BY <1>0, <1>4, <3>1, <3>2, <4>1, GoalUntouched
    <3>3. CASE /\ step[t] > limit[t] /\ pc' = [pc EXCEPT ![t] = "done"]
               /\ Outcome(t, "max_steps_reached")
      BY <1>4, <3>1, <3>3, GoalGivesUp
    <3> QED
      BY <2>2, <3>2, <3>3 DEF Iterate
  <2>3. ASSUME NEW r \in replies, Created(t, r) PROVE GoalHistory(t)'
    <3>1. /\ UNCHANGED <<history, limit, outcome, step>>
          /\ pc[t] = "creating" /\ pc'[t] = "looping"
      BY <1>0, <1>4, <2>3 DEF Created, Resume
    <3> QED
      BY <1>0, <1>4, <3>1, GoalUntouched
  <2>4. ASSUME NEW r \in replies, Generated(t, r) PROVE GoalHistory(t)'
    <3>1. Woken(t, r) /\ pc[t] = "generating" /\ UNCHANGED <<limit, step>>
      BY <2>4 DEF Generated
    <3>2. CASE FinalAnswer(t, r)
      <4>1. PICK next \in {"storing", "done"} : pc' = [pc EXCEPT ![t] = next]
        BY <3>2 DEF FinalAnswer, GoOn, Resume
      <4>2. Push(t, FALSE, r.about) /\ Outcome(t, "completed")
        BY <3>2 DEF FinalAnswer
      <4> QED
        BY <1>4, <3>1, <4>1, <4>2, GoalCompletes
    <3>3. CASE Acts(t, r)
      <4>1. pc'[t] = "acting" /\ UNCHANGED <<history, outcome>>
        BY <1>0, <3>3 DEF Acts, GoOn
      <4> QED
        BY <1>0, <1>4, <3>1, <4>1, GoalUntouched
    <3>4. CASE Concludes(t, r)
      <4>1. pc' = [pc EXCEPT ![t] = "done"] /\ Push(t, FALSE, r.about) /\ Outcome(t, "completed")
        BY <3>4 DEF Concludes, Resume
      <4> QED
        BY <1>4, <3>1, <4>1, GoalCompletes
    <3> QED
      BY <2>4, <3>2, <3>3, <3>4 DEF Generated
  <2>5. ASSUME NEW r \in replies, Observed(t, r) PROVE GoalHistory(t)'
    BY <1>4, <2>5, GoalActs
  <2>6. ASSUME NEW r \in replies, Recalled(t, r) \/ Kept(t, r) PROVE GoalHistory(t)'
    <3>1. pc[t] \in {"recalling", "keeping"}
      BY <2>6 DEF Recalled, Kept
    <3> QED
      BY <1>0, <1>4, <3>1 DEF GoalHistory
  <2>7. ASSUME NEW r \in replies, Replied(t, r) PROVE GoalHistory(t)'
    BY <1>4, <2>7, AgentAssumption DEF Replied
  <2>8. ASSUME NEW r \in replies, Stored(t, r) PROVE GoalHistory(t)'
    <3>1. UNCHANGED <<history, limit, outcome, step>> /\ pc'[t] = "done"
      BY <1>0, <2>8 DEF Stored, Resume
    <3> QED
      BY <1>0, <1>4, <3>1, GoalUntouched
  <2> QED
    BY <2>1, <2>2, <2>3, <2>4, <2>5, <2>6, <2>7, <2>8 DEF TaskStep
<1> QED
  BY <1>1, <1>3, <1>4 DEF HistoryInv

LEMMA HistoriesHold == Spec => []HistoryInv
<1>1. Init => HistoryInv
  <2> SUFFICES ASSUME Init, NEW t \in Goals PROVE GoalHistory(t)
    BY DEF Init, HistoryInv
  <2>1. t \in Tasks
    BY DEF Tasks
  <2>2. /\ history[t] = <<>> /\ pc[t] = "idle" /\ step[t] = 1 /\ outcome[t] = "none"
    BY <2>1 DEF Init
  <2>3. limit[t] \in Nat
    <3>1. {Clamp(n, 1, MaxIterations) : n \in MaxSteps} \subseteq Nat
      BY LimitsClamped, AgentAssumption
    <3> QED
      BY <3>1 DEF Init
  <2>4. Len(history[t]) = 0 /\ history[t] \in Seq(Entries)
    BY <2>2, EmptySeq
  <2> QED
    BY <2>2, <2>3, <2>4 DEF GoalHistory, OwnHistory
<1>2. CallInv /\ PlaceInv /\ HistoryInv /\ [Next]_vars => HistoryInv'
  <2> SUFFICES ASSUME CallInv, PlaceInv, HistoryInv, [Next]_vars PROVE HistoryInv'
    OBVIOUS
  <2>1. CASE \E t \in Tasks : TaskStep(t)
    BY <2>1, HistoryKept
  <2>2. ASSUME UNCHANGED <<history, limit, outcome, step>>,
               \A u \in Goals : pc'[u] = pc[u] \/ pc'[u] \in {"done", "lost", "storing"}
        PROVE  HistoryInv'
    <3>1. \A u \in Goals : GoalHistory(u)'
      BY <2>2, GoalUntouched DEF HistoryInv
    <3> QED
      BY <2>2, <3>1 DEF HistoryInv
  <2>3. CASE Stop
    <3>1. /\ UNCHANGED <<history, limit, outcome, step>>
          /\ \A u \in Goals : pc'[u] = pc[u] \/ pc'[u] \in {"done", "lost", "storing"}
      BY <2>3 DEF Stop, Tasks
    <3> QED
      BY <2>2, <3>1
  <2>4. StoreStep \/ (\E q \in requests : ModelAnswers(q) \/ ToolAnswers(q)) \/ UNCHANGED vars
          => UNCHANGED <<history, limit, outcome, step, pc>>
    BY DEF StoreStep, ModelAnswers, ToolAnswers, vars, agentVars
  <2> QED
    BY <2>1, <2>2, <2>3, <2>4, OtherSteps
<1> QED
  BY <1>1, <1>2, PlacesHold, CallsHold, PTL DEF Spec

(* A goal's history is numbered from 1 and within its limit, and its       *)
(* status says how it ended, for any number of goals and turns, any        *)
(* max_steps and any answers of the model and the tools (run_goal).        *)
THEOREM HistoriesAreWhole == Spec => []HistoryIsWhole
<1>1. HistoryInv => HistoryIsWhole
  <2> SUFFICES ASSUME HistoryInv, NEW t \in Goals
               PROVE  LET h == history[t]
                          n == Len(h)
                      IN /\ n <= limit[t]
                         /\ \A i \in 1..n : h[i].step = i /\ (i < n => h[i].acted)
                         /\ outcome[t] = "completed" <=> (n > 0 /\ ~h[n].acted)
                         /\ outcome[t] = "max_steps_reached" => n = limit[t] /\ h[n].acted
    BY DEF HistoryIsWhole
  <2> QED
    BY DEF HistoryInv, GoalHistory, OwnHistory
<1> QED
  BY <1>1, HistoriesHold, PTL

(* What a goal notes as seen at a step is the answer to the call it made   *)
(* at that step, for any number of tasks calling through one KernelClient  *)
(* and any order of the answers (KernelClient::invoke).                    *)
THEOREM GoalsSeeTheirOwn == Spec => []SeesItsOwn
<1>1. HistoryInv => SeesItsOwn
  <2> SUFFICES ASSUME HistoryInv, NEW t \in Goals, NEW i \in DOMAIN history[t]
               PROVE  history[t][i].seen =
                        [task |-> t, step |-> history[t][i].step,
                         op |-> IF history[t][i].acted THEN "tool" ELSE "generate"]
    BY DEF SeesItsOwn
  <2>1. history[t] \in Seq(Entries) /\ OwnHistory(t, history[t])
    BY DEF HistoryInv, GoalHistory
  <2>2. i \in 1..Len(history[t])
    BY <2>1
  <2> QED
    BY <2>1, <2>2 DEF OwnHistory
<1> QED
  BY <1>1, HistoriesHold, PTL

-----------------------------------------------------------------------------
(* Types.                                                                  *)

(* A set of naturals below a bound has its greatest member in it: the      *)
(* intervals down to its members from the bound are finite sets, and one   *)
(* of them has none of the others within it.                               *)
LEMMA MaxOfNaturals ==
  ASSUME NEW S \in SUBSET Nat, S # {}, NEW n \in Nat, \A m \in S : m <= n
  PROVE  /\ Max(S) \in S
         /\ \A m \in S : m <= Max(S)
<1> DEFINE Above(m) == m + 1..n
           Gaps == {Above(m) : m \in S}
<1>1. IsFiniteSet(1..n)
  BY FS_Interval
<1>2. \A m \in S : Above(m) \in SUBSET (1..n)
  OBVIOUS
<1>3. \A m \in S : IsFiniteSet(Above(m))
  BY <1>1, <1>2, FS_Subset
<1>4. Gaps \subseteq FiniteSubsetsOf(1..n) /\ Gaps # {}
  BY <1>2, <1>3 DEF FiniteSubsetsOf
<1>5. IsWellFoundedOn(StrictSubsetOrdering(1..n), FiniteSubsetsOf(1..n))
  BY FS_StrictSubsetOrderingWellFounded
<1>6. PICK gap \in Gaps : \A other \in Gaps : ~(<<other, gap>> \in StrictSubsetOrdering(1..n))
  BY <1>4, <1>5, WFMin
<1>7. PICK top \in S : gap = Above(top)
  OBVIOUS
<1>8. ASSUME NEW m \in S, m > top PROVE FALSE
  <2>1. Above(m) \subseteq gap /\ Above(m) # gap
    <3>1. m \in gap /\ m \notin Above(m)
      BY <1>7, <1>8
    <3>2. Above(m) \subseteq gap
      BY <1>7, <1>8
    <3> QED
      BY <3>1, <3>2
  <2> QED
    BY <1>2, <1>6, <1>7, <2>1, ZenonT(30) DEF StrictSubsetOrdering
<1>9. \A m \in S : top >= m
  BY <1>8
<1>10. Max(S) \in S /\ \A m \in S : Max(S) >= m
  BY <1>9 DEF Max
<1> QED
  BY <1>10

(* What callers ask.                                                       *)
Typed(q) ==
  /\ q.message \in MessageIds \cup {NoId}
  /\ q.content \in Contents
  /\ q.op = "conversation_create" => q.conversation \in Conversations

(* The rows are numbered below some number: there is a next one.           *)
StoreTyped ==
  /\ conversations \subseteq Conversations
  /\ messages \subseteq Rows
  /\ \E n \in Nat : \A row \in messages : row.at <= n
  /\ dead \subseteq Stores
  /\ \A q \in requests : Typed(q)

(* A turn has a conversation, so it never enters the loop of a goal.       *)
TasksTyped ==
  /\ talk \in [Tasks -> Conversations \cup {NoTalk}]
  /\ \A t \in Turns : talk[t] # NoTalk /\ pc[t] \notin {"looping", "acting"}
  /\ limit \in [Goals -> 1..MaxIterations]
  /\ step \in [Tasks -> 1..MaxIterations + 1]

ClientTyped ==
  /\ nextId \in Nat /\ nextId >= 100
  /\ DOMAIN pending \subseteq 100..nextId - 1
  /\ alive \in BOOLEAN

TypeInv == StoreTyped /\ TasksTyped /\ ClientTyped

LEMMA NextRow ==
  ASSUME StoreTyped
  PROVE  NextAt \in Nat /\ \A row \in messages : row.at <= NextAt
<1>1. PICK n \in Nat : \A row \in messages : row.at <= n
  BY DEF StoreTyped
<1> DEFINE S == {row.at : row \in messages} \cup {0}
<1>2. S \subseteq Nat /\ S # {} /\ \A m \in S : m <= n
  BY <1>1 DEF StoreTyped, Rows
<1>3. Max(S) \in Nat /\ \A m \in S : m <= Max(S)
  BY <1>2, MaxOfNaturals
<1>4. NextAt = 1 + Max(S)
  BY DEF NextAt
<1>5. \A row \in messages : row.at \in Nat /\ row.at <= Max(S)
  BY <1>2, <1>3
<1> HIDE DEF S
<1> QED
  BY <1>3, <1>4, <1>5

(* What a request asks for is typed, so a step that only takes requests    *)
(* away and changes no table keeps the store's types.                      *)
LEMMA FewerRequests ==
  ASSUME StoreTyped, UNCHANGED tables, requests' \subseteq requests, dead' \subseteq Stores
  PROVE  StoreTyped'
BY DEF StoreTyped, Typed, tables

LEMMA StoreKeepsTypes ==
  ASSUME StoreTyped, StoreNext
  PROVE  StoreTyped'
<1>1. ASSUME NEW s \in Stores, NEW q \in requests, Create(s, q) PROVE StoreTyped'
  BY <1>1 DEF Create, Served, StoreTyped, Typed
<1>2. ASSUME NEW s \in Stores, NEW q \in requests, Delete(s, q) PROVE StoreTyped'
  BY <1>2 DEF Delete, Served, Cascade, tables, StoreTyped, Typed
<1>3. ASSUME NEW s \in Stores, NEW q \in requests, InsertMessage(s, q) PROVE StoreTyped'
  <2>1. requests' \subseteq requests /\ UNCHANGED <<conversations, dead>>
    BY <1>3 DEF InsertMessage
  <2>2. CASE Insert(s, q)
    <3>1. messages' = messages \cup {Row(q)} /\ q.conversation \in conversations
      BY <2>2 DEF Insert, CanInsert, ForeignKeys, Row
    <3>2. NextAt \in Nat /\ \A row \in messages : row.at <= NextAt
      BY NextRow
    <3>3. Row(q) \in Rows /\ Row(q).at = NextAt
      BY <3>1, <3>2 DEF StoreTyped, Typed, Row, Rows
    <3>4. messages' \subseteq Rows /\ \E n \in Nat : \A row \in messages' : row.at <= n
      BY <3>1, <3>2, <3>3 DEF StoreTyped
    <3> QED
      BY <2>1, <3>4 DEF StoreTyped, Typed
  <2>3. CASE UNCHANGED messages
    BY <2>1, <2>3 DEF StoreTyped, Typed
  <2> QED
    BY <1>3, <2>2, <2>3 DEF InsertMessage
<1>4. ASSUME NEW s \in Stores, NEW q \in requests, GetHistory(s, q) PROVE StoreTyped'
  BY <1>4, FewerRequests DEF GetHistory, Served, StoreTyped
<1>5. ASSUME NEW s \in Stores, InsertEmbedding(s) PROVE StoreTyped'
  BY <1>5 DEF InsertEmbedding, StoreTyped, Typed
<1>6. ASSUME NEW s \in Stores, Touch(s) PROVE StoreTyped'
  BY <1>6, FewerRequests DEF Touch, StoreTyped
<1>7. ASSUME NEW s \in Stores, Die(s) PROVE StoreTyped'
  BY <1>7, FewerRequests, StoreAssumption DEF Die, StoreTyped
<1>8. ASSUME NEW q \in requests, Refuse(q) PROVE StoreTyped'
  BY <1>8, FewerRequests DEF Refuse, StoreTyped
<1> QED
  BY <1>1, <1>2, <1>3, <1>4, <1>5, <1>6, <1>7, <1>8 DEF StoreNext, StoreWorks, TakeRequest

(* What a task asks for.                                                   *)
LEMMA InvokeTyped ==
  ASSUME TypeInv, NEW t \in Tasks, NEW left, NEW op,
         NEW role \in {"user", "assistant", "none"},
         DOMAIN left \subseteq DOMAIN pending,
         Invoke(t, left, op, Said(t, role)),
         op = "conversation_create" => talk[t] # NoTalk
  PROVE  /\ nextId' \in Nat /\ nextId' >= 100
         /\ DOMAIN pending' \subseteq 100..nextId' - 1
         /\ \A q \in requests' : Typed(q)
<1>1. nextId' = nextId + 1 /\ DOMAIN pending' = DOMAIN left \cup {nextId}
  BY DEF Invoke, FreshId
<1>2. Typed(Request(t, op, Said(t, role)))
  BY DEF Typed, Request, Said, Contents, TypeInv, TasksTyped
<1> QED
  BY <1>1, <1>2 DEF Invoke, TypeInv, StoreTyped, ClientTyped

LEMMA TaskKeepsTypes ==
  ASSUME TypeInv, PlaceInv, HistoryInv, NEW t \in Tasks, TaskStep(t)
  PROVE  TypeInv'
<1>1. UNCHANGED <<conversations, messages, dead, talk, limit>> /\ alive' \in BOOLEAN
  BY DEF TaskStep, Begin, Iterate, Created, Generated, Observed, Recalled, Kept, Replied, Stored,
         rest, tables, TypeInv, ClientTyped
<1>2. ASSUME NEW left, NEW op, NEW role \in {"user", "assistant", "none"},
             DOMAIN left \subseteq DOMAIN pending,
             Invoke(t, left, op, Said(t, role)),
             op = "conversation_create" => talk[t] # NoTalk
      PROVE  StoreTyped' /\ ClientTyped'
  <2>1. /\ nextId' \in Nat /\ nextId' >= 100
        /\ DOMAIN pending' \subseteq 100..nextId' - 1
        /\ \A q \in requests' : Typed(q)
    BY <1>2, InvokeTyped
  <2>2. \A q \in requests' : Typed(q)'
    BY <2>1 DEF Typed
  <2> QED
    BY <1>1, <2>1, <2>2 DEF TypeInv, StoreTyped, ClientTyped
<1>3. ASSUME UNCHANGED <<nextId, requests>>, DOMAIN pending' \subseteq DOMAIN pending
      PROVE  StoreTyped' /\ ClientTyped'
  BY <1>1, <1>3 DEF TypeInv, StoreTyped, ClientTyped, Typed
<1>4. ASSUME NEW r \in replies, NEW next, Resume(t, r, next) PROVE StoreTyped' /\ ClientTyped'
  <2>1. UNCHANGED <<nextId, requests>> /\ DOMAIN pending' \subseteq DOMAIN pending
    BY <1>4 DEF Resume, Without
  <2> QED
    BY <1>3, <2>1
<1>5. ASSUME NEW r \in replies, NEW next, NEW op,
             NEW role \in {"user", "assistant", "none"}, GoOn(t, r, next, op, Said(t, role)),
             op # "conversation_create"
      PROVE  StoreTyped' /\ ClientTyped'
  <2>1. DOMAIN Without(r) \subseteq DOMAIN pending /\ Invoke(t, Without(r), op, Said(t, role))
    BY <1>5 DEF GoOn, Without
  <2> QED
    BY <1>2, <1>5, <2>1
<1>6. StoreTyped' /\ ClientTyped'
  <2>1. CASE Begin(t)
    <3>1. \/ talk[t] # NoTalk /\ Invoke(t, pending, "conversation_create", Said(t, "none"))
          \/ UNCHANGED <<pending, nextId, requests>>
      BY <2>1 DEF Begin
    <3> QED
      BY <1>2, <1>3, <3>1
  <2>2. CASE Iterate(t)
    <3>1. \/ Invoke(t, pending, "generate", Said(t, "none"))
          \/ UNCHANGED <<pending, nextId, requests>>
      BY <2>2 DEF Iterate
    <3> QED
      BY <1>2, <1>3, <3>1
  <2>3. ASSUME NEW r \in replies, Created(t, r) PROVE StoreTyped' /\ ClientTyped'
    BY <2>3, <1>4, <1>5 DEF Created
  <2>4. ASSUME NEW r \in replies, Generated(t, r) PROVE StoreTyped' /\ ClientTyped'
    BY <2>4, <1>4, <1>5 DEF Generated, FinalAnswer, Acts, Concludes
  <2>5. ASSUME NEW r \in replies, Observed(t, r) PROVE StoreTyped' /\ ClientTyped'
    BY <2>5, <1>4 DEF Observed
  <2>6. ASSUME NEW r \in replies, Recalled(t, r) \/ Kept(t, r) PROVE StoreTyped' /\ ClientTyped'
    BY <2>6, <1>5 DEF Recalled, Kept
  <2>7. ASSUME NEW r \in replies, Replied(t, r) \/ Stored(t, r) PROVE StoreTyped' /\ ClientTyped'
    BY <2>7, <1>4, <1>5 DEF Replied, Stored
  <2> QED
    BY <2>1, <2>2, <2>3, <2>4, <2>5, <2>6, <2>7 DEF TaskStep
<1>7. step' \in [Tasks -> 1..MaxIterations + 1]
  <2>1. CASE \E r \in replies : Observed(t, r)
    <3>1. pc[t] = "acting" /\ step' = [step EXCEPT ![t] = step[t] + 1]
      BY <2>1 DEF Observed, NextStep
    <3>2. t \in Goals
      BY <3>1 DEF Tasks, TypeInv, TasksTyped
    <3>3. step[t] <= limit[t] /\ limit[t] \in 1..MaxIterations
      BY <3>1, <3>2 DEF HistoryInv, GoalHistory, TypeInv, TasksTyped
    <3> QED
      BY <3>1, <3>2, <3>3, AgentAssumption DEF TypeInv, TasksTyped
  <2>2. CASE step' = step
    BY <2>2 DEF TypeInv, TasksTyped
  <2> QED
    BY <2>1, <2>2 DEF TaskStep, Begin, Iterate, Created, Generated, Recalled, Kept, Replied, Stored
<1>8. \A u \in Turns : pc'[u] \notin {"looping", "acting"}
  <2> SUFFICES ASSUME NEW u \in Turns PROVE pc'[u] \notin {"looping", "acting"}
    OBVIOUS
  <2>1. /\ u \in Tasks /\ u \notin Goals /\ talk[u] # NoTalk
        /\ pc[u] \notin {"looping", "acting"}
    BY AgentAssumption DEF Tasks, TypeInv, TasksTyped
  <2>2. PICK place \in Places : pc' = [pc EXCEPT ![t] = place]
    BY PlacesMove
  <2>3. CASE u # t
    BY <2>1, <2>2, <2>3 DEF PlaceInv
  <2>4. CASE u = t
    BY <2>1, <2>4 DEF TaskStep, Begin, Iterate, Created, Generated, Observed, Recalled, Kept,
                      Replied, Stored, GoOn, Resume, PlaceInv
  <2> QED
    BY <2>3, <2>4
<1>9. TasksTyped'
  BY <1>1, <1>7, <1>8 DEF TypeInv, TasksTyped
<1> QED
  BY <1>6, <1>9 DEF TypeInv

LEMMA TypesHold == Spec => []TypeInv
<1>1. Init => TypeInv
  <2> SUFFICES ASSUME Init PROVE TypeInv
    OBVIOUS
  <2>1. {Clamp(n, 1, MaxIterations) : n \in MaxSteps} \subseteq 1..MaxIterations
    BY AgentAssumption DEF Clamp
  <2>2. TasksTyped
    BY <2>1, AgentAssumption DEF Init, TasksTyped, Tasks
  <2>3. StoreTyped
    BY AgentAssumption DEF Init, StoreInit, StoreTyped, Typed
  <2>4. ClientTyped
    BY DEF Init, ClientTyped
  <2> QED
    BY <2>2, <2>3, <2>4 DEF TypeInv
<1>2. TypeInv /\ PlaceInv /\ HistoryInv /\ [Next]_vars => TypeInv'
  <2> SUFFICES ASSUME TypeInv, PlaceInv, HistoryInv, [Next]_vars PROVE TypeInv'
    OBVIOUS
  <2>1. CASE \E t \in Tasks : TaskStep(t)
    BY <2>1, TaskKeepsTypes
  <2>2. CASE Stop
    <3>1. TasksTyped'
      BY <2>2 DEF Stop, rest, TypeInv, TasksTyped, Tasks
    <3>2. StoreTyped' /\ ClientTyped'
      BY <2>2, FewerRequests DEF Stop, rest, TypeInv, StoreTyped, ClientTyped
    <3> QED
      BY <3>1, <3>2 DEF TypeInv
  <2>3. ASSUME UNCHANGED agentVars, UNCHANGED talk, StoreTyped' PROVE TypeInv'
    BY <2>3 DEF agentVars, TypeInv, TasksTyped, ClientTyped
  <2>4. CASE StoreStep
    BY <2>3, <2>4, StoreKeepsTypes DEF StoreStep, TypeInv, agentVars
  <2>5. CASE \E q \in requests : ModelAnswers(q) \/ ToolAnswers(q)
    BY <2>3, <2>5, FewerRequests DEF ModelAnswers, ToolAnswers, TypeInv, StoreTyped, agentVars
  <2>6. CASE UNCHANGED vars
    BY <2>3, <2>6, FewerRequests DEF vars, storeVars, tables, TypeInv, StoreTyped, agentVars
  <2> QED
    BY <2>1, <2>2, <2>4, <2>5, <2>6, OtherSteps
<1> QED
  BY <1>1, <1>2, PlacesHold, HistoriesHold, PTL DEF Spec

(* The tables, the tasks, the client's calls and the limits keep their     *)
(* types, whatever is asked of the stores: no goal takes more than         *)
(* max_iterations steps, and every id a task waits for was given out       *)
(* (run_goal, KernelClient::invoke).                                       *)
THEOREM AgentTypeCorrect == Spec => []TypeOK
<1>1. TypeInv /\ PlaceInv /\ CallInv /\ NoOrphans => TypeOK
  <2> SUFFICES ASSUME TypeInv, PlaceInv, CallInv, NoOrphans PROVE TypeOK
    OBVIOUS
  <2>1. IdsOf(messages) \subseteq MessageIds \cup {NoId}
    BY DEF IdsOf, Rows, TypeInv, StoreTyped
  <2>2. embeddings \subseteq MessageIds \cup {NoId}
    BY <2>1 DEF NoOrphans
  <2> QED
    BY <2>2 DEF TypeOK, TypeInv, StoreTyped, TasksTyped, ClientTyped, PlaceInv, Places, Waiting,
                Outcomes, CallInv, PendingInv
<1> QED
  BY <1>1, TypesHold, PlacesHold, CallsHold, RowsHaveTheirParents, PTL

=============================================================================
