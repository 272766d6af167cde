-------------------------------- MODULE Agent --------------------------------
(***************************************************************************)
(* The orchestrator plugin, chassis-orchestrator, over the conversation    *)
(* store: goals (run_goal) and chat turns (chat_turn), each in a task of   *)
(* its own, call the kernel through one KernelClient.  The model and the   *)
(* tools answer anything; the router may refuse any call.                  *)
(*                                                                         *)
(* Text is told apart by what the two parsers make of it: "final" has a    *)
(* final answer, "action" an action, "plain" neither, as has the text made *)
(* of a failed call.                                                       *)
(***************************************************************************)
EXTENDS ConversationStore, Sequences

CONSTANTS
  Goals,          \* requests for run_goal
  Turns,          \* requests for chat_turn
  TalksOf,        \* the conversations each may be about, NoTalk for a goal without one
  NoTalk,
  MaxSteps,       \* the values of max_steps a goal may come with
  MaxIterations,  \* the most iterations a goal gets, 25
  Home,           \* the store of this session
  Shutdowns       \* whether the plugin may be told to stop

Tasks == Goals \cup Turns

Contents == [by : Tasks \cup {NoTalk}, role : {"user", "assistant", "none"}]

ASSUME AgentAssumption ==
  /\ Goals \cap Turns = {}
  /\ TalksOf \in [Tasks -> SUBSET (Conversations \cup {NoTalk})]
  /\ NoTalk \notin Conversations
  /\ \A t \in Turns : NoTalk \notin TalksOf[t]
  /\ MaxSteps \subseteq Nat
  /\ MaxIterations \in Nat \ {0}
  /\ Home \in Stores
  /\ Shutdowns \in BOOLEAN
  /\ \A q \in Visits : q.conversation \in Conversations
                      /\ q.message \in MessageIds \cup {NoId}
                      /\ q.content \in Contents

VARIABLES
  talk,      \* conversation_id
  pc,        \* where each task is
  limit,     \* max_iterations
  step,      \* step_idx
  history,   \* history of a goal: who acted at each step, and what it saw
  prompt,    \* the past a turn gives the model, while it needs it
  outcome,   \* how the task ended
  nextId,    \* KernelClient::next_id
  pending,   \* KernelClient::pending: the task that waits for an id
  alive      \* whether the plugin still reads its stdin

agentVars == <<talk, pc, limit, step, history, prompt, outcome, nextId, pending, alive>>
vars == <<storeVars, agentVars>>

(* Slip: the upper bound forgotten.                                        *)
ClampBelow(n, low, high) == IF n < low THEN low ELSE n

Clamp(n, low, high) == IF n < low THEN low ELSE IF n > high THEN high ELSE n

Init ==
  /\ StoreInit
  /\ talk \in {f \in [Tasks -> Conversations \cup {NoTalk}] : \A t \in Tasks : f[t] \in TalksOf[t]}
  /\ pc = [t \in Tasks |-> "idle"]
  /\ limit \in [Goals -> {Clamp(n, 1, MaxIterations) : n \in MaxSteps}]
  /\ step = [t \in Tasks |-> 1]
  /\ history = [t \in Tasks |-> <<>>]
  /\ prompt = [t \in Tasks |-> {}]
  /\ outcome = [t \in Tasks |-> "none"]
  /\ nextId = 100
  /\ pending = [i \in {} |-> NoTalk]
  /\ alive = TRUE

-----------------------------------------------------------------------------
(* KernelClient.                                                           *)

About(t, op) == [task |-> t, step |-> step[t], op |-> op]

Request(t, op, content) ==
  [id |-> nextId, about |-> About(t, op), internal |-> TRUE, op |-> op,
   store |-> Home, conversation |-> talk[t], message |-> NoId,
   content |-> content, embed |-> FALSE]

(* Slip: load and store instead of fetch_add, with another task between.   *)
StaleId == nextId' \in {nextId, nextId + 1}

FreshId == nextId' = nextId + 1

(* invoke: the id, the entry in pending, the request.  `left` is pending   *)
(* without the entry the task was woken by.                                *)
Invoke(t, left, op, content) ==
  /\ FreshId
  /\ pending' = [i \in DOMAIN left \cup {nextId} |-> IF i = nextId THEN t ELSE left[i]]
  /\ requests' = requests \cup {Request(t, op, content)}

(* The reader takes an answer from stdin, and the task that waits for it   *)
(* goes on.                                                                *)
Woken(t, r) ==
  /\ alive
  /\ r \in replies
  /\ r.id \in DOMAIN pending
  /\ pending[r.id] = t
  /\ replies' = replies \ {r}

Without(r) == [i \in DOMAIN pending \ {r.id} |-> pending[i]]

GoOn(t, r, next, op, content) ==
  /\ pc' = [pc EXCEPT ![t] = next]
  /\ Invoke(t, Without(r), op, content)

(* On to a step that makes no call.                                        *)
Resume(t, r, next) ==
  /\ pc' = [pc EXCEPT ![t] = next]
  /\ pending' = Without(r)
  /\ UNCHANGED <<nextId, requests>>

Outcome(t, how) == outcome' = [outcome EXCEPT ![t] = how]

Said(t, role) == [by |-> t, role |-> role]

rest == <<tables, serving, dead, talk>>

-----------------------------------------------------------------------------
(* A request from the kernel becomes a task: handle_request.               *)
Begin(t) ==
  /\ alive
  /\ pc[t] = "idle"
  /\ IF talk[t] # NoTalk
     THEN /\ pc' = [pc EXCEPT ![t] = "creating"]
          /\ Invoke(t, pending, "conversation_create", Said(t, "none"))
     ELSE /\ pc' = [pc EXCEPT ![t] = "looping"]
          /\ UNCHANGED <<pending, nextId, requests>>
  /\ UNCHANGED <<rest, replies, limit, step, history, prompt, outcome, alive>>

(* The answer to conversation_create is ignored.                           *)
Created(t, r) ==
  /\ Woken(t, r)
  /\ pc[t] = "creating"
  /\ IF t \in Goals THEN Resume(t, r, "looping")
                    ELSE GoOn(t, r, "recalling", "message_get_history", Said(t, "none"))
  /\ UNCHANGED <<rest, limit, step, history, prompt, outcome, alive>>

-----------------------------------------------------------------------------
(* run_goal.                                                               *)

Push(t, acted, seen) ==
  history' = [history EXCEPT ![t] =
                Append(@, [step |-> step[t], acted |-> acted, seen |-> seen])]

(* The model's text holds a final answer: it is stored in the conversation *)
(* if there is one, and returned.                                          *)
FinalAnswer(t, r) ==
  /\ r.ok /\ r.body = {Said(NoTalk, "final")}
  /\ Push(t, FALSE, r.about)
  /\ IF talk[t] # NoTalk
     THEN GoOn(t, r, "storing", "message_append", Said(t, "assistant"))
     ELSE Resume(t, r, "done")
  /\ Outcome(t, "completed")

(* It holds an action, or it is the first text and holds nothing: then the *)
(* fallback searches the web or lists the workspace.                       *)
Acts(t, r) ==
  /\ \/ r.ok /\ r.body = {Said(NoTalk, "action")}
     \/ (~r.ok \/ r.body = {Said(NoTalk, "plain")}) /\ step[t] = 1
  /\ GoOn(t, r, "acting", "tool", Said(t, "none"))
  /\ UNCHANGED <<history, outcome>>

(* Later text that holds nothing, a failed call included, ends the goal.   *)
Concludes(t, r) ==
  /\ ~r.ok \/ r.body = {Said(NoTalk, "plain")}
  /\ step[t] > 1
  /\ Push(t, FALSE, r.about)
  /\ Resume(t, r, "done")
  /\ Outcome(t, "completed")

Generated(t, r) ==
  /\ Woken(t, r)
  /\ t \in Goals
  /\ pc[t] = "generating"
  /\ FinalAnswer(t, r) \/ Acts(t, r) \/ Concludes(t, r)
  /\ UNCHANGED <<rest, limit, step, prompt, alive>>

(* Slip: the action does not count as a step.                              *)
SameStep(t) == UNCHANGED step

NextStep(t) == step' = [step EXCEPT ![t] = @ + 1]

(* The action's answer, or its error, is the observation.                  *)
Observed(t, r) ==
  /\ Woken(t, r)
  /\ pc[t] = "acting"
  /\ Push(t, TRUE, r.about)
  /\ NextStep(t)
  /\ Resume(t, r, "looping")
  /\ UNCHANGED <<rest, limit, prompt, outcome, alive>>

(* The head of the loop: ask the model what to do next, or give up.        *)
Iterate(t) ==
  /\ alive
  /\ pc[t] = "looping"
  /\ \/ /\ step[t] <= limit[t]
        /\ pc' = [pc EXCEPT ![t] = "generating"]
        /\ Invoke(t, pending, "generate", Said(t, "none"))
        /\ UNCHANGED outcome
     \/ /\ step[t] > limit[t]
        /\ pc' = [pc EXCEPT ![t] = "done"]
        /\ Outcome(t, "max_steps_reached")
        /\ UNCHANGED <<pending, nextId, requests>>
  /\ UNCHANGED <<rest, replies, limit, step, history, prompt, alive>>

-----------------------------------------------------------------------------
(* chat_turn.                                                              *)

(* The past, if the store had it, and then the user's message is stored.   *)
Recalled(t, r) ==
  /\ Woken(t, r)
  /\ pc[t] = "recalling"
  /\ prompt' = [prompt EXCEPT ![t] = IF r.ok THEN r.body ELSE {}]
  /\ GoOn(t, r, "keeping", "message_append", Said(t, "user"))
  /\ UNCHANGED <<rest, limit, step, history, outcome, alive>>

(* Whether it was stored is ignored.                                       *)
Kept(t, r) ==
  /\ Woken(t, r)
  /\ pc[t] = "keeping"
  /\ GoOn(t, r, "generating", "generate", Said(t, "none"))
  /\ UNCHANGED <<rest, limit, step, history, prompt, outcome, alive>>

Forget(t) == prompt' = [prompt EXCEPT ![t] = {}]

(* A failed call of the model fails the turn.                              *)
Replied(t, r) ==
  /\ Woken(t, r)
  /\ t \in Turns
  /\ pc[t] = "generating"
  /\ \/ /\ r.ok
        /\ GoOn(t, r, "storing", "message_append", Said(t, "assistant"))
        /\ Outcome(t, "answered")
     \/ /\ ~r.ok
        /\ Resume(t, r, "done")
        /\ Outcome(t, "failed")
  /\ Forget(t)
  /\ UNCHANGED <<rest, limit, step, history, alive>>

(* The answer was stored or not, which is ignored; the response goes out.  *)
Stored(t, r) ==
  /\ Woken(t, r)
  /\ pc[t] = "storing"
  /\ Resume(t, r, "done")
  /\ UNCHANGED <<rest, limit, step, history, prompt, outcome, alive>>

(* main leaves its loop on kernel.shutdown or at the end of stdin, and the *)
(* runtime drops every task with it.  It is the session that ends: what    *)
(* the kernel has not served by then is not served.                        *)
Stop ==
  /\ Shutdowns
  /\ alive
  /\ alive' = FALSE
  /\ pc' = [t \in Tasks |-> IF pc[t] \in {"idle", "done"} THEN pc[t] ELSE "lost"]
  /\ pending' = [i \in {} |-> NoTalk]
  /\ replies' = {}
  /\ requests' = {q \in requests : ~q.internal}
  /\ UNCHANGED <<rest, limit, step, history, prompt, outcome, nextId>>

-----------------------------------------------------------------------------
(* What is outside: the model and the tools.                               *)

Says == {"final", "action", "plain"}

ModelAnswers(q) ==
  /\ q \in requests
  /\ q.op = "generate"
  /\ requests' = requests \ {q}
  /\ \/ \E w \in Says : Send(q, TRUE, {Said(NoTalk, w)})
     \/ Send(q, FALSE, {})
  /\ UNCHANGED <<tables, serving, dead, agentVars>>

(* An error is an observation like any other.                              *)
ToolAnswers(q) ==
  /\ q \in requests
  /\ q.op = "tool"
  /\ requests' = requests \ {q}
  /\ Send(q, TRUE, {})
  /\ UNCHANGED <<tables, serving, dead, agentVars>>

-----------------------------------------------------------------------------
TaskStep(t) ==
  \/ Begin(t)
  \/ Iterate(t)
  \/ \E r \in replies : \/ Created(t, r) \/ Generated(t, r) \/ Observed(t, r)
                        \/ Recalled(t, r) \/ Kept(t, r) \/ Replied(t, r) \/ Stored(t, r)

StoreStep == StoreNext /\ UNCHANGED agentVars

Next ==
  \/ \E t \in Tasks : TaskStep(t)
  \/ StoreStep
  \/ Stop
  \/ \E q \in requests : ModelAnswers(q) \/ ToolAnswers(q)

Spec == Init /\ [][Next]_vars

(* Some process does what a task has asked for: the model or a tool        *)
(* answers, a store takes it up, or the kernel answers for a dead one.     *)
Attends(t) ==
  \E q \in requests :
    /\ q.about.task = t
    /\ \/ ModelAnswers(q) \/ ToolAnswers(q)
       \/ /\ \/ \E s \in Stores : TakeRequest(s, q)
             \/ q.store \in dead /\ Refuse(q)
          /\ UNCHANGED agentVars

(* The runtime polls every ready task; a kernel answers every call (a dead *)
(* provider's with an error); the loop of a store takes its requests in    *)
(* order, so none waits for ever while others are taken.                   *)
Fairness ==
  /\ \A t \in Tasks : WF_vars(pc[t] # "idle" /\ TaskStep(t)) /\ WF_vars(Attends(t))
  /\ \A s \in Stores : WF_vars(StoreWorks(s) /\ UNCHANGED agentVars)

FairSpec == Spec /\ Fairness

-----------------------------------------------------------------------------
(* Properties.                                                             *)

Rows == [id : MessageIds \cup {NoId}, conversation : Conversations,
         content : Contents, at : Nat]

TypeOK ==
  /\ conversations \subseteq Conversations
  /\ messages \subseteq Rows
  /\ embeddings \subseteq MessageIds \cup {NoId}
  /\ dead \subseteq Stores
  /\ talk \in [Tasks -> Conversations \cup {NoTalk}]
  /\ pc \in [Tasks -> {"idle", "creating", "recalling", "keeping", "looping", "generating",
                        "acting", "storing", "done", "lost"}]
  /\ limit \in [Goals -> 1..MaxIterations]
  /\ step \in [Tasks -> 1..MaxIterations + 1]
  /\ outcome \in [Tasks -> {"none", "completed", "max_steps_reached", "answered", "failed"}]
  /\ nextId \in Nat
  /\ DOMAIN pending \subseteq 100..nextId - 1
  /\ \A i \in DOMAIN pending : pending[i] \in Tasks
  /\ alive \in BOOLEAN

(* A goal's history is numbered from 1 and within its limit, every step    *)
(* but the last acted, and its status says how it ended: completed by a    *)
(* step that did not act, stopped with every iteration used on actions.    *)
HistoryIsWhole ==
  \A t \in Goals :
    LET h == history[t]
        n == Len(h)
    IN /\ n <= limit[t]
       /\ \A i \in 1..n : h[i].step = i /\ (i < n => h[i].acted)
       /\ outcome[t] = "completed" <=> (n > 0 /\ ~h[n].acted)
       /\ outcome[t] = "max_steps_reached" => n = limit[t] /\ h[n].acted

(* What a goal notes as seen at a step is the answer to the call it made   *)
(* at that step, with other tasks calling through the same client and      *)
(* answers arriving in any order.                                          *)
SeesItsOwn ==
  \A t \in Goals : \A i \in DOMAIN history[t] :
    LET s == history[t][i]
    IN s.seen = [task |-> t, step |-> s.step, op |-> IF s.acted THEN "tool" ELSE "generate"]

(* The request with id i, or its answer, is somewhere.                     *)
OnItsWay(i) ==
  \/ \E q \in requests : q.internal /\ q.id = i
  \/ \E s \in Stores : /\ serving[s] # Idle
                       /\ serving[s].request.internal /\ serving[s].request.id = i
  \/ \E r \in replies : r.id = i

(* A task in one of these places waits for an answer.                      *)
Waiting == {"creating", "recalling", "keeping", "generating", "acting", "storing"}

(* No call is lost: a task that waits has its entry in the client's table, *)
(* and what is to wake it is with the kernel, in a store's hands, or on    *)
(* the way back, with the store dead, the call refused or the statement    *)
(* failed (KernelClient::invoke waits without a limit).                    *)
NoCallIsLost ==
  /\ \A t \in Tasks : pc[t] \in Waiting => \E i \in DOMAIN pending : pending[i] = t
  /\ \A i \in DOMAIN pending : pc[pending[i]] \in Waiting /\ OnItsWay(i)

(* Every goal and turn that was begun gets its response, unless the plugin *)
(* is told to stop: the loop ends, and no call is left waiting.            *)
EveryTaskEnds ==
  \A t \in Tasks : (pc[t] # "idle") ~> (pc[t] \in {"done", "lost"})

(* "Single interactive conversational turn with persistent memory"         *)
(* (agent.rs:297): what was said in an answered turn is in the store.      *)
TurnsAreRemembered ==
  \A t \in Turns :
    (pc[t] = "done" /\ outcome[t] = "answered") =>
      \A role \in {"user", "assistant"} : \E row \in messages :
        row.conversation = talk[t] /\ row.content = Said(t, role)

=============================================================================
