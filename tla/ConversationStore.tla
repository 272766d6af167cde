-------------------------- MODULE ConversationStore --------------------------
(***************************************************************************)
(* The conversation store plugin, chassis-storage-sqlite: one request at a *)
(* time, each statement a transaction of its own, over a database file     *)
(* that the store of another session may have open as well.  SQLite is     *)
(* external: keys are unique, and while foreign_keys is on a row has its   *)
(* parent and goes with it.                                                *)
(*                                                                         *)
(* Left out: titles, roles, token counts, updated_at, and the reads no     *)
(* shipped caller makes.  Rows are numbered in the order of their          *)
(* insertion, which is that of created_at.                                 *)
(***************************************************************************)
EXTENDS Naturals, FiniteSets, FiniteSetsExt

CONSTANTS
  Conversations,   \* ids of conversations
  MessageIds,      \* ids callers may give a message
  NoId,            \* the id of a message whose caller gave none, ""
  Stores,          \* the store processes that have the database open
  HistoryLimit,    \* how many rows message_get_history returns by default, 50
  StoreFaults,     \* which of "refuse" and "statement" may happen
  Visits,          \* what other callers (another session, a plugin that declared
                   \* the capability) ask of the stores, at any moment
  Mortal           \* the stores that may die

ASSUME StoreAssumption ==
  /\ NoId \notin MessageIds
  /\ HistoryLimit \in Nat \ {0}
  /\ StoreFaults \subseteq {"refuse", "statement"}
  /\ Mortal \subseteq Stores
  /\ \A q \in Visits : ~q.internal

VARIABLES
  conversations,   \* table conversations: the ids in it
  messages,        \* table messages: its rows
  embeddings,      \* table message_embeddings: the message ids in it
  serving,         \* the append a store is in the middle of
  dead,            \* the stores whose process is gone
  requests,        \* the requests on their way
  replies          \* the answers on their way back to the orchestrator

tables == <<conversations, messages, embeddings>>
storeVars == <<conversations, messages, embeddings, serving, dead, requests, replies>>

-----------------------------------------------------------------------------
(* What open sets up.                                                      *)

(* Slip: the pragma forgotten, SQLite's default.                           *)
NoForeignKeys == FALSE

(* PRAGMA foreign_keys = ON, on the connection of every store.             *)
ForeignKeys == TRUE

IdsOf(rows) == {row.id : row \in rows}

(* A store between two requests.                                           *)
Idle == [request |-> NoId, stage |-> "idle"]

StoreInit ==
  /\ conversations = {}
  /\ messages = {}
  /\ embeddings = {}
  /\ serving = [s \in Stores |-> Idle]
  /\ dead = {}
  /\ requests = Visits
  /\ replies = {}

-----------------------------------------------------------------------------
(* Answers.  A request that nobody of this model waits for (a caller of    *)
(* another session) has no reply.                                          *)

Reply(q, ok, body) == [id |-> q.id, about |-> q.about, ok |-> ok, body |-> body]

Send(q, ok, body) ==
  replies' = IF q.internal THEN replies \cup {Reply(q, ok, body)} ELSE replies

(* handle_request of a request that is one statement or none.              *)
Served(s, q, op) ==
  /\ q \in requests
  /\ q.op = op
  /\ q.store = s
  /\ s \notin dead
  /\ serving[s] = Idle
  /\ requests' = requests \ {q}
  /\ UNCHANGED <<serving, dead>>

(* A statement may fail: the disk is full, or the other store has the file *)
(* locked.                                                                 *)
StatementFails == "statement" \in StoreFaults

Create(s, q) ==
  /\ Served(s, q, "conversation_create")
  /\ UNCHANGED <<messages, embeddings>>
  /\ \/ /\ q.conversation \notin conversations
        /\ conversations' = conversations \cup {q.conversation}
        /\ Send(q, TRUE, {})
     \/ /\ q.conversation \in conversations \/ StatementFails
        /\ Send(q, FALSE, {})
        /\ UNCHANGED conversations

(* DELETE FROM conversations, with ON DELETE CASCADE.                      *)
Cascade(c) ==
  LET stay == {row \in messages : row.conversation # c}
  IN /\ messages' = stay
     /\ embeddings' = embeddings \cap IdsOf(stay)

Delete(s, q) ==
  /\ Served(s, q, "conversation_delete")
  /\ \/ /\ conversations' = conversations \ {q.conversation}
        /\ IF ForeignKeys THEN Cascade(q.conversation)
                          ELSE UNCHANGED <<messages, embeddings>>
        /\ Send(q, TRUE, {})
     \/ /\ StatementFails
        /\ Send(q, FALSE, {})
        /\ UNCHANGED tables

(* get_messages: the oldest rows of the conversation, up to the limit.     *)
History(c) ==
  LET here == {row \in messages : row.conversation = c}
      Before(row) == {older \in here : older.at < row.at}
  IN {row.content : row \in {row \in here : Cardinality(Before(row)) < HistoryLimit}}

GetHistory(s, q) ==
  /\ Served(s, q, "message_get_history")
  /\ \/ Send(q, TRUE, History(q.conversation))
     \/ StatementFails /\ Send(q, FALSE, {})
  /\ UNCHANGED tables

-----------------------------------------------------------------------------
(* message_append: three statements, and no transaction around them.       *)

NextAt == 1 + Max({row.at : row \in messages} \cup {0})

Row(q) ==
  [id |-> q.message, conversation |-> q.conversation, content |-> q.content, at |-> NextAt]

Job(q, stage) == [request |-> q, stage |-> stage]

(* INSERT INTO messages: refused when the id is taken, or the conversation *)
(* is not there.                                                           *)
CanInsert(row) ==
  /\ row.id \notin IdsOf(messages)
  /\ ForeignKeys => row.conversation \in conversations

(* Slip: INSERT OR REPLACE, which a caller without an id would call for.   *)
InsertOrReplace(s, q) ==
  /\ Row(q).conversation \in conversations
  /\ messages' = {row \in messages : row.id # q.message} \cup {Row(q)}
  /\ serving' = [serving EXCEPT ![s] = Job(q, IF q.embed THEN "embed" ELSE "touch")]
  /\ UNCHANGED replies

Insert(s, q) ==
  /\ CanInsert(Row(q))
  /\ messages' = messages \cup {Row(q)}
  /\ serving' = [serving EXCEPT ![s] = Job(q, IF q.embed THEN "embed" ELSE "touch")]
  /\ UNCHANGED replies

InsertMessage(s, q) ==
  /\ q \in requests
  /\ q.op = "message_append"
  /\ q.store = s
  /\ s \notin dead
  /\ serving[s] = Idle
  /\ requests' = requests \ {q}
  /\ \/ Insert(s, q)
     \/ /\ ~CanInsert(Row(q)) \/ StatementFails
        /\ Send(q, FALSE, {})
        /\ UNCHANGED <<messages, serving>>
  /\ UNCHANGED <<conversations, embeddings, dead>>

(* INSERT INTO message_embeddings; its error is the answer, and the        *)
(* message stays.                                                          *)
CanEmbed(id) ==
  /\ id \notin embeddings
  /\ ForeignKeys => id \in IdsOf(messages)

EmbedFails(s, q) ==
  /\ serving' = [serving EXCEPT ![s] = Idle]
  /\ Send(q, FALSE, {})

InsertEmbedding(s) ==
  /\ s \notin dead
  /\ serving[s] # Idle
  /\ serving[s].stage = "embed"
  /\ LET q == serving[s].request IN
     \/ /\ CanEmbed(q.message)
        /\ embeddings' = embeddings \cup {q.message}
        /\ serving' = [serving EXCEPT ![s].stage = "touch"]
        /\ UNCHANGED replies
     \/ /\ ~CanEmbed(q.message) \/ StatementFails
        /\ EmbedFails(s, q)
        /\ UNCHANGED embeddings
  /\ UNCHANGED <<conversations, messages, dead, requests>>

(* UPDATE conversations SET updated_at: no row is touched, and no error    *)
(* raised, when the conversation has been deleted meanwhile.               *)
Touch(s) ==
  /\ s \notin dead
  /\ serving[s] # Idle
  /\ serving[s].stage = "touch"
  /\ serving' = [serving EXCEPT ![s] = Idle]
  /\ \/ Send(serving[s].request, TRUE, {})
     \/ StatementFails /\ Send(serving[s].request, FALSE, {})
  /\ UNCHANGED <<tables, dead, requests>>

-----------------------------------------------------------------------------
(* The process ends at any point: what it was serving is cut short, and    *)
(* the kernel answers for it.                                              *)
Die(s) ==
  /\ s \in Mortal \ dead
  /\ dead' = dead \cup {s}
  /\ serving' = [serving EXCEPT ![s] = Idle]
  /\ IF serving[s] = Idle
     THEN UNCHANGED replies
     ELSE Send(serving[s].request, FALSE, {})
  /\ UNCHANGED <<tables, requests>>

(* Slip: an error of the call is not made an answer.                       *)
RefuseSilently(q) ==
  /\ q \in requests
  /\ q.store \in dead \/ "refuse" \in StoreFaults
  /\ requests' = requests \ {q}
  /\ UNCHANGED <<tables, serving, dead, replies>>

(* The router refuses the call, or finds nobody to serve it.               *)
Refuse(q) ==
  /\ q \in requests
  /\ q.store \in dead \/ "refuse" \in StoreFaults
  /\ requests' = requests \ {q}
  /\ Send(q, FALSE, {})
  /\ UNCHANGED <<tables, serving, dead>>

(* The main loop takes requests one by one.                                *)
TakeRequest(s, q) == Create(s, q) \/ Delete(s, q) \/ GetHistory(s, q) \/ InsertMessage(s, q)

StoreWorks(s) == InsertEmbedding(s) \/ Touch(s)

StoreNext ==
  \/ \E s \in Stores : StoreWorks(s) \/ Die(s) \/ \E q \in requests : TakeRequest(s, q)
  \/ \E q \in requests : Refuse(q)

-----------------------------------------------------------------------------
(* Properties.                                                             *)

(* Every message is in a conversation that exists and every embedding      *)
(* belongs to a message, with deletions by one store between the           *)
(* statements of another and a death after any of them.                    *)
NoOrphans ==
  /\ \A row \in messages : row.conversation \in conversations
  /\ embeddings \subseteq IdsOf(messages)

(* A stored message is neither changed nor removed while its conversation  *)
(* exists, whatever else is stored under its id.                           *)
StoredStays ==
  [][\A row \in messages : row.conversation \in conversations' => row \in messages']_messages

=============================================================================
