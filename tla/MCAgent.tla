------------------------------ MODULE MCAgent -------------------------------
(* Model-checking instances of Agent. *)
EXTENDS Agent, TLC

CONSTANTS g1, t1, t2, c1, home, other, m1

NotATask == [task |-> NoTalk, step |-> 0, op |-> "visit"]

AVisit(op, store, embed) ==
  [id |-> 0, about |-> NotATask, internal |-> FALSE, op |-> op, store |-> store,
   conversation |-> c1, message |-> m1, content |-> Said(NoTalk, "user"), embed |-> embed]

(* Another session deletes the conversation, and appends to it with an     *)
(* embedding, through a store of its own or through this session's.        *)
TheVisits ==
  {AVisit("conversation_delete", other, FALSE), AVisit("message_append", home, TRUE)}

NoVisits == {}

(* The goal may come without a conversation, as those of the command line. *)
InOneTalk == [t \in {g1, t1} |-> IF t = g1 THEN {c1, NoTalk} ELSE {c1}]
TwoTurns == [t \in {t1, t2} |-> {c1}]

=============================================================================
