--------------------------- MODULE StdioTransport ---------------------------
(***************************************************************************)
(* The multiplexed stdio transport of one plugin process: ProcessHandle of *)
(* chassis-core/src/process.rs.                                            *)
(*                                                                         *)
(* Any number of callers run send_request at once.  Each takes a fresh id, *)
(* registers a oneshot sender under that id in `pending`, puts its request *)
(* in the bounded channel of the stdin writer task and awaits the oneshot. *)
(* The writer task moves messages from the channel to the child's stdin.   *)
(* The reader task takes lines off the child's stdout, completes the       *)
(* oneshot a response names, forwards reverse requests to the kernel and,  *)
(* when the pipe ends, drains `pending` with PLUGIN_UNAVAILABLE.           *)
(*                                                                         *)
(* The child is any program: it reads requests in order, answers them in   *)
(* any order or twice, makes requests of its own, prints noise, and closes *)
(* either pipe at any moment.  A process exit is both pipes closed, in the *)
(* order the operating system likes.                                       *)
(***************************************************************************)
EXTENDS Naturals, Sequences

CONSTANTS
  Calls,           \* the calls of send_request, one element per call
  TimedCalls,      \* the calls made under tokio::time::timeout
  Reverses,        \* the requests the child makes of the kernel
  Notes,           \* the calls of send_notification
  ReverseChannel,  \* spawned with a reverse channel (create_reverse_channel)
  ChanCap,         \* capacity of the stdin channel (128 in the code)
  PipeCap,         \* lines an operating-system pipe holds before it blocks
  NoAnswer,        \* an empty oneshot
  Unavailable      \* the PLUGIN_UNAVAILABLE error the drain sends

ASSUME TransportAssumption ==
  /\ TimedCalls \subseteq Calls
  /\ ReverseChannel \in BOOLEAN
  /\ ChanCap \in Nat \ {0}
  /\ PipeCap \in Nat \ {0}
  /\ NoAnswer \notin Calls
  /\ Unavailable \notin Calls
  /\ NoAnswer # Unavailable

VARIABLES
  pc,          \* pc[c]: where call c of send_request is
  id,          \* id[c]: the request id of call c, 0 before it has one
  nextId,      \* next_request_id
  pending,     \* pending_requests: records [id, call]
  oneshot,     \* oneshot[c]: what the oneshot of call c holds
  note,        \* note[n]: where call n of send_notification is
  rev,         \* rev[r]: where reverse request r is
  stdinQ,      \* the mpsc channel of the writer task
  writer,      \* the writer task: "running" or "stopped"
  stdinPipe,   \* lines written to the child's stdin, not read yet
  stdinHeld,   \* the child holds the read end of its stdin
  inbox,       \* requests the child has read
  answered,    \* requests the child has answered once
  repeated,    \* requests the child has answered twice
  stdoutPipe,  \* lines the child has printed, not read yet
  stdoutHeld,  \* the child holds the write end of its stdout
  reader       \* the reader task: "reading" or "stopped"

callVars  == <<pc, id, nextId, pending, oneshot>>
childVars == <<stdinHeld, inbox, answered, repeated, stdoutHeld>>
vars == <<pc, id, nextId, pending, oneshot, note, rev, stdinQ, writer,
          stdinPipe, stdinHeld, inbox, answered, repeated, stdoutPipe,
          stdoutHeld, reader>>

-----------------------------------------------------------------------------
(* Messages.  `body` stands for the payload: it names the caller that made *)
(* the request, and a response carries the body of the request it answers, *)
(* so that an answer that reaches the wrong caller can be told.            *)

Request(i, c)  == [type |-> "request", id |-> i, body |-> c]
ReplyTo(r)     == [type |-> "reply", id |-> 0, body |-> r]
Notify(n)      == [type |-> "note", id |-> 0, body |-> n]
Response(m)    == [type |-> "response", id |-> m.id, body |-> m.body]
ReverseCall(r) == [type |-> "reverse", id |-> 0, body |-> r]
Noise          == [type |-> "noise", id |-> 0, body |-> NoAnswer]
Garbled        == [type |-> "garbled", id |-> 0, body |-> NoAnswer]

Waiting(c)  == pc[c] \in {"sending", "waiting"}
InFlight(c) == pc[c] \in {"numbered", "sending", "waiting"}
Terminal    == {"returned", "failed", "cancelled"}

-----------------------------------------------------------------------------

Init ==
  /\ pc = [c \in Calls |-> "idle"]
  /\ id = [c \in Calls |-> 0]
  /\ nextId = 1
  /\ pending = {}
  /\ oneshot = [c \in Calls |-> NoAnswer]
  /\ note = [n \in Notes |-> "idle"]
  /\ rev = [r \in Reverses |-> "idle"]
  /\ stdinQ = <<>>
  /\ writer = "running"
  /\ stdinPipe = <<>>
  /\ stdinHeld = TRUE
  /\ inbox = {}
  /\ answered = {}
  /\ repeated = {}
  /\ stdoutPipe = <<>>
  /\ stdoutHeld = TRUE
  /\ reader = "reading"

-----------------------------------------------------------------------------
(* send_request, one action for each point where another task may run.     *)

(* Slip: the id is read and not advanced, so two callers share it.         *)
TakeIdTwice(c) ==
  /\ pc[c] = "idle"
  /\ id' = [id EXCEPT ![c] = nextId]
  /\ pc' = [pc EXCEPT ![c] = "numbered"]
  /\ UNCHANGED <<nextId, pending, oneshot, note, rev, stdinQ, writer, stdinPipe,
                 childVars, stdoutPipe, reader>>

(* fetch_add on next_request_id.                                           *)
TakeId(c) ==
  /\ pc[c] = "idle"
  /\ id' = [id EXCEPT ![c] = nextId]
  /\ nextId' = nextId + 1
  /\ pc' = [pc EXCEPT ![c] = "numbered"]
  /\ UNCHANGED <<pending, oneshot, note, rev, stdinQ, writer, stdinPipe,
                 childVars, stdoutPipe, reader>>

(* HashMap::insert under the lock: an entry with the same id is replaced.  *)
Register(c) ==
  /\ pc[c] = "numbered"
  /\ pending' = {p \in pending : p.id # id[c]} \cup {[id |-> id[c], call |-> c]}
  /\ pc' = [pc EXCEPT ![c] = "sending"]
  /\ UNCHANGED <<id, nextId, oneshot, note, rev, stdinQ, writer, stdinPipe,
                 childVars, stdoutPipe, reader>>

(* Slip: an unbounded channel.                                             *)
EnqueueUnbounded(c) ==
  /\ pc[c] = "sending"
  /\ writer = "running"
  /\ stdinQ' = Append(stdinQ, Request(id[c], c))
  /\ pc' = [pc EXCEPT ![c] = "waiting"]
  /\ UNCHANGED <<id, nextId, pending, oneshot, note, rev, writer, stdinPipe,
                 childVars, stdoutPipe, reader>>

(* stdin_tx.send: waits for room, fails when the writer task has dropped   *)
(* the receiver.                                                           *)
Enqueue(c) ==
  /\ pc[c] = "sending"
  /\ writer = "running"
  /\ Len(stdinQ) < ChanCap
  /\ stdinQ' = Append(stdinQ, Request(id[c], c))
  /\ pc' = [pc EXCEPT ![c] = "waiting"]
  /\ UNCHANGED <<id, nextId, pending, oneshot, note, rev, writer, stdinPipe,
                 childVars, stdoutPipe, reader>>

(* Slips: the entry stays in `pending`; try_send, which also fails when    *)
(* the channel is only full.                                               *)
EnqueueFailLeaks(c) ==
  /\ pc[c] = "sending"
  /\ writer = "stopped"
  /\ pc' = [pc EXCEPT ![c] = "failed"]
  /\ UNCHANGED <<id, nextId, pending, oneshot, note, rev, stdinQ, writer,
                 stdinPipe, childVars, stdoutPipe, reader>>

EnqueueFailWhenFull(c) ==
  /\ pc[c] = "sending"
  /\ writer = "stopped" \/ Len(stdinQ) = ChanCap
  /\ pending' = {p \in pending : p.id # id[c]}
  /\ pc' = [pc EXCEPT ![c] = "failed"]
  /\ UNCHANGED <<id, nextId, oneshot, note, rev, stdinQ, writer, stdinPipe,
                 childVars, stdoutPipe, reader>>

EnqueueFail(c) ==
  /\ pc[c] = "sending"
  /\ writer = "stopped"
  /\ pending' = {p \in pending : p.id # id[c]}
  /\ pc' = [pc EXCEPT ![c] = "failed"]
  /\ UNCHANGED <<id, nextId, oneshot, note, rev, stdinQ, writer, stdinPipe,
                 childVars, stdoutPipe, reader>>

(* rx.await completes.                                                     *)
Return(c) ==
  /\ pc[c] = "waiting"
  /\ oneshot[c] # NoAnswer
  /\ pc' = [pc EXCEPT ![c] = "returned"]
  /\ UNCHANGED <<id, nextId, pending, oneshot, note, rev, stdinQ, writer,
                 stdinPipe, childVars, stdoutPipe, reader>>

(* tokio::time::timeout drops the future at whichever await it is in.  The *)
(* oneshot receiver goes; the entry in `pending` stays.                    *)
Cancel(c) ==
  /\ c \in TimedCalls
  /\ InFlight(c)
  /\ pc' = [pc EXCEPT ![c] = "cancelled"]
  /\ UNCHANGED <<id, nextId, pending, oneshot, note, rev, stdinQ, writer,
                 stdinPipe, childVars, stdoutPipe, reader>>

(* send_notification: the same channel, and nothing to wait for.           *)
SendNote(n) ==
  /\ note[n] = "idle"
  /\ \/ /\ writer = "running"
        /\ Len(stdinQ) < ChanCap
        /\ stdinQ' = Append(stdinQ, Notify(n))
        /\ note' = [note EXCEPT ![n] = "sent"]
     \/ /\ writer = "stopped"
        /\ note' = [note EXCEPT ![n] = "failed"]
        /\ UNCHANGED stdinQ
  /\ UNCHANGED <<callVars, rev, writer, stdinPipe, childVars, stdoutPipe, reader>>

-----------------------------------------------------------------------------
(* The stdin writer task.                                                  *)

WriteLine ==
  /\ writer = "running"
  /\ stdinQ # <<>>
  /\ stdinHeld
  /\ Len(stdinPipe) < PipeCap
  /\ stdinPipe' = Append(stdinPipe, Head(stdinQ))
  /\ stdinQ' = Tail(stdinQ)
  /\ UNCHANGED <<callVars, note, rev, writer, childVars, stdoutPipe, reader>>

(* The read end is gone: the write fails, the task ends, and the messages  *)
(* still in the channel go with the receiver.                              *)
WriteFails ==
  /\ writer = "running"
  /\ stdinQ # <<>>
  /\ ~stdinHeld
  /\ writer' = "stopped"
  /\ stdinQ' = <<>>
  /\ UNCHANGED <<callVars, note, rev, stdinPipe, childVars, stdoutPipe, reader>>

-----------------------------------------------------------------------------
(* The stdout reader task.                                                 *)

(* A line came: the pipe holds one and the task still reads.               *)
LineIs(type) ==
  /\ reader = "reading"
  /\ stdoutPipe # <<>>
  /\ Head(stdoutPipe).type = type

(* Slip: pending.get in place of pending.remove.                           *)
DeliverKeepsEntry ==
  /\ LineIs("response")
  /\ LET res == Head(stdoutPipe)
     IN  oneshot' = [c \in Calls |->
           IF [id |-> res.id, call |-> c] \in pending /\ pc[c] # "cancelled"
           THEN res.body ELSE oneshot[c]]
  /\ stdoutPipe' = Tail(stdoutPipe)
  /\ UNCHANGED <<pc, id, nextId, pending, note, rev, stdinQ, writer, stdinPipe,
                 childVars, reader>>

(* pending.remove, then send on the oneshot.  The send is lost when the    *)
(* caller has given up, and so is a response nobody is registered for.     *)
Deliver ==
  /\ LineIs("response")
  /\ LET res  == Head(stdoutPipe)
         hits == {p \in pending : p.id = res.id}
     IN  /\ pending' = pending \ hits
         /\ oneshot' = [c \in Calls |->
              IF (\E p \in hits : p.call = c) /\ pc[c] # "cancelled"
              THEN res.body ELSE oneshot[c]]
  /\ stdoutPipe' = Tail(stdoutPipe)
  /\ UNCHANGED <<pc, id, nextId, note, rev, stdinQ, writer, stdinPipe,
                 childVars, reader>>

(* Slip: the reader puts the reply in the stdin channel itself.            *)
ForwardReverseInline ==
  /\ LineIs("reverse")
  /\ Len(stdinQ) < ChanCap
  /\ LET r == Head(stdoutPipe).body
     IN  /\ rev' = [rev EXCEPT ![r] = "queued"]
         /\ stdinQ' = Append(stdinQ, ReplyTo(r))
  /\ stdoutPipe' = Tail(stdoutPipe)
  /\ UNCHANGED <<callVars, note, writer, stdinPipe, childVars, reader>>

(* A reverse request goes to the router's task, which always listens; with *)
(* no reverse channel it is dropped and the child is never answered.       *)
ForwardReverse ==
  /\ LineIs("reverse")
  /\ LET r == Head(stdoutPipe).body
     IN  rev' = [rev EXCEPT ![r] = IF ReverseChannel THEN "handling" ELSE "dropped"]
  /\ stdoutPipe' = Tail(stdoutPipe)
  /\ UNCHANGED <<callVars, note, stdinQ, writer, stdinPipe, childVars, reader>>

(* Notifications, blank and malformed lines change nothing here.           *)
SkipLine ==
  /\ LineIs("noise")
  /\ stdoutPipe' = Tail(stdoutPipe)
  /\ UNCHANGED <<callVars, note, rev, stdinQ, writer, stdinPipe, childVars, reader>>

(* Slip: the task ends and answers nobody.                                 *)
StopAtEof ==
  /\ reader = "reading"
  /\ (stdoutPipe = <<>> /\ ~stdoutHeld) \/ LineIs("garbled")
  /\ pending' = {}
  /\ reader' = "stopped"
  /\ stdoutPipe' = <<>>
  /\ UNCHANGED <<pc, id, nextId, oneshot, note, rev, stdinQ, writer, stdinPipe,
                 childVars>>

(* next_line returned None (end of the pipe) or Err (a line that is not    *)
(* UTF-8): the loop ends, every registered caller gets PLUGIN_UNAVAILABLE  *)
(* and the task drops the read end of the pipe.                            *)
DrainAtEof ==
  /\ reader = "reading"
  /\ \/ stdoutPipe = <<>> /\ ~stdoutHeld
     \/ LineIs("garbled")
  /\ oneshot' = [c \in Calls |->
       IF (\E p \in pending : p.call = c) /\ pc[c] # "cancelled"
       THEN Unavailable ELSE oneshot[c]]
  /\ pending' = {}
  /\ reader' = "stopped"
  /\ stdoutPipe' = <<>>
  /\ UNCHANGED <<pc, id, nextId, note, rev, stdinQ, writer, stdinPipe, childVars>>

-----------------------------------------------------------------------------
(* Reverse requests inside the kernel: one task per request, and one more  *)
(* to put the reply in the stdin channel so that the reader never waits.   *)

HandleReverse(r) ==
  /\ rev[r] = "handling"
  /\ rev' = [rev EXCEPT ![r] = "replying"]
  /\ UNCHANGED <<callVars, note, stdinQ, writer, stdinPipe, childVars,
                 stdoutPipe, reader>>

QueueReply(r) ==
  /\ rev[r] = "replying"
  /\ \/ /\ writer = "running"
        /\ Len(stdinQ) < ChanCap
        /\ stdinQ' = Append(stdinQ, ReplyTo(r))
        /\ rev' = [rev EXCEPT ![r] = "queued"]
     \/ /\ writer = "stopped"
        /\ rev' = [rev EXCEPT ![r] = "dropped"]
        /\ UNCHANGED stdinQ
  /\ UNCHANGED <<callVars, note, writer, stdinPipe, childVars, stdoutPipe, reader>>

-----------------------------------------------------------------------------
(* The child.                                                              *)

(* A plugin prints before it reads on, so one that is blocked on a full    *)
(* stdout reads nothing.                                                   *)
CanPrint == stdoutHeld /\ reader = "reading" /\ Len(stdoutPipe) < PipeCap

ChildReads ==
  /\ stdinHeld
  /\ stdinPipe # <<>>
  /\ Len(stdoutPipe) < PipeCap
  /\ LET m == Head(stdinPipe)
     IN  /\ inbox' = IF m.type = "request" THEN inbox \cup {m} ELSE inbox
         /\ rev' = IF m.type = "reply" THEN [rev EXCEPT ![m.body] = "answered"]
                                       ELSE rev
  /\ stdinPipe' = Tail(stdinPipe)
  /\ UNCHANGED <<callVars, note, stdinQ, writer, stdinHeld, answered, repeated,
                 stdoutPipe, stdoutHeld, reader>>

ChildAnswers(m) ==
  /\ m \notin answered
  /\ CanPrint
  /\ stdoutPipe' = Append(stdoutPipe, Response(m))
  /\ answered' = answered \cup {m}
  /\ UNCHANGED <<callVars, note, rev, stdinQ, writer, stdinPipe, stdinHeld,
                 inbox, repeated, stdoutHeld, reader>>

ChildRepeats(m) ==
  /\ m \in answered \ repeated
  /\ CanPrint
  /\ stdoutPipe' = Append(stdoutPipe, Response(m))
  /\ repeated' = repeated \cup {m}
  /\ UNCHANGED <<callVars, note, rev, stdinQ, writer, stdinPipe, stdinHeld,
                 inbox, answered, stdoutHeld, reader>>

ChildAsks(r) ==
  /\ rev[r] = "idle"
  /\ CanPrint
  /\ stdoutPipe' = Append(stdoutPipe, ReverseCall(r))
  /\ rev' = [rev EXCEPT ![r] = "asked"]
  /\ UNCHANGED <<callVars, note, stdinQ, writer, stdinPipe, childVars, reader>>

ChildPrints(line) ==
  /\ CanPrint
  /\ stdoutPipe' = Append(stdoutPipe, line)
  /\ UNCHANGED <<callVars, note, rev, stdinQ, writer, stdinPipe, childVars, reader>>

ChildClosesStdin ==
  /\ stdinHeld
  /\ stdinHeld' = FALSE
  /\ stdinPipe' = <<>>
  /\ UNCHANGED <<callVars, note, rev, stdinQ, writer, inbox, answered,
                 repeated, stdoutPipe, stdoutHeld, reader>>

ChildClosesStdout ==
  /\ stdoutHeld
  /\ stdoutHeld' = FALSE
  /\ UNCHANGED <<callVars, note, rev, stdinQ, writer, stdinPipe, stdinHeld,
                 inbox, answered, repeated, stdoutPipe, reader>>

-----------------------------------------------------------------------------

CallerStep(c) == TakeId(c) \/ Register(c) \/ Enqueue(c) \/ EnqueueFail(c)
                   \/ Return(c) \/ Cancel(c)

WriterStep == WriteLine \/ WriteFails

ReaderStep == Deliver \/ ForwardReverse \/ SkipLine \/ DrainAtEof

ChildStep ==
  \/ ChildReads
  \/ \E m \in inbox : ChildAnswers(m) \/ ChildRepeats(m)
  \/ \E r \in Reverses : ChildAsks(r)
  \/ \E line \in {Noise, Garbled} : ChildPrints(line)
  \/ ChildClosesStdin
  \/ ChildClosesStdout

Next ==
  \/ \E c \in Calls : CallerStep(c)
  \/ \E n \in Notes : SendNote(n)
  \/ \E r \in Reverses : HandleReverse(r) \/ QueueReply(r)
  \/ WriterStep
  \/ ReaderStep
  \/ ChildStep

Spec == Init /\ [][Next]_vars

(***************************************************************************)
(* Fairness.  The tokio runtime polls every task that is ready, so each    *)
(* task that can move does.  The permits of a tokio mpsc channel are given *)
(* to blocked senders in order, so a sender does not lose every race for a *)
(* free slot: strong fairness for the sends.  Nothing is assumed of a      *)
(* caller that has not called, of a timeout that may be late, nor, in      *)
(* KernelFairness, of the child.                                           *)
(***************************************************************************)
KernelFairness ==
  /\ \A c \in Calls : /\ WF_vars(Register(c))
                      /\ SF_vars(Enqueue(c))
                      /\ WF_vars(EnqueueFail(c))
                      /\ WF_vars(Return(c))
  /\ \A r \in Reverses : WF_vars(HandleReverse(r)) /\ SF_vars(QueueReply(r))
  /\ WF_vars(WriterStep)
  /\ WF_vars(ReaderStep)

FairSpec == Spec /\ KernelFairness

(* A child that keeps reading and answers what it read, as the plugins of  *)
(* this repository do while they live.                                     *)
ChildFairness ==
  /\ SF_vars(ChildReads)
  /\ SF_vars(\E m \in inbox : ChildAnswers(m))

-----------------------------------------------------------------------------
(* Properties.                                                             *)

Requests == [type : {"request"}, id : Nat, body : Calls]
Messages ==
  Requests \cup [type : {"reply"}, id : {0}, body : Reverses]
           \cup [type : {"note"}, id : {0}, body : Notes]
Lines ==
  [type : {"response"}, id : Nat, body : Calls]
    \cup [type : {"reverse"}, id : {0}, body : Reverses]
    \cup {Noise, Garbled}

TypeOK ==
  /\ pc \in [Calls -> {"idle", "numbered", "sending", "waiting"} \cup Terminal]
  /\ id \in [Calls -> Nat]
  /\ nextId \in Nat \ {0}
  /\ pending \in SUBSET [id : Nat, call : Calls]
  /\ oneshot \in [Calls -> Calls \cup {NoAnswer, Unavailable}]
  /\ note \in [Notes -> {"idle", "sent", "failed"}]
  /\ rev \in [Reverses -> {"idle", "asked", "handling", "replying", "queued",
                           "answered", "dropped"}]
  /\ stdinQ \in Seq(Messages) /\ Len(stdinQ) <= ChanCap
  /\ stdinPipe \in Seq(Messages)
  /\ stdoutPipe \in Seq(Lines)
  /\ inbox \in SUBSET Requests
  /\ answered \in SUBSET inbox
  /\ repeated \in SUBSET answered
  /\ writer \in {"running", "stopped"}
  /\ reader \in {"reading", "stopped"}
  /\ stdinHeld \in BOOLEAN
  /\ stdoutHeld \in BOOLEAN

(* However the child orders and repeats its answers, and whichever callers *)
(* have given up, the answer in a caller's oneshot is the answer to the    *)
(* request of that caller (process.rs 181-192).                            *)
OwnAnswer == \A c \in Calls : oneshot[c] \in Calls => oneshot[c] = c

(* A caller that is in stdin_tx.send or rx.await can still be woken: its   *)
(* oneshot is full or its sender is registered.  Registering before        *)
(* sending is what makes it so (process.rs 273-292).                       *)
NoLostWakeup ==
  \A c \in Calls :
    Waiting(c) => \/ oneshot[c] # NoAnswer
                  \/ [id |-> id[c], call |-> c] \in pending

(* A call that has returned leaves nothing in `pending`: only the callers  *)
(* still in send_request, and those whose timeout dropped them, are there. *)
NoLeakOnReturn == \A p \in pending : Waiting(p.call) \/ pc[p.call] = "cancelled"

(* A oneshot is completed once: a repeated answer, or an answer that races *)
(* the drain, does not replace what the caller was given.                  *)
AnswerIsFinal ==
  [][\A c \in Calls : oneshot[c] # NoAnswer => oneshot'[c] = oneshot[c]]_vars

(* The transport keeps the promises of RpcChannel: a call is opened and    *)
(* closed once, replied to only after the plugin read it, and fails only   *)
(* when a pipe of the plugin broke.                                        *)
Status(c) ==
  CASE pc[c] = "idle"      -> "new"
    [] InFlight(c)         -> "open"
    [] pc[c] = "cancelled" -> "cancelled"
    [] pc[c] = "failed"    -> "unavailable"
    [] pc[c] = "returned"  -> IF oneshot[c] = Unavailable THEN "unavailable"
                                                          ELSE "replied"

Rpc == INSTANCE RpcChannel WITH
         status <- [c \in Calls |-> Status(c)],
         served <- {m.body : m \in inbox},
         broken <- reader = "stopped" \/ writer = "stopped"

ImplementsRpcChannel == Rpc!Spec

(* A caller that was registered when the process died, both pipes closed   *)
(* and the drain yet to come, gets out of send_request, timeout or not     *)
(* (process.rs 230-242).                                                   *)
DeathFailsRegistered ==
  \A c \in Calls :
    (/\ ~stdinHeld /\ ~stdoutHeld
     /\ reader = "reading"
     /\ Waiting(c) /\ [id |-> id[c], call |-> c] \in pending)
      ~> pc[c] \in Terminal

(* "Upon detecting EOF ... signal all in-flight caller oneshots" (ADR-029):*)
(* once the reader has seen the end of the pipe nobody stays inside        *)
(* send_request.                                                           *)
EofFailsEveryCaller ==
  \A c \in Calls : (InFlight(c) /\ reader = "stopped") ~> pc[c] \in Terminal

(* While the plugin lives, reads and answers, every call completes and     *)
(* every reverse request is answered, with all queues and pipes full as    *)
(* may be: the reader never waits for room in the stdin channel.           *)
Healthy == stdinHeld /\ stdoutHeld /\ reader = "reading"
HealthyProgress ==
  ChildFairness /\ []Healthy =>
    /\ \A c \in Calls : pc[c] = "numbered" ~> pc[c] \in Terminal
    /\ \A r \in Reverses : rev[r] = "asked" ~> rev[r] = "answered"

=============================================================================
