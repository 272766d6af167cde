------------------------ MODULE StdioTransportProofs ------------------------
(***************************************************************************)
(* Proofs about StdioTransport, for any sets of calls, reverse requests    *)
(* and notifications and any capacities of the channel and the pipes.      *)
(***************************************************************************)
EXTENDS StdioTransport, TLAPS

-----------------------------------------------------------------------------
(* The inductive invariant behind OwnAnswer, NoLostWakeup, NoLeakOnReturn  *)
(* and AnswerIsFinal.                                                      *)

(* A request or a response carries the id of the caller it belongs to.     *)
Addressed(m) ==
  m.type \in {"request", "response"} => m.id = id[m.body] /\ m.id # 0

AllAddressed ==
  /\ \A i \in 1 .. Len(stdinQ) : Addressed(stdinQ[i])
  /\ \A i \in 1 .. Len(stdinPipe) : Addressed(stdinPipe[i])
  /\ \A i \in 1 .. Len(stdoutPipe) : Addressed(stdoutPipe[i])
  /\ \A m \in inbox : Addressed(m)

IdsDistinct ==
  /\ \A c \in Calls : id[c] < nextId /\ (id[c] = 0 <=> pc[c] = "idle")
  /\ \A c, d \in Calls : id[c] = id[d] /\ id[c] # 0 => c = d

PendingOwned ==
  \A p \in pending : /\ p.id = id[p.call] /\ p.id # 0
                     /\ oneshot[p.call] = NoAnswer

(* No answer before the call registered.                                   *)
EmptyBefore ==
  \A c \in Calls : pc[c] \in {"idle", "numbered"} => oneshot[c] = NoAnswer

TransportInv ==
  /\ TypeOK
  /\ IdsDistinct
  /\ AllAddressed
  /\ PendingOwned
  /\ EmptyBefore
  /\ OwnAnswer
  /\ NoLostWakeup
  /\ NoLeakOnReturn

-----------------------------------------------------------------------------
(* One step of any task or of the child keeps the types.                   *)
LEMMA TypeCorrectStep == TypeOK /\ [Next]_vars => TypeOK'
<1> QED
  <2> USE TransportAssumption
  <2> SUFFICES ASSUME TypeOK, [Next]_vars PROVE TypeOK'
    OBVIOUS
  <2> USE DEF TypeOK, Requests, Messages, Lines, Noise, Garbled, childVars, callVars, Terminal
  <2>1. ASSUME NEW c \in Calls, TakeId(c) PROVE TypeOK'
    BY <2>1, SMTT(30) DEF TakeId
  <2>2. ASSUME NEW c \in Calls, Register(c) PROVE TypeOK'
    BY <2>2 DEF Register
  <2>3. ASSUME NEW c \in Calls, Enqueue(c) PROVE TypeOK'
    BY <2>3, SMTT(30) DEF Enqueue, Request
  <2>4. ASSUME NEW c \in Calls, EnqueueFail(c) PROVE TypeOK'
    BY <2>4 DEF EnqueueFail
  <2>5. ASSUME NEW c \in Calls, Return(c) PROVE TypeOK'
    BY <2>5 DEF Return
  <2>6. ASSUME NEW c \in Calls, Cancel(c) PROVE TypeOK'
    BY <2>6 DEF Cancel
  <2>7. ASSUME NEW n \in Notes, SendNote(n) PROVE TypeOK'
    <3>1. CASE writer = "running" /\ Len(stdinQ) < ChanCap
      <4>1. Notify(n) \in Messages
        BY DEF Notify
      <4>2. /\ stdinQ' = Append(stdinQ, Notify(n))
            /\ note' = [note EXCEPT ![n] = "sent"]
        BY <2>7, <3>1 DEF SendNote
      <4>3. stdinQ' \in Seq(Messages) /\ Len(stdinQ') <= ChanCap
        BY <3>1, <4>1, <4>2
      <4> QED
        BY <2>7, <4>2, <4>3 DEF SendNote
    <3>2. CASE writer = "stopped"
      BY <2>7, <3>2 DEF SendNote
    <3> QED
      BY <2>7, <3>1, <3>2 DEF SendNote
  <2>8. ASSUME NEW r \in Reverses, HandleReverse(r) PROVE TypeOK'
    BY <2>8 DEF HandleReverse
  <2>9. ASSUME NEW r \in Reverses, QueueReply(r) PROVE TypeOK'
    <3>1. CASE writer = "running" /\ Len(stdinQ) < ChanCap
      <4>1. ReplyTo(r) \in Messages
        BY DEF ReplyTo
      <4>2. /\ stdinQ' = Append(stdinQ, ReplyTo(r))
            /\ rev' = [rev EXCEPT ![r] = "queued"]
        BY <2>9, <3>1 DEF QueueReply
      <4>3. stdinQ' \in Seq(Messages) /\ Len(stdinQ') <= ChanCap
        BY <3>1, <4>1, <4>2
      <4> QED
        BY <2>9, <4>2, <4>3 DEF QueueReply
    <3>2. CASE writer = "stopped"
      BY <2>9, <3>2 DEF QueueReply
    <3> QED
      BY <2>9, <3>1, <3>2 DEF QueueReply
  <2>10. CASE WriteLine
    BY <2>10, SMTT(30) DEF WriteLine
  <2>11. CASE WriteFails
    BY <2>11 DEF WriteFails
  <2>12. CASE Deliver
    BY <2>12, SMTT(30) DEF Deliver, LineIs
  <2>13. CASE ForwardReverse
    BY <2>13, SMTT(30) DEF ForwardReverse, LineIs
  <2>14. CASE SkipLine
    BY <2>14 DEF SkipLine, LineIs
  <2>15. CASE DrainAtEof
    BY <2>15 DEF DrainAtEof
  <2>16. CASE ChildReads
    BY <2>16, SMTT(30) DEF ChildReads
  <2>17. ASSUME NEW m \in inbox, ChildAnswers(m) PROVE TypeOK'
    BY <2>17, SMTT(30) DEF ChildAnswers, Response, CanPrint
  <2>18. ASSUME NEW m \in inbox, ChildRepeats(m) PROVE TypeOK'
    BY <2>18, SMTT(30) DEF ChildRepeats, Response, CanPrint
  <2>19. ASSUME NEW r \in Reverses, ChildAsks(r) PROVE TypeOK'
    BY <2>19 DEF ChildAsks, ReverseCall, CanPrint
  <2>20. ASSUME NEW line \in {Noise, Garbled}, ChildPrints(line) PROVE TypeOK'
    BY <2>20, SMTT(30) DEF ChildPrints, Noise, Garbled, CanPrint
  <2>21. CASE ChildClosesStdin
    <3> HIDE DEF Messages, Lines, Requests
    <3>1. /\ UNCHANGED <<callVars, note, rev, stdinQ, writer, inbox>>
          /\ UNCHANGED <<answered, repeated, stdoutPipe, stdoutHeld, reader>>
      BY <2>21 DEF ChildClosesStdin
    <3>2. stdinPipe' = <<>> /\ stdinHeld' = FALSE
      BY <2>21 DEF ChildClosesStdin
    <3>3. stdinPipe' \in Seq(Messages)
      BY <3>2
    <3>4. stdinHeld' \in BOOLEAN
      BY <3>2
    <3> QED
      BY <3>1, <3>3, <3>4
  <2>22. CASE ChildClosesStdout
    BY <2>22 DEF ChildClosesStdout
  <2>23. CASE UNCHANGED vars
    BY <2>23 DEF vars
  <2> QED
    BY <2>1, <2>2, <2>3, <2>4, <2>5, <2>6, <2>7, <2>8, <2>9, <2>10, <2>11,
       <2>12, <2>13, <2>14, <2>15, <2>16, <2>17, <2>18, <2>19, <2>20, <2>21,
       <2>22, <2>23
    DEF Next, CallerStep, WriterStep, ReaderStep, ChildStep

(* Type correctness: every variable of the transport keeps its type and    *)
(* the stdin channel never exceeds its capacity (mpsc::channel(128)).      *)
THEOREM TypeCorrect == Spec => []TypeOK
<1>1. Init => TypeOK
  BY TransportAssumption DEF Init, TypeOK, Requests, Messages, Lines
<1> QED
  BY <1>1, TypeCorrectStep, PTL DEF Spec

-----------------------------------------------------------------------------

LEMMA InvInit == Init => TransportInv
  BY TransportAssumption
  DEF Init, TransportInv, TypeOK, IdsDistinct, AllAddressed, PendingOwned,
      EmptyBefore, OwnAnswer, NoLostWakeup, NoLeakOnReturn, Waiting

LEMMA IdsDistinctStep ==
  TypeOK /\ IdsDistinct /\ [Next]_vars => IdsDistinct'
<1> SUFFICES ASSUME TypeOK, IdsDistinct, [Next]_vars PROVE IdsDistinct'
  OBVIOUS
<1> QED
  <2> USE DEF TypeOK, IdsDistinct, callVars, childVars
  <2>1. ASSUME NEW c \in Calls, TakeId(c) PROVE IdsDistinct'
    BY <2>1 DEF TakeId
  <2>2. ASSUME NEW c \in Calls, Register(c) PROVE IdsDistinct'
    BY <2>2 DEF Register
  <2>3. ASSUME NEW c \in Calls, Enqueue(c) PROVE IdsDistinct'
    BY <2>3 DEF Enqueue, Request
  <2>4. ASSUME NEW c \in Calls, EnqueueFail(c) PROVE IdsDistinct'
    BY <2>4 DEF EnqueueFail
  <2>5. ASSUME NEW c \in Calls, Return(c) PROVE IdsDistinct'
    BY <2>5 DEF Return
  <2>6. ASSUME NEW c \in Calls, Cancel(c) PROVE IdsDistinct'
    BY <2>6 DEF Cancel, InFlight
  <2>7. ASSUME NEW n \in Notes, SendNote(n) PROVE IdsDistinct'
    BY <2>7 DEF SendNote, Notify
  <2>8. ASSUME NEW r \in Reverses, HandleReverse(r) PROVE IdsDistinct'
    BY <2>8 DEF HandleReverse
  <2>9. ASSUME NEW r \in Reverses, QueueReply(r) PROVE IdsDistinct'
    BY <2>9 DEF QueueReply, ReplyTo
  <2>10. CASE WriteLine
    BY <2>10 DEF WriteLine
  <2>11. CASE WriteFails
    BY <2>11 DEF WriteFails
  <2>12. CASE Deliver
    BY <2>12 DEF Deliver, LineIs
  <2>13. CASE ForwardReverse
    BY <2>13 DEF ForwardReverse, LineIs
  <2>14. CASE SkipLine
    BY <2>14 DEF SkipLine, LineIs
  <2>15. CASE DrainAtEof
    BY <2>15 DEF DrainAtEof
  <2>16. CASE ChildReads
    BY <2>16 DEF ChildReads
  <2>17. ASSUME NEW m \in inbox, ChildAnswers(m) PROVE IdsDistinct'
    BY <2>17 DEF ChildAnswers, Response
  <2>18. ASSUME NEW m \in inbox, ChildRepeats(m) PROVE IdsDistinct'
    BY <2>18 DEF ChildRepeats, Response
  <2>19. ASSUME NEW r \in Reverses, ChildAsks(r) PROVE IdsDistinct'
    BY <2>19 DEF ChildAsks, ReverseCall
  <2>20. ASSUME NEW line \in {Noise, Garbled}, ChildPrints(line) PROVE IdsDistinct'
    BY <2>20 DEF ChildPrints, Noise, Garbled
  <2>21. CASE ChildClosesStdin
    BY <2>21 DEF ChildClosesStdin
  <2>22. CASE ChildClosesStdout
    BY <2>22 DEF ChildClosesStdout
  <2>23. CASE UNCHANGED vars
    BY <2>23 DEF vars
  <2> QED
    BY <2>1, <2>2, <2>3, <2>4, <2>5, <2>6, <2>7, <2>8, <2>9, <2>10, <2>11, <2>12, <2>13, <2>14, <2>15, <2>16, <2>17, <2>18, <2>19, <2>20, <2>21, <2>22, <2>23
    DEF Next, CallerStep, WriterStep, ReaderStep, ChildStep

LEMMA AddressedStep ==
  TypeOK /\ IdsDistinct /\ AllAddressed /\ [Next]_vars => AllAddressed'
<1> SUFFICES ASSUME TypeOK, IdsDistinct, AllAddressed, [Next]_vars
             PROVE  AllAddressed'
  OBVIOUS
<1> QED
  <2> USE DEF TypeOK, IdsDistinct, AllAddressed, Addressed, callVars, childVars
  <2>1. ASSUME NEW c \in Calls, TakeId(c) PROVE AllAddressed'
    BY <2>1 DEF TakeId
  <2>2. ASSUME NEW c \in Calls, Register(c) PROVE AllAddressed'
    BY <2>2 DEF Register
  <2>3. ASSUME NEW c \in Calls, Enqueue(c) PROVE AllAddressed'
    BY <2>3 DEF Enqueue, Request
  <2>4. ASSUME NEW c \in Calls, EnqueueFail(c) PROVE AllAddressed'
    BY <2>4 DEF EnqueueFail
  <2>5. ASSUME NEW c \in Calls, Return(c) PROVE AllAddressed'
    BY <2>5 DEF Return
  <2>6. ASSUME NEW c \in Calls, Cancel(c) PROVE AllAddressed'
    BY <2>6 DEF Cancel, InFlight
  <2>7. ASSUME NEW n \in Notes, SendNote(n) PROVE AllAddressed'
    <3>1. /\ \/ stdinQ' = stdinQ
             \/ stdinQ' = Append(stdinQ, Notify(n))
          /\ UNCHANGED <<callVars, stdinPipe, inbox, stdoutPipe>>
      BY <2>7 DEF SendNote
    <3>2. Addressed(Notify(n)) /\ Notify(n) \in Messages
      BY DEF Notify, Messages
    <3>3. \A i \in 1 .. Len(stdinQ') : Addressed(stdinQ'[i])
      <4> HIDE DEF Addressed
      <4>1. CASE stdinQ' = stdinQ
        BY <4>1
      <4>2. CASE stdinQ' = Append(stdinQ, Notify(n))
        <5> DEFINE m == Notify(n)
        <5>1. stdinQ \in Seq(Messages) /\ m \in Messages /\ Addressed(m)
          BY <3>2
        <5>2. \A i \in 1 .. Len(stdinQ) : Addressed(stdinQ[i])
          OBVIOUS
        <5> HIDE DEF m
        <5> QED
          BY <5>1, <5>2, <4>2 DEF m
      <4> QED
        BY <3>1, <4>1, <4>2
    <3> QED
      BY <3>1, <3>3
  <2>8. ASSUME NEW r \in Reverses, HandleReverse(r) PROVE AllAddressed'
    BY <2>8, ZenonT(30) DEF HandleReverse
  <2>9. ASSUME NEW r \in Reverses, QueueReply(r) PROVE AllAddressed'
    <3>1. /\ \/ stdinQ' = stdinQ
             \/ stdinQ' = Append(stdinQ, ReplyTo(r))
          /\ UNCHANGED <<callVars, stdinPipe, inbox, stdoutPipe>>
      BY <2>9 DEF QueueReply
    <3>2. Addressed(ReplyTo(r)) /\ ReplyTo(r) \in Messages
      BY DEF ReplyTo, Messages
    <3>3. \A i \in 1 .. Len(stdinQ') : Addressed(stdinQ'[i])
      <4> HIDE DEF Addressed
      <4>1. CASE stdinQ' = stdinQ
        BY <4>1
      <4>2. CASE stdinQ' = Append(stdinQ, ReplyTo(r))
        <5> DEFINE m == ReplyTo(r)
        <5>1. stdinQ \in Seq(Messages) /\ m \in Messages /\ Addressed(m)
          BY <3>2
        <5>2. \A i \in 1 .. Len(stdinQ) : Addressed(stdinQ[i])
          OBVIOUS
        <5> HIDE DEF m
        <5> QED
          BY <5>1, <5>2, <4>2 DEF m
      <4> QED
        BY <3>1, <4>1, <4>2
    <3> QED
      BY <3>1, <3>3
  <2>10. CASE WriteLine
    <3>1. /\ stdinQ # <<>> /\ stdinQ' = Tail(stdinQ)
          /\ stdinPipe' = Append(stdinPipe, Head(stdinQ))
          /\ UNCHANGED <<callVars, stdoutPipe, inbox>>
      BY <2>10 DEF WriteLine
    <3>2. stdinQ \in Seq(Messages) /\ stdinPipe \in Seq(Messages)
      OBVIOUS
    <3>3. Len(stdinQ) \in Nat \ {0} /\ Head(stdinQ) = stdinQ[1] /\ Head(stdinQ) \in Messages
      BY <3>1, <3>2
    <3>4. \A i \in 1 .. Len(stdinQ') : Addressed(stdinQ'[i])
      <4>1. \A i \in 1 .. Len(stdinQ') : i + 1 \in 1 .. Len(stdinQ) /\ stdinQ'[i] = stdinQ[i + 1]
        BY <3>1, <3>2, <3>3
      <4> HIDE DEF Addressed
      <4> QED
        BY <4>1
    <3>5. \A i \in 1 .. Len(stdinPipe') : Addressed(stdinPipe'[i])
      <4> HIDE DEF Addressed
      <4>1. Addressed(Head(stdinQ))
        BY <3>3
      <4> DEFINE m == Head(stdinQ)
      <4> HIDE DEF m
      <4> QED
        BY <3>1, <3>2, <3>3, <4>1 DEF m
    <3> QED
      BY <3>1, <3>4, <3>5
  <2>11. CASE WriteFails
    BY <2>11 DEF WriteFails
  <2>12. CASE Deliver
    BY <2>12 DEF Deliver, LineIs
  <2>13. CASE ForwardReverse
    BY <2>13 DEF ForwardReverse, LineIs
  <2>14. CASE SkipLine
    BY <2>14 DEF SkipLine, LineIs
  <2>15. CASE DrainAtEof
    BY <2>15 DEF DrainAtEof
  <2>16. CASE ChildReads
    BY <2>16 DEF ChildReads
  <2>17. ASSUME NEW m \in inbox, ChildAnswers(m) PROVE AllAddressed'
    <3>1. /\ stdoutPipe' = Append(stdoutPipe, Response(m))
          /\ UNCHANGED <<callVars, stdinQ, stdinPipe, inbox>>
      BY <2>17 DEF ChildAnswers
    <3>2. Addressed(Response(m))
      BY DEF Requests, Response
    <3>3. \A i \in 1 .. Len(stdoutPipe') : Addressed(stdoutPipe'[i])
      BY <3>1, <3>2 DEF Response
    <3> QED
      BY <3>1, <3>3
  <2>18. ASSUME NEW m \in inbox, ChildRepeats(m) PROVE AllAddressed'
    <3>1. /\ stdoutPipe' = Append(stdoutPipe, Response(m))
          /\ UNCHANGED <<callVars, stdinQ, stdinPipe, inbox>>
      BY <2>18 DEF ChildRepeats
    <3>2. Addressed(Response(m))
      BY DEF Requests, Response
    <3>3. \A i \in 1 .. Len(stdoutPipe') : Addressed(stdoutPipe'[i])
      BY <3>1, <3>2 DEF Response
    <3> QED
      BY <3>1, <3>3
  <2>19. ASSUME NEW r \in Reverses, ChildAsks(r) PROVE AllAddressed'
    BY <2>19 DEF ChildAsks, ReverseCall
  <2>20. ASSUME NEW line \in {Noise, Garbled}, ChildPrints(line) PROVE AllAddressed'
    BY <2>20 DEF ChildPrints, Noise, Garbled
  <2>21. CASE ChildClosesStdin
    BY <2>21 DEF ChildClosesStdin
  <2>22. CASE ChildClosesStdout
    BY <2>22 DEF ChildClosesStdout
  <2>23. CASE UNCHANGED vars
    BY <2>23 DEF vars
  <2> QED
    BY <2>1, <2>2, <2>3, <2>4, <2>5, <2>6, <2>7, <2>8, <2>9, <2>10, <2>11, <2>12, <2>13, <2>14, <2>15, <2>16, <2>17, <2>18, <2>19, <2>20, <2>21, <2>22, <2>23
    DEF Next, CallerStep, WriterStep, ReaderStep, ChildStep

LEMMA PendingStep ==
  TransportInv /\ [Next]_vars =>
    PendingOwned' /\ EmptyBefore' /\ OwnAnswer' /\ NoLostWakeup' /\ NoLeakOnReturn'
<1> DEFINE Goal == /\ PendingOwned
                   /\ EmptyBefore
                   /\ OwnAnswer
                   /\ NoLostWakeup
                   /\ NoLeakOnReturn
<1> SUFFICES ASSUME TransportInv, [Next]_vars PROVE Goal'
  OBVIOUS
<1> QED
  <2> USE TransportAssumption DEF TransportInv, TypeOK, IdsDistinct,
      PendingOwned, EmptyBefore, OwnAnswer, NoLostWakeup, NoLeakOnReturn,
      Waiting, callVars, childVars
  <2>1. ASSUME NEW c \in Calls, TakeId(c) PROVE Goal'
    BY <2>1 DEF TakeId
  <2>2. ASSUME NEW c \in Calls, Register(c) PROVE Goal'
    BY <2>2 DEF Register
  <2>3. ASSUME NEW c \in Calls, Enqueue(c) PROVE Goal'
    BY <2>3 DEF Enqueue, Request
  <2>4. ASSUME NEW c \in Calls, EnqueueFail(c) PROVE Goal'
    BY <2>4 DEF EnqueueFail
  <2>5. ASSUME NEW c \in Calls, Return(c) PROVE Goal'
    BY <2>5 DEF Return
  <2>6. ASSUME NEW c \in Calls, Cancel(c) PROVE Goal'
    BY <2>6 DEF Cancel, InFlight
  <2>7. ASSUME NEW n \in Notes, SendNote(n) PROVE Goal'
    BY <2>7 DEF SendNote, Notify
  <2>8. ASSUME NEW r \in Reverses, HandleReverse(r) PROVE Goal'
    BY <2>8 DEF HandleReverse
  <2>9. ASSUME NEW r \in Reverses, QueueReply(r) PROVE Goal'
    BY <2>9 DEF QueueReply, ReplyTo
  <2>10. CASE WriteLine
    BY <2>10 DEF WriteLine
  <2>11. CASE WriteFails
    BY <2>11 DEF WriteFails
  <2>12. CASE Deliver
    <3> DEFINE res  == Head(stdoutPipe)
               hits == {p \in pending : p.id = res.id}
    <3>1. /\ UNCHANGED <<pc, id, nextId>>
          /\ pending' = pending \ hits
          /\ oneshot' = [c \in Calls |->
               IF (\E p \in hits : p.call = c) /\ pc[c] # "cancelled"
               THEN res.body ELSE oneshot[c]]
      BY <2>12 DEF Deliver
    <3>2. res \in Lines /\ res.type = "response" /\ Addressed(res)
      BY <2>12 DEF Deliver, LineIs, AllAddressed
    <3>3. /\ res.body \in Calls
          /\ res.id = id[res.body] /\ res.id # 0
      BY <3>2 DEF Lines, Noise, Garbled, Addressed
    (* Only the caller the response belongs to is registered under its id. *)
    <3>4. \A p \in hits : p.call = res.body
      BY <3>3
    <3> HIDE DEF res
    <3>5. PendingOwned'
      BY <3>1, <3>3
    <3>6. EmptyBefore'
      BY <3>1, <3>3
    <3>7. OwnAnswer'
      BY <3>1, <3>3, <3>4
    <3>8. NoLostWakeup'
      BY <3>1, <3>3
    <3>9. NoLeakOnReturn'
      BY <3>1
    <3> QED
      BY <3>5, <3>6, <3>7, <3>8, <3>9
  <2>13. CASE ForwardReverse
    BY <2>13 DEF ForwardReverse, LineIs
  <2>14. CASE SkipLine
    BY <2>14 DEF SkipLine, LineIs
  <2>15. CASE DrainAtEof
    <3>1. /\ UNCHANGED <<pc, id, nextId>>
          /\ pending' = {}
          /\ oneshot' = [c \in Calls |->
               IF (\E p \in pending : p.call = c) /\ pc[c] # "cancelled"
               THEN Unavailable ELSE oneshot[c]]
      BY <2>15 DEF DrainAtEof
    <3>2. PendingOwned' /\ NoLeakOnReturn'
      BY <3>1
    <3>3. EmptyBefore'
      BY <3>1
    <3>4. OwnAnswer'
      BY <3>1
    <3>5. NoLostWakeup'
      <4> SUFFICES ASSUME NEW c \in Calls, Waiting(c)
                   PROVE  oneshot'[c] # NoAnswer
        BY <3>1
      <4>1. CASE oneshot[c] # NoAnswer
        BY <3>1, <4>1
      <4>2. CASE [id |-> id[c], call |-> c] \in pending
        BY <3>1, <4>2
      <4> QED
        BY <4>1, <4>2
    <3> QED
      BY <3>2, <3>3, <3>4, <3>5
  <2>16. CASE ChildReads
    BY <2>16 DEF ChildReads
  <2>17. ASSUME NEW m \in inbox, ChildAnswers(m) PROVE Goal'
    BY <2>17 DEF ChildAnswers, Response
  <2>18. ASSUME NEW m \in inbox, ChildRepeats(m) PROVE Goal'
    BY <2>18 DEF ChildRepeats, Response
  <2>19. ASSUME NEW r \in Reverses, ChildAsks(r) PROVE Goal'
    BY <2>19 DEF ChildAsks, ReverseCall
  <2>20. ASSUME NEW line \in {Noise, Garbled}, ChildPrints(line) PROVE Goal'
    BY <2>20 DEF ChildPrints, Noise, Garbled
  <2>21. CASE ChildClosesStdin
    BY <2>21 DEF ChildClosesStdin
  <2>22. CASE ChildClosesStdout
    BY <2>22 DEF ChildClosesStdout
  <2>23. CASE UNCHANGED vars
    BY <2>23 DEF vars
  <2> QED
    BY <2>1, <2>2, <2>3, <2>4, <2>5, <2>6, <2>7, <2>8, <2>9, <2>10, <2>11, <2>12, <2>13, <2>14, <2>15, <2>16, <2>17, <2>18, <2>19, <2>20, <2>21, <2>22, <2>23
    DEF Next, CallerStep, WriterStep, ReaderStep, ChildStep

-----------------------------------------------------------------------------

(* The inductive invariant holds in every reachable state.                 *)
THEOREM InvariantHolds == Spec => []TransportInv
<1>1. TransportInv /\ [Next]_vars => TransportInv'
  <2> SUFFICES ASSUME TransportInv, [Next]_vars, TypeOK' PROVE TransportInv'
    BY TypeCorrectStep DEF TransportInv
  <2>1. IdsDistinct'
    BY IdsDistinctStep DEF TransportInv
  <2>2. AllAddressed'
    BY AddressedStep DEF TransportInv
  <2> QED
    BY <2>1, <2>2, PendingStep DEF TransportInv
<1> QED
  BY InvInit, <1>1, PTL DEF Spec

(* Whatever the child prints and whoever gives up, no caller is handed the *)
(* answer to another caller's request (process.rs 181-192).                *)
THEOREM AnswersReachTheirCaller == Spec => []OwnAnswer
<1>1. TransportInv => OwnAnswer
  BY DEF TransportInv
<1> QED
  BY InvariantHolds, <1>1, PTL

(* A caller inside send_request can always still be woken                  *)
(* (process.rs 266-300).                                                   *)
THEOREM WaitersAreRegistered == Spec => []NoLostWakeup
<1>1. TransportInv => NoLostWakeup
  BY DEF TransportInv
<1> QED
  BY InvariantHolds, <1>1, PTL

(* A caller that is out of send_request has left nothing in `pending`,     *)
(* unless its timeout dropped it: the table does not grow with the calls.  *)
THEOREM NothingIsLeaked == Spec => []NoLeakOnReturn
<1>1. TransportInv => NoLeakOnReturn
  BY DEF TransportInv
<1> QED
  BY InvariantHolds, <1>1, PTL

(* A oneshot is completed at most once, by the reader or by the drain.     *)
THEOREM AnswersAreFinal == Spec => AnswerIsFinal
<1> DEFINE Final == \A c \in Calls : oneshot[c] # NoAnswer => oneshot'[c] = oneshot[c]
<1>1. TransportInv /\ [Next]_vars => [Final]_vars
  <2> SUFFICES ASSUME TransportInv, [Next]_vars PROVE Final
    OBVIOUS
  <2> USE DEF TransportInv, TypeOK, PendingOwned
  <2>1. CASE Deliver
    <3>1. \A c \in Calls : (\E p \in pending : p.call = c) => oneshot[c] = NoAnswer
      OBVIOUS
    <3> QED
      BY <2>1, <3>1 DEF Deliver
  <2>2. CASE DrainAtEof
    BY <2>2 DEF DrainAtEof
  <2>3. CASE UNCHANGED oneshot
    BY <2>3
  <2>4. Deliver \/ DrainAtEof \/ UNCHANGED oneshot
    BY DEF Next, CallerStep, WriterStep, ReaderStep, ChildStep, TakeId, Register,
           Enqueue, EnqueueFail, Return, Cancel, SendNote, HandleReverse,
           QueueReply, WriteLine, WriteFails, ForwardReverse, SkipLine,
           ChildReads, ChildAnswers, ChildRepeats, ChildAsks, ChildPrints,
           ChildClosesStdin, ChildClosesStdout, callVars, vars
  <2> QED
    BY <2>1, <2>2, <2>3, <2>4
<1> QED
  BY InvariantHolds, <1>1, PTL DEF Spec, AnswerIsFinal

-----------------------------------------------------------------------------
(* The transport implements RpcChannel.  Beside TransportInv this needs    *)
(* that an answer is to a request the child has read, and that the error   *)
(* of the drain is there only after the drain.                             *)

Served == {m.body : m \in inbox}

ServedInv ==
  /\ \A i \in 1 .. Len(stdoutPipe) :
       stdoutPipe[i].type = "response" => stdoutPipe[i].body \in Served
  /\ \A c \in Calls : oneshot[c] \in Calls => oneshot[c] \in Served
  /\ \A c \in Calls : oneshot[c] = Unavailable => reader = "stopped"

(* A line is printed.                                                      *)
LEMMA PrintingKeepsServed ==
  ASSUME TypeOK, ServedInv, NEW l \in Lines, stdoutPipe' = Append(stdoutPipe, l),
         l.type = "response" => l.body \in Served,
         UNCHANGED <<oneshot, reader, inbox>>
  PROVE  ServedInv'
<1>1. stdoutPipe \in Seq(Lines)
  BY DEF TypeOK
<1>2. \A i \in 1 .. Len(stdoutPipe') :
        stdoutPipe'[i] = l \/ (i \in 1 .. Len(stdoutPipe) /\ stdoutPipe'[i] = stdoutPipe[i])
  BY <1>1
<1>3. Served' = Served
  BY DEF Served
<1> QED
  BY <1>2, <1>3 DEF ServedInv

(* A line is taken, and a response to c goes to c.                         *)
LEMMA ReadingKeepsServed ==
  ASSUME TypeOK, ServedInv, stdoutPipe # <<>>, stdoutPipe' = Tail(stdoutPipe),
         UNCHANGED <<reader, inbox>>,
         \A c \in Calls :
           \/ oneshot'[c] = oneshot[c]
           \/ Head(stdoutPipe).type = "response" /\ oneshot'[c] = Head(stdoutPipe).body
  PROVE  ServedInv'
<1>1. /\ stdoutPipe \in Seq(Lines)
      /\ Head(stdoutPipe) = stdoutPipe[1] /\ 1 \in 1 .. Len(stdoutPipe)
      /\ \A i \in 1 .. Len(Tail(stdoutPipe)) :
           i + 1 \in 1 .. Len(stdoutPipe) /\ Tail(stdoutPipe)[i] = stdoutPipe[i + 1]
  BY DEF TypeOK
<1>2. Served' = Served
  BY DEF Served
<1>3. Head(stdoutPipe) \in Lines /\ (Head(stdoutPipe).type = "response" =>
        Head(stdoutPipe).body \in Served /\ Head(stdoutPipe).body \in Calls)
  BY <1>1 DEF ServedInv, Lines, Noise, Garbled
<1>4. \A c \in Calls : oneshot'[c] = oneshot[c] \/ (oneshot'[c] \in Served /\ oneshot'[c] \in Calls)
  BY <1>3
<1>5. \A c \in Calls : oneshot'[c] \in Calls => oneshot'[c] \in Served
  BY <1>4 DEF ServedInv
<1>6. \A c \in Calls : oneshot'[c] = Unavailable => reader' = "stopped"
  BY <1>4, TransportAssumption DEF ServedInv
<1> QED
  BY <1>1, <1>2, <1>5, <1>6 DEF ServedInv

LEMMA ServedStep == TransportInv /\ ServedInv /\ [Next]_vars => ServedInv'
<1> SUFFICES ASSUME TransportInv, ServedInv, [Next]_vars PROVE ServedInv'
  OBVIOUS
<1>0. TypeOK
  BY DEF TransportInv
<1>1. ASSUME UNCHANGED <<stdoutPipe, oneshot, reader>>, inbox \subseteq inbox' PROVE ServedInv'
  BY <1>1 DEF ServedInv, Served
<1>2. ASSUME NEW c \in Calls, CallerStep(c) PROVE ServedInv'
  BY <1>1, <1>2 DEF CallerStep, TakeId, Register, Enqueue, EnqueueFail, Return, Cancel, childVars
<1>3. ASSUME NEW n \in Notes, SendNote(n) PROVE ServedInv'
  BY <1>1, <1>3 DEF SendNote, childVars, callVars
<1>4. ASSUME NEW r \in Reverses, HandleReverse(r) \/ QueueReply(r) PROVE ServedInv'
  BY <1>1, <1>4 DEF HandleReverse, QueueReply, childVars, callVars
<1>5. CASE WriterStep \/ ChildReads \/ ChildClosesStdin \/ ChildClosesStdout \/ UNCHANGED vars
  BY <1>1, <1>5 DEF WriterStep, WriteLine, WriteFails, ChildReads, ChildClosesStdin,
     ChildClosesStdout, childVars, callVars, vars
<1>6. CASE Deliver
  <2>1. \A c \in Calls :
          \/ oneshot'[c] = oneshot[c]
          \/ Head(stdoutPipe).type = "response" /\ oneshot'[c] = Head(stdoutPipe).body
    BY <1>6 DEF Deliver, LineIs
  <2> QED
    BY <1>0, <1>6, <2>1, ReadingKeepsServed DEF Deliver, LineIs, childVars
<1>7. CASE ForwardReverse \/ SkipLine
  BY <1>0, <1>7, ReadingKeepsServed DEF ForwardReverse, SkipLine, LineIs, childVars, callVars
<1>8. CASE DrainAtEof
  <2>1. stdoutPipe' = <<>> /\ reader' = "stopped" /\ Served' = Served
    BY <1>8 DEF DrainAtEof, childVars, Served
  <2>2. \A c \in Calls : oneshot'[c] = oneshot[c] \/ oneshot'[c] = Unavailable
    BY <1>8 DEF DrainAtEof
  <2>3. Len(stdoutPipe') = 0
    BY <2>1
  <2> QED
    BY <2>1, <2>2, <2>3, TransportAssumption DEF ServedInv
<1>9. ASSUME NEW m \in inbox, ChildAnswers(m) \/ ChildRepeats(m) PROVE ServedInv'
  <2>1. m.body \in Served /\ m.body \in Calls /\ m.id \in Nat
    BY <1>0 DEF Served, TypeOK, Requests
  <2>2. Response(m) \in Lines /\ Response(m).body = m.body
    BY <2>1 DEF Response, Lines
  <2> QED
    BY <1>0, <1>9, <2>1, <2>2, PrintingKeepsServed DEF ChildAnswers, ChildRepeats, callVars
<1>10. ASSUME NEW l \in {Noise, Garbled} \cup {ReverseCall(r) : r \in Reverses},
              stdoutPipe' = Append(stdoutPipe, l), UNCHANGED <<oneshot, reader, inbox>>
       PROVE  ServedInv'
  <2>1. l \in Lines /\ l.type # "response"
    BY DEF Lines, Noise, Garbled, ReverseCall
  <2> QED
    BY <1>0, <1>10, <2>1, PrintingKeepsServed
<1>11. ASSUME NEW r \in Reverses, ChildAsks(r) PROVE ServedInv'
  BY <1>10, <1>11 DEF ChildAsks, childVars, callVars
<1>12. ASSUME NEW line \in {Noise, Garbled}, ChildPrints(line) PROVE ServedInv'
  BY <1>10, <1>12 DEF ChildPrints, childVars, callVars
<1> QED
  BY <1>2, <1>3, <1>4, <1>5, <1>6, <1>7, <1>8, <1>9, <1>11, <1>12
     DEF Next, ReaderStep, ChildStep

(* Status, as a function of what it looks at.                              *)
StatusOf(p, o) ==
  IF p = "idle" THEN "new"
  ELSE IF p \in {"numbered", "sending", "waiting"} THEN "open"
  ELSE IF p = "cancelled" THEN "cancelled"
  ELSE IF p = "failed" \/ o = Unavailable THEN "unavailable"
  ELSE "replied"

LEMMA StatusIs ==
  ASSUME TypeOK, NEW c \in Calls
  PROVE  Status(c) = StatusOf(pc[c], oneshot[c])
<1>1. pc[c] \in {"idle", "numbered", "sending", "waiting"} \cup Terminal
  BY DEF TypeOK
<1> QED
  BY <1>1 DEF Status, StatusOf, InFlight, Terminal

status == [c \in Calls |-> Status(c)]
broken == reader = "stopped" \/ writer = "stopped"

LEMMA StatusOfAll ==
  ASSUME TypeOK PROVE status = [c \in Calls |-> StatusOf(pc[c], oneshot[c])]
BY StatusIs DEF status

LEMMA StatusAfter ==
  ASSUME TypeOK' PROVE status' = [c \in Calls |-> StatusOf(pc'[c], oneshot'[c])]
<1>1. \A c \in Calls : pc'[c] \in {"idle", "numbered", "sending", "waiting"} \cup Terminal
  BY DEF TypeOK
<1>2. \A c \in Calls : Status(c)' = StatusOf(pc'[c], oneshot'[c])
  BY <1>1 DEF Status, StatusOf, InFlight, Terminal
<1> QED
  BY <1>2 DEF status

(* A step that moves one caller from p to q.                               *)
LEMMA OneMoves ==
  ASSUME TypeOK, TypeOK', NEW c \in Calls, NEW q, pc' = [pc EXCEPT ![c] = q], oneshot' = oneshot
  PROVE  status' = [status EXCEPT ![c] = StatusOf(q, oneshot[c])]
         /\ status[c] = StatusOf(pc[c], oneshot[c])
<1>1. pc' \in [Calls -> {"idle", "numbered", "sending", "waiting"} \cup Terminal]
  BY DEF TypeOK
<1>2. status' = [d \in Calls |-> StatusOf(pc'[d], oneshot'[d])]
  BY StatusAfter
<1>3. pc'[c] = q /\ \A d \in Calls : d # c => pc'[d] = pc[d]
  BY DEF TypeOK
<1>4. \A d \in Calls : StatusOf(pc'[d], oneshot'[d]) =
                           IF d = c THEN StatusOf(q, oneshot[c]) ELSE StatusOf(pc[d], oneshot[d])
  BY <1>3
<1> HIDE DEF StatusOf
<1> QED
  BY <1>2, <1>4, StatusOfAll

(* A step that moves none: the oneshot of a call that is out of            *)
(* send_request stays as it is.                                            *)
LEMMA NoneMoves ==
  ASSUME TransportInv, TypeOK', pc' = pc,
         \A c \in Calls : (\E p \in pending : p.call = c /\ pc[c] # "cancelled")
                            \/ oneshot'[c] = oneshot[c]
  PROVE  status' = status
<1>1. \A c \in Calls : pc[c] = "returned" => oneshot'[c] = oneshot[c]
  BY DEF TransportInv, NoLeakOnReturn, Waiting
<1>2. \A c \in Calls : StatusOf(pc'[c], oneshot'[c]) = StatusOf(pc[c], oneshot[c])
  BY <1>1 DEF StatusOf, TransportInv, TypeOK, Terminal
<1>3. status' = [d \in Calls |-> StatusOf(pc'[d], oneshot'[d])]
  BY StatusAfter
<1> QED
  BY <1>2, <1>3, StatusOfAll DEF TransportInv

(* Every step of the transport is one of RpcChannel, or none.              *)
LEMMA RpcStep ==
  TransportInv /\ TransportInv' /\ ServedInv /\ [Next]_vars => [Rpc!Next]_(Rpc!vars)
<1> SUFFICES ASSUME TransportInv, TypeOK', ServedInv, [Next]_vars
             PROVE  Rpc!Next \/ (status' = status /\ Served' = Served /\ broken' = broken)
  BY DEF TransportInv, Rpc!vars, status, Served, broken
<1>0. TypeOK
  BY DEF TransportInv
<1>1. ASSUME UNCHANGED <<pc, oneshot, inbox, reader, writer>>
      PROVE  status' = status /\ Served' = Served /\ broken' = broken
  BY <1>0, <1>1, NoneMoves DEF Served, broken
<1>2. ASSUME NEW c \in Calls, CallerStep(c)
      PROVE  Rpc!Next \/ (status' = status /\ Served' = Served /\ broken' = broken)
  <2>0. UNCHANGED <<oneshot, inbox, reader, writer>> /\ Served' = Served /\ broken' = broken
    BY <1>2 DEF CallerStep, TakeId, Register, Enqueue, EnqueueFail, Return, Cancel, childVars,
       Served, broken
  <2>1. CASE TakeId(c)
    <3>1. status' = [status EXCEPT ![c] = "open"] /\ status[c] = "new"
      BY <1>0, <2>0, <2>1, OneMoves DEF TakeId, StatusOf
    <3>2. Rpc!Open(c)
      BY <2>0, <3>1 DEF Rpc!Open, status, Served, broken
    <3> QED
      BY <3>2 DEF Rpc!Next
  <2>2. CASE Register(c) \/ Enqueue(c)
    <3>1. status' = [status EXCEPT ![c] = "open"] /\ status[c] = "open"
      BY <1>0, <2>0, <2>2, OneMoves DEF Register, Enqueue, StatusOf
    <3>2. status' = status
      BY <3>1 DEF status
    <3> QED
      BY <2>0, <3>2
  <2>3. CASE EnqueueFail(c)
    <3>1. status' = [status EXCEPT ![c] = "unavailable"] /\ status[c] = "open"
      BY <1>0, <2>0, <2>3, OneMoves DEF EnqueueFail, StatusOf
    <3>2. broken
      BY <2>3 DEF EnqueueFail, broken
    <3>3. Rpc!Fails(c)
      BY <2>0, <3>1, <3>2 DEF Rpc!Fails, status, Served, broken
    <3> QED
      BY <3>3 DEF Rpc!Next
  <2>4. CASE Return(c) /\ oneshot[c] = Unavailable
    <3>1. status' = [status EXCEPT ![c] = "unavailable"] /\ status[c] = "open"
      <4>1. pc[c] = "waiting" /\ pc' = [pc EXCEPT ![c] = "returned"] /\ oneshot' = oneshot
        BY <2>0, <2>4 DEF Return
      <4>2. StatusOf("returned", oneshot[c]) = "unavailable" /\ StatusOf("waiting", oneshot[c]) = "open"
        BY <2>4 DEF StatusOf
      <4> HIDE DEF StatusOf
      <4> QED
        BY <1>0, <4>1, <4>2, OneMoves
    <3>2. broken
      BY <2>4 DEF ServedInv, broken
    <3>3. Rpc!Fails(c)
      BY <2>0, <3>1, <3>2 DEF Rpc!Fails, status, Served, broken
    <3> QED
      BY <3>3 DEF Rpc!Next
  <2>5. CASE Return(c) /\ oneshot[c] # Unavailable
    <3>1. status' = [status EXCEPT ![c] = "replied"] /\ status[c] = "open"
      <4>1. pc[c] = "waiting" /\ pc' = [pc EXCEPT ![c] = "returned"] /\ oneshot' = oneshot
        BY <2>0, <2>5 DEF Return
      <4>2. StatusOf("returned", oneshot[c]) = "replied" /\ StatusOf("waiting", oneshot[c]) = "open"
        BY <2>5 DEF StatusOf
      <4> HIDE DEF StatusOf
      <4> QED
        BY <1>0, <4>1, <4>2, OneMoves, ZenonT(30)
    <3>2. oneshot[c] \in Calls
      BY <1>0, <2>5 DEF TypeOK, Return
    <3>3. c \in Served
      BY <3>2 DEF ServedInv, TransportInv, OwnAnswer
    <3>4. Rpc!Reply(c)
      BY <2>0, <3>1, <3>3 DEF Rpc!Reply, status, Served, broken
    <3> QED
      BY <3>4 DEF Rpc!Next
  <2>6. CASE Cancel(c)
    <3>1. status' = [status EXCEPT ![c] = "cancelled"] /\ status[c] = "open"
      BY <1>0, <2>0, <2>6, OneMoves DEF Cancel, InFlight, StatusOf
    <3>2. Rpc!Cancel(c)
      BY <2>0, <3>1 DEF Rpc!Cancel, status, Served, broken
    <3> QED
      BY <3>2 DEF Rpc!Next
  <2> QED
    BY <1>2, <2>1, <2>2, <2>3, <2>4, <2>5, <2>6 DEF CallerStep
<1>3. CASE ChildReads
  <2>0. UNCHANGED <<pc, oneshot, reader, writer>>
    BY <1>3 DEF ChildReads, callVars
  <2>1. status' = status /\ broken' = broken
    BY <1>0, <2>0, NoneMoves DEF broken
  <2> DEFINE m == Head(stdinPipe)
  <2>2. stdinPipe \in Seq(Messages) /\ stdinPipe # <<>>
    BY <1>0, <1>3 DEF TypeOK, ChildReads
  <2>3. m = stdinPipe[1] /\ 1 \in 1 .. Len(stdinPipe) /\ m \in Messages
    BY <2>2
  <2>4. Addressed(m)
    BY <2>3 DEF TransportInv, AllAddressed
  <2>5. CASE m.type # "request"
    BY <1>3, <2>1, <2>5 DEF ChildReads, Served
  <2>6. CASE m.type = "request"
    <3>1. m \in Requests /\ m.body \in Calls /\ m.id = id[m.body] /\ m.id # 0
      BY <2>3, <2>4, <2>6 DEF Messages, Requests, Addressed
    <3>2. inbox' = inbox \cup {m}
      BY <1>3, <2>6 DEF ChildReads
    <3>3. Served' = Served \cup {m.body}
      BY <3>2 DEF Served
    <3>4. pc[m.body] # "idle"
      BY <3>1 DEF TransportInv, IdsDistinct
    <3>5. status[m.body] \in {"open", "replied", "unavailable", "cancelled"}
      BY <1>0, <3>1, <3>4, StatusOfAll DEF StatusOf
    <3>6. CASE m.body \in Served
      BY <2>1, <3>3, <3>6
    <3>7. CASE m.body \notin Served
      <4>1. PICK c \in Calls : c = m.body
        BY <3>1
      <4>2. Rpc!Serve(c)
        BY <2>1, <3>3, <3>5, <3>7, <4>1 DEF Rpc!Serve, Rpc!Closed, status, Served, broken
      <4> QED
        BY <4>2 DEF Rpc!Next
    <3> QED
      BY <3>6, <3>7
  <2> QED
    BY <2>5, <2>6
<1>4. CASE WriteFails \/ DrainAtEof
  <2>1. pc' = pc /\ inbox' = inbox /\ broken' = TRUE
    BY <1>4 DEF WriteFails, DrainAtEof, callVars, childVars, broken
  <2>2. \A c \in Calls : (\E p \in pending : p.call = c /\ pc[c] # "cancelled")
                           \/ oneshot'[c] = oneshot[c]
    BY <1>4 DEF WriteFails, DrainAtEof, callVars
  <2>3. status' = status /\ Served' = Served
    BY <2>1, <2>2, NoneMoves DEF Served
  <2>4. CASE broken
    <3>1. broken = TRUE
      BY <2>4 DEF broken
    <3> QED
      BY <2>1, <2>3, <3>1
  <2>5. CASE ~broken
    <3>1. Rpc!Break
      BY <2>1, <2>3, <2>5 DEF Rpc!Break, status, Served, broken
    <3> QED
      BY <3>1 DEF Rpc!Next
  <2> QED
    BY <2>4, <2>5
<1>5. CASE Deliver
  <2>1. pc' = pc /\ UNCHANGED <<inbox, reader, writer>>
    BY <1>5 DEF Deliver, childVars
  <2>2. \A c \in Calls : (\E p \in pending : p.call = c /\ pc[c] # "cancelled")
                           \/ oneshot'[c] = oneshot[c]
    BY <1>5 DEF Deliver
  <2> QED
    BY <2>1, <2>2, NoneMoves DEF Served, broken
<1>6. CASE WriteLine \/ ForwardReverse \/ SkipLine \/ ChildClosesStdin \/ ChildClosesStdout
           \/ UNCHANGED vars
  BY <1>1, <1>6 DEF WriteLine, ForwardReverse, SkipLine, ChildClosesStdin, ChildClosesStdout,
     childVars, callVars, vars
<1>7. ASSUME NEW n \in Notes, SendNote(n) PROVE UNCHANGED <<pc, oneshot, inbox, reader, writer>>
  BY <1>7 DEF SendNote, childVars, callVars
<1>8. ASSUME NEW r \in Reverses, HandleReverse(r) \/ QueueReply(r) \/ ChildAsks(r)
      PROVE  UNCHANGED <<pc, oneshot, inbox, reader, writer>>
  BY <1>8 DEF HandleReverse, QueueReply, ChildAsks, childVars, callVars
<1>9. ASSUME NEW m \in inbox, ChildAnswers(m) \/ ChildRepeats(m)
      PROVE  UNCHANGED <<pc, oneshot, inbox, reader, writer>>
  BY <1>9 DEF ChildAnswers, ChildRepeats, callVars
<1>10. ASSUME NEW line \in {Noise, Garbled}, ChildPrints(line)
       PROVE  UNCHANGED <<pc, oneshot, inbox, reader, writer>>
  BY <1>10 DEF ChildPrints, childVars, callVars
<1> QED
  BY <1>1, <1>2, <1>3, <1>4, <1>5, <1>6, <1>7, <1>8, <1>9, <1>10
     DEF Next, WriterStep, ReaderStep, ChildStep

(* The transport keeps the promises of RpcChannel, whatever the child      *)
(* prints, whoever gives up and however small the queues: a call is closed *)
(* once, with a reply only if the child read it, with the error only if a  *)
(* pipe broke.                                                             *)
THEOREM TransportKeepsThePromise == Spec => ImplementsRpcChannel
<1>1. Init => ServedInv
  BY TransportAssumption DEF Init, ServedInv
<1>2. Init => Rpc!Init
  <2> SUFFICES ASSUME Init PROVE Rpc!Init
    OBVIOUS
  <2>1. \A c \in Calls : pc[c] = "idle"
    BY DEF Init
  <2>2. TypeOK
    BY InvInit DEF TransportInv
  <2>3. \A c \in Calls : Status(c) = "new"
    BY <2>1, <2>2, StatusIs DEF StatusOf
  <2>4. {m.body : m \in inbox} = {} /\ ~(reader = "stopped" \/ writer = "stopped")
    BY DEF Init
  <2> QED
    BY <2>3, <2>4 DEF Rpc!Init
<1>3. TransportInv /\ ServedInv /\ [Next]_vars => ServedInv'
  BY ServedStep
<1>4. TransportInv /\ TransportInv' /\ ServedInv /\ [Next]_vars => [Rpc!Next]_(Rpc!vars)
  BY RpcStep
<1> QED
  BY <1>1, <1>2, <1>3, <1>4, InvariantHolds, PTL DEF Spec, ImplementsRpcChannel, Rpc!Spec

=============================================================================
