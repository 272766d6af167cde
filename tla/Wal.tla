-------------------------------- MODULE Wal ---------------------------------
(***************************************************************************)
(* The write-ahead log of one session: WalWriter and WalReader of          *)
(* chassis-core/src/wal.rs, with the file they share and its failures.     *)
(*                                                                         *)
(* The file is a sequence of lines.  An append writes one line and then    *)
(* syncs; only after the sync does the writer move on to the next sequence *)
(* number and hash.  A line is `whole` (parses as its event) or `torn` (it *)
(* does not), and it has its newline (`ended`) or not: bytes appended to a *)
(* line without one join it, and the two events then share a line no       *)
(* reader can parse.                                                       *)
(*                                                                         *)
(* SHA-256 is a free constructor: digests are equal only when everything   *)
(* hashed is.  A body stands for the timestamp, type and payload.          *)
(***************************************************************************)
EXTENDS Naturals, Sequences

CONSTANTS
  Writers,    \* the WalWriter objects that may be open on the file
  Bodies,     \* what the events say
  Genesis,    \* GENESIS_HASH
  Faults,     \* which of PossibleFaults happen
  MaxLines    \* bound: lines ever in the file

PossibleFaults ==
  {"crash",   \* the process dies between the write and the sync
   "write",   \* write_all fails, having written part of the line or nothing
   "sync",    \* sync_all fails, the line being written
   "power"}   \* the machine stops: what is not synced is kept, cut or lost

ASSUME WalAssumption ==
  /\ Faults \subseteq PossibleFaults
  /\ MaxLines \in Nat

VARIABLES
  lines,      \* the file
  synced,     \* how many of its lines are on the disk for good
  st,         \* st[w]: "closed", "open", "writing" or "refused"
  seq,        \* current_seq of w
  last,       \* last_hash of w
  cur,        \* the event w is appending
  acked       \* the events for which append returned Ok

vars == <<lines, synced, st, seq, last, cur, acked>>

-----------------------------------------------------------------------------
(* Events, lines and their verification.                                   *)

Hash(prev, s, b) == [prev |-> prev, seq |-> s, body |-> b]

Event(prev, s, b) ==
  [seq |-> s, prev |-> prev, body |-> b, hash |-> Hash(prev, s, b)]

NoEvent == Event(Genesis, 0, Genesis)

Line(e, text, ended) == [event |-> e, text |-> text, ended |-> ended]

(* Bytes written at the end of the file: a line of their own, or the rest  *)
(* of a line that has no newline.                                          *)
Extend(ls, e, text, ended) ==
  IF ls # <<>> /\ ~ls[Len(ls)].ended
  THEN [ls EXCEPT ![Len(ls)] = Line(@.event, "torn", ended)]
  ELSE Append(ls, Line(e, text, ended))

(* The hash the line after ls must name.                                   *)
TipHash(ls) == IF ls = <<>> THEN Genesis ELSE ls[Len(ls)].event.hash

(* Slip: the links between lines are not compared.                         *)
LineVerifiesAlone(ls, i) ==
  LET e == ls[i].event
  IN  /\ ls[i].text = "whole"
      /\ e.seq = i - 1
      /\ e.hash = Hash(e.prev, e.seq, e.body)

(* WalReader::validate_integrity accepts line i of ls.                     *)
LineVerifies(ls, i) ==
  LET e == ls[i].event
  IN  /\ ls[i].text = "whole"
      /\ e.seq = i - 1
      /\ e.prev = IF i = 1 THEN Genesis ELSE ls[i - 1].event.hash
      /\ e.hash = Hash(e.prev, e.seq, e.body)

Verifies(ls) == \A i \in 1 .. Len(ls) : LineVerifies(ls, i)

-----------------------------------------------------------------------------

Init ==
  /\ lines = <<>>
  /\ synced = 0
  /\ st = [w \in Writers |-> "closed"]
  /\ seq = [w \in Writers |-> 0]
  /\ last = [w \in Writers |-> Genesis]
  /\ cur = [w \in Writers |-> NoEvent]
  /\ acked = {}

(* Slip: the recovered writer goes back one sequence number.               *)
OpenAtLast(w) ==
  /\ st[w] = "closed"
  /\ Verifies(lines)
  /\ st' = [st EXCEPT ![w] = "open"]
  /\ seq' = [seq EXCEPT ![w] = Len(lines) - 1]
  /\ last' = [last EXCEPT ![w] = TipHash(lines)]
  /\ UNCHANGED <<lines, synced, cur, acked>>

(* WalWriter::init: the file is opened for append and, when it verifies,   *)
(* the writer continues after its last event.                              *)
Open(w) ==
  /\ st[w] = "closed"
  /\ IF Verifies(lines)
     THEN /\ st' = [st EXCEPT ![w] = "open"]
          /\ seq' = [seq EXCEPT ![w] = IF lines = <<>> THEN 0
                                       ELSE lines[Len(lines)].event.seq + 1]
          /\ last' = [last EXCEPT ![w] = TipHash(lines)]
     ELSE /\ st' = [st EXCEPT ![w] = "refused"]
          /\ UNCHANGED <<seq, last>>
  /\ UNCHANGED <<lines, synced, cur, acked>>

(* append, up to write_all.                                                *)
Write(w, b) ==
  /\ st[w] = "open"
  /\ Len(lines) < MaxLines
  /\ LET e == Event(last[w], seq[w], b)
     IN  /\ lines' = Extend(lines, e, "whole", TRUE)
         /\ cur' = [cur EXCEPT ![w] = e]
  /\ st' = [st EXCEPT ![w] = "writing"]
  /\ UNCHANGED <<synced, seq, last, acked>>

(* write_all returns an error with part of the line in the file: all but   *)
(* its newline, or less.  (With nothing written, nothing changes.)         *)
WriteFails(w, b) ==
  /\ "write" \in Faults
  /\ st[w] = "open"
  /\ Len(lines) < MaxLines
  /\ \E text \in {"whole", "torn"} :
       lines' = Extend(lines, Event(last[w], seq[w], b), text, FALSE)
  /\ UNCHANGED <<synced, st, seq, last, cur, acked>>

(* Slip: append answers Ok and leaves the sync to the operating system.    *)
AckUnsynced(w) ==
  /\ st[w] = "writing"
  /\ acked' = acked \cup {cur[w]}
  /\ seq' = [seq EXCEPT ![w] = @ + 1]
  /\ last' = [last EXCEPT ![w] = cur[w].hash]
  /\ st' = [st EXCEPT ![w] = "open"]
  /\ UNCHANGED <<lines, synced, cur>>

(* Slip: last_hash is not moved on.                                        *)
SyncKeepsHash(w) ==
  /\ st[w] = "writing"
  /\ synced' = Len(lines)
  /\ acked' = acked \cup {cur[w]}
  /\ seq' = [seq EXCEPT ![w] = @ + 1]
  /\ st' = [st EXCEPT ![w] = "open"]
  /\ UNCHANGED <<lines, last, cur>>

(* sync_all succeeds: the writer moves on and append returns Ok.           *)
Sync(w) ==
  /\ st[w] = "writing"
  /\ synced' = Len(lines)
  /\ acked' = acked \cup {cur[w]}
  /\ seq' = [seq EXCEPT ![w] = @ + 1]
  /\ last' = [last EXCEPT ![w] = cur[w].hash]
  /\ cur' = [cur EXCEPT ![w] = NoEvent]
  /\ st' = [st EXCEPT ![w] = "open"]
  /\ UNCHANGED lines

(* sync_all fails: append returns the error and the writer stays where it  *)
(* was, with the line in the file.                                         *)
SyncFails(w) ==
  /\ "sync" \in Faults
  /\ st[w] = "writing"
  /\ st' = [st EXCEPT ![w] = "open"]
  /\ cur' = [cur EXCEPT ![w] = NoEvent]
  /\ UNCHANGED <<lines, synced, seq, last, acked>>

(* The WalWriter objects in ws are gone, and what they knew with them.     *)
Forget(ws) ==
  /\ st' = [w \in Writers |-> IF w \in ws THEN "closed" ELSE st[w]]
  /\ seq' = [w \in Writers |-> IF w \in ws THEN 0 ELSE seq[w]]
  /\ last' = [w \in Writers |-> IF w \in ws THEN Genesis ELSE last[w]]
  /\ cur' = [w \in Writers |-> IF w \in ws THEN NoEvent ELSE cur[w]]

(* The writer is dropped between two appends, or init returned an error.   *)
Close(w) ==
  /\ st[w] \in {"open", "refused"}
  /\ Forget({w})
  /\ UNCHANGED <<lines, synced, acked>>

Crash(w) ==
  /\ "crash" \in Faults
  /\ st[w] = "writing"
  /\ Forget({w})
  /\ UNCHANGED <<lines, synced, acked>>

(* What a power failure leaves of the first k lines of ls: all of them, or *)
(* the last one without its newline, or cut before that.                   *)
Remains(ls, k, how) ==
  [i \in 1 .. k |->
     IF i < k \/ how = "kept" THEN ls[i]
     ELSE Line(ls[i].event, IF how = "cut" THEN "torn" ELSE ls[i].text, FALSE)]

(* The machine stops.  What was synced stays.                              *)
PowerLoss ==
  /\ "power" \in Faults
  /\ \E k \in synced .. Len(lines), how \in {"kept", "unended", "cut"} :
       /\ k = synced => how = "kept"
       /\ lines' = Remains(lines, k, how)
       /\ synced' = k
  /\ Forget(Writers)
  /\ UNCHANGED acked

Next ==
  \/ \E w \in Writers :
       \/ Open(w) \/ Sync(w) \/ SyncFails(w) \/ Close(w) \/ Crash(w)
       \/ \E b \in Bodies : Write(w, b) \/ WriteFails(w, b)
  \/ PowerLoss

Spec == Init /\ [][Next]_vars

-----------------------------------------------------------------------------
(* Properties.                                                             *)

Texts == {"whole", "torn"}

TypeOK ==
  /\ \A i \in 1 .. Len(lines) : lines[i].text \in Texts
  /\ Len(lines) <= MaxLines
  /\ synced \in 0 .. Len(lines)
  /\ st \in [Writers -> {"closed", "open", "writing", "refused"}]
  /\ seq \in [Writers -> Nat]
  /\ \A e \in acked : e.seq \in Nat

(* A log that verifies is complete: every event whose append returned Ok   *)
(* is in it, at the place its sequence number says, whatever failed in     *)
(* between (wal.rs 129-164, 198-267).                                      *)
VerifiedIsComplete ==
  Verifies(lines) =>
    \A e \in acked : e.seq < Len(lines) /\ lines[e.seq + 1].event = e

(* The log of a session can be read back, verified and so resumed at any   *)
(* moment: ADR-015, "resilient to sudden crashes/power loss".              *)
LogReplays == Verifies(lines)

(* Nobody can change the body of a recorded event, with its hash or        *)
(* without, or take out a line that is not the last, and have the rest of  *)
(* the log verify (DESIGN_LOG section 7, Integrity Invariant).             *)
Rewritten(i, b) ==
  [lines EXCEPT ![i].event.body = b]
Rehashed(i, b) ==
  [lines EXCEPT ![i].event = Event(@.prev, @.seq, b)]
Without(i) == SubSeq(lines, 1, i - 1) \o SubSeq(lines, i + 1, Len(lines))

TamperEvident ==
  Verifies(lines) =>
    \A i \in 1 .. Len(lines) :
      /\ \A b \in Bodies \ {lines[i].event.body} :
           ~Verifies(Rewritten(i, b)) /\ (i < Len(lines) => ~Verifies(Rehashed(i, b)))
      /\ i < Len(lines) => ~Verifies(Without(i))

(* With one writer and no failing device the log is the ledger it is meant *)
(* to be, crashes and restarts included.                                   *)
L == INSTANCE Ledger WITH
       log <- [i \in 1 .. Len(lines) |-> lines[i].event.body],
       promised <- {e.seq + 1 : e \in acked}
ImplementsLedger == L!Spec

=============================================================================
