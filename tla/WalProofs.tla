----------------------------- MODULE WalProofs ------------------------------
(***************************************************************************)
(* Proofs about Wal, for any writers, bodies and bound.                    *)
(*                                                                         *)
(* First, whatever fails: what was acknowledged is in a synced line, or    *)
(* that line is torn and the log does not verify (AckedIsSynced).  Then,   *)
(* for one writer whose only failure is the crash of its process: the log  *)
(* verifies, and the writer continues it (Continues).                      *)
(***************************************************************************)
EXTENDS Wal, SequenceTheorems, TLAPS

LinesOf(ls) == {ls[i] : i \in 1 .. Len(ls)}

(* A line carries e unless it is torn; and a line stays as it was, or is   *)
(* spoilt.                                                                 *)
Carries(line, e) == line.text = "torn" \/ line.event = e
Stays(line, before) == line = before \/ line.text = "torn"

Holds(i, e) == Carries(lines[i], e)

AckedIsSynced == \A e \in acked : \E i \in 1 .. synced : Holds(i, e)

WritingIsInFile ==
  \A w \in Writers : st[w] = "writing" => \E i \in 1 .. Len(lines) : Holds(i, cur[w])

CurTyped ==
  /\ cur = [w \in Writers |-> cur[w]]
  /\ \A w \in Writers : cur[w].seq \in Nat

FileTyped ==
  /\ lines \in Seq(LinesOf(lines))
  /\ \A i \in 1 .. Len(lines) : lines[i].text \in Texts
  /\ Len(lines) <= MaxLines
  /\ synced \in 0 .. Len(lines)

WritersTyped ==
  /\ st \in [Writers -> {"closed", "open", "writing", "refused"}]
  /\ seq \in [Writers -> Nat]
  /\ CurTyped
  /\ \A e \in acked : e.seq \in Nat

AnyFaultInv == FileTyped /\ WritersTyped /\ AckedIsSynced /\ WritingIsInFile

-----------------------------------------------------------------------------
(* The file.                                                               *)

(* A sequence is one over its own elements.                                *)
LEMMA OverItsElements ==
  ASSUME NEW S, NEW ls \in Seq(S)
  PROVE  ls \in Seq(LinesOf(ls))
BY DEF LinesOf

(* Bytes appended to a file of lines add a line or spoil the last one, and *)
(* leave the lines before it alone (Extend).                               *)
LEMMA ExtendKeeps ==
  ASSUME NEW ls, ls \in Seq(LinesOf(ls)), NEW e, NEW text \in Texts, NEW ended,
         \A i \in 1 .. Len(ls) : ls[i].text \in Texts,
         NEW r, r = Extend(ls, e, text, ended)
  PROVE  /\ r \in Seq(LinesOf(r))
         /\ Len(r) \in {Len(ls), Len(ls) + 1} /\ Len(r) # 0
         /\ \A i \in 1 .. Len(r) : r[i].text \in Texts
         /\ \A i \in 1 .. Len(ls) : Stays(r[i], ls[i])
         /\ Carries(r[Len(r)], e)
<1> DEFINE S == LinesOf(ls)
<1>1. ls \in Seq(S)
  OBVIOUS
<1> HIDE DEF S
<1>2. CASE ls # <<>> /\ ~ls[Len(ls)].ended
  <2> DEFINE m == Line(ls[Len(ls)].event, "torn", ended)
  <2>1. r = [ls EXCEPT ![Len(ls)] = m]
    BY <1>2 DEF Extend
  <2>2. m.text = "torn" /\ m.text \in Texts /\ m.ended = ended
    BY DEF Line, Texts
  <2> HIDE DEF m
  <2>3. Len(ls) \in 1 .. Len(ls)
    BY <1>1, <1>2
  <2>4. r \in Seq(S \cup {m}) /\ Len(r) = Len(ls) /\ r[Len(ls)] = m
    BY <1>1, <2>1, <2>3
  <2>5. \A i \in 1 .. Len(ls) : r[i] = ls[i] \/ r[i] = m
    BY <1>1, <2>1, <2>3
  <2>6. r \in Seq(LinesOf(r))
    BY <2>4, OverItsElements
  <2> QED
    BY <2>2, <2>3, <2>4, <2>5, <2>6 DEF Stays, Carries
<1>3. CASE ~(ls # <<>> /\ ~ls[Len(ls)].ended)
  <2> DEFINE m == Line(e, text, ended)
  <2>1. r = Append(ls, m)
    BY <1>3 DEF Extend
  <2>2. m.event = e /\ m.text = text /\ m.ended = ended
    BY DEF Line
  <2> HIDE DEF m
  <2>3. /\ r \in Seq(S \cup {m}) /\ Len(r) = Len(ls) + 1 /\ r[Len(r)] = m
        /\ \A i \in 1 .. Len(ls) : r[i] = ls[i]
    BY <1>1, <2>1
  <2>4. r \in Seq(LinesOf(r))
    BY <2>3, OverItsElements
  <2>5. Len(ls) \in Nat
    BY <1>1
  <2>6. \A i \in 1 .. Len(r) : i \in 1 .. Len(ls) \/ r[i] = m
    BY <2>3, <2>5
  <2> QED
    BY <2>2, <2>3, <2>4, <2>5, <2>6 DEF Stays, Carries
<1> QED
  BY <1>2, <1>3

(* What a power failure leaves is a prefix whose last line may be cut      *)
(* (Remains).                                                              *)
LEMMA RemainsKeeps ==
  ASSUME NEW ls, ls \in Seq(LinesOf(ls)), NEW k \in 0 .. Len(ls), NEW how,
         \A i \in 1 .. Len(ls) : ls[i].text \in Texts,
         NEW r, r = Remains(ls, k, how)
  PROVE  /\ r \in Seq(LinesOf(r)) /\ Len(r) = k
         /\ \A i \in 1 .. k : r[i].text \in Texts
         /\ \A i \in 1 .. k : i < k \/ how = "kept" => r[i] = ls[i]
<1>0. Len(ls) \in Nat
  OBVIOUS
<1>1. k \in Nat /\ k <= Len(ls) /\ \A i \in 1 .. k : i \in 1 .. Len(ls)
  BY <1>0
<1> DEFINE f(i) == IF i < k \/ how = "kept" THEN ls[i]
                   ELSE Line(ls[i].event, IF how = "cut" THEN "torn" ELSE ls[i].text, FALSE)
<1>2. r = [i \in 1 .. k |-> f(i)]
  BY DEF Remains
<1>3. \A i \in 1 .. k : f(i).text \in Texts
  BY <1>1 DEF Line, Texts
<1>4. \A i \in 1 .. k : i < k \/ how = "kept" => f(i) = ls[i]
  OBVIOUS
<1> DEFINE S == {f(i) : i \in 1 .. k}
<1>5. \A i \in 1 .. k : f(i) \in S
  OBVIOUS
<1> HIDE DEF S, f
<1>6. r \in Seq(S) /\ Len(r) = k
  BY <1>1, <1>2, <1>5
<1>7. r \in Seq(LinesOf(r))
  BY <1>6, OverItsElements
<1> QED
  BY <1>2, <1>3, <1>4, <1>6, <1>7


-----------------------------------------------------------------------------
(* Any writers, any failure.                                               *)

LEMMA AnyFaultInit == Init => AnyFaultInv
<1>1. ASSUME lines = <<>> PROVE lines \in Seq(LinesOf(lines)) /\ Len(lines) = 0
  BY <1>1
<1> QED
  BY <1>1, WalAssumption DEF Init, AnyFaultInv, FileTyped, WritersTyped, CurTyped,
     AckedIsSynced, WritingIsInFile, NoEvent, Event

(* What was synced or written stays in the file when it only grows.        *)
LEMMA GrowthKeeps ==
  ASSUME FileTyped, AckedIsSynced, WritingIsInFile,
         acked' = acked, synced' = synced, Len(lines') \in {Len(lines), Len(lines) + 1},
         \A i \in 1 .. Len(lines) : Stays(lines'[i], lines[i])
  PROVE  /\ AckedIsSynced'
         /\ \A e : (\E i \in 1 .. Len(lines) : Holds(i, e))
                     => \E i \in 1 .. Len(lines') : Holds(i, e)'
<1>1. Len(lines) \in Nat /\ synced \in 0 .. Len(lines)
  BY DEF FileTyped
<1>2. \A i \in 1 .. Len(lines) : \A e : Holds(i, e) => Carries(lines'[i], e)
  BY DEF Holds, Carries, Stays
<1>3. \A i \in 1 .. synced : i \in 1 .. Len(lines)
  BY <1>1
<1>4. AckedIsSynced'
  BY <1>2, <1>3 DEF AckedIsSynced, Holds
<1>5. \A i \in 1 .. Len(lines) : i \in 1 .. Len(lines')
  BY <1>1
<1> QED
  BY <1>2, <1>4, <1>5 DEF Holds

LEMMA AnyFaultStep == AnyFaultInv /\ [Next]_vars => AnyFaultInv'
<1> SUFFICES ASSUME AnyFaultInv, [Next]_vars PROVE AnyFaultInv'
  OBVIOUS
<1> USE DEF AnyFaultInv
<1>a. Len(lines) \in Nat /\ synced \in 0 .. Len(lines)
  BY DEF FileTyped
<1>b. \A ws : Forget(ws) => (st' \in [Writers -> {"closed", "open", "writing", "refused"}]
                             /\ seq' \in [Writers -> Nat] /\ CurTyped')
  BY DEF Forget, WritersTyped, CurTyped, NoEvent, Event
<1>c. ASSUME UNCHANGED <<lines, synced, acked>>, WritersTyped',
             \A w \in Writers : st'[w] = "writing" => st[w] = "writing" /\ cur'[w] = cur[w]
      PROVE  AnyFaultInv'
  <2>1. FileTyped'
    BY <1>c DEF FileTyped, LinesOf
  <2>2. AckedIsSynced' /\ WritingIsInFile'
    BY <1>c DEF AckedIsSynced, WritingIsInFile, Holds
  <2> QED
    BY <1>c, <2>1, <2>2
<1>1. ASSUME NEW w \in Writers, Open(w) PROVE AnyFaultInv'
  <2>1. \A v \in Writers : st'[v] = "writing" => st[v] = "writing" /\ cur'[v] = cur[v]
    BY <1>1 DEF Open, WritersTyped
  <2>2. lines # <<>> /\ Verifies(lines) => lines[Len(lines)].event.seq + 1 \in Nat
    BY <1>a DEF Verifies, LineVerifies, FileTyped
  <2>3. WritersTyped'
    BY <1>1, <2>2 DEF Open, WritersTyped, CurTyped
  <2> QED
    BY <1>1, <1>c, <2>1, <2>3 DEF Open
<1>2. ASSUME NEW w \in Writers, NEW b \in Bodies, Write(w, b) PROVE AnyFaultInv'
  <2> DEFINE e == Event(last[w], seq[w], b)
  <2>1. e.seq = seq[w]
    BY DEF Event
  <2>2. /\ lines' = Extend(lines, e, "whole", TRUE) /\ Len(lines) < MaxLines
        /\ cur' = [cur EXCEPT ![w] = e] /\ st' = [st EXCEPT ![w] = "writing"]
        /\ UNCHANGED <<synced, seq, last, acked>>
    BY <1>2 DEF Write
  <2> HIDE DEF e
  <2>3. /\ lines' \in Seq(LinesOf(lines'))
        /\ Len(lines') \in {Len(lines), Len(lines) + 1} /\ Len(lines') # 0
        /\ \A i \in 1 .. Len(lines') : lines'[i].text \in Texts
        /\ \A i \in 1 .. Len(lines) : Stays(lines'[i], lines[i])
        /\ Carries(lines'[Len(lines')], e)
    <3>1. "whole" \in Texts
      BY DEF Texts
    <3>2. lines \in Seq(LinesOf(lines))
          /\ \A i \in 1 .. Len(lines) : lines[i].text \in Texts
      BY DEF FileTyped
    <3> QED
      BY <2>2, <3>1, <3>2, ExtendKeeps
  <2>a. Len(lines') \in Nat \ {0} /\ Len(lines') <= MaxLines /\ synced' \in 0 .. Len(lines')
    <3>1. Len(lines') \in {Len(lines), Len(lines) + 1} /\ Len(lines') # 0
      BY <2>3
    <3>2. Len(lines) < MaxLines /\ synced' = synced
      BY <2>2
    <3> QED
      BY <1>a, <3>1, <3>2, WalAssumption
  <2>4. FileTyped'
    BY <2>3, <2>a DEF FileTyped
  <2>5. WritersTyped'
    BY <2>1, <2>2 DEF WritersTyped, CurTyped
  <2>6. AckedIsSynced' /\ \A x : (\E i \in 1 .. Len(lines) : Holds(i, x))
                                   => \E i \in 1 .. Len(lines') : Holds(i, x)'
    BY <2>2, <2>3, GrowthKeeps
  <2>7. \A v \in Writers \ {w} : st'[v] = st[v] /\ cur'[v] = cur[v]
    BY <2>2 DEF WritersTyped, CurTyped
  <2>8. \A v \in Writers \ {w} : st'[v] = "writing" => \E i \in 1 .. Len(lines') : Holds(i, cur[v])'
    BY <2>6, <2>7 DEF WritingIsInFile, Holds
  <2>9. cur'[w] = e /\ Len(lines') \in 1 .. Len(lines')
    <3>1. Len(lines') \in 1 .. Len(lines')
      BY <2>a
    <3>2. cur = [v \in Writers |-> cur[v]] /\ cur' = [cur EXCEPT ![w] = e]
      BY <2>2 DEF WritersTyped, CurTyped
    <3> QED
      BY <3>1, <3>2
  <2>10. WritingIsInFile'
    BY <2>3, <2>8, <2>9 DEF WritingIsInFile, Holds
  <2> QED
    BY <2>4, <2>5, <2>6, <2>10
<1>3. ASSUME NEW w \in Writers, NEW b \in Bodies, WriteFails(w, b) PROVE AnyFaultInv'
  <2> DEFINE e == Event(last[w], seq[w], b)
  <2>1. PICK text \in Texts : lines' = Extend(lines, e, text, FALSE)
    BY <1>3 DEF WriteFails, Texts
  <2>2. Len(lines) < MaxLines /\ UNCHANGED <<synced, st, seq, last, cur, acked>>
    BY <1>3 DEF WriteFails
  <2> HIDE DEF e
  <2>3. /\ lines' \in Seq(LinesOf(lines'))
        /\ Len(lines') \in {Len(lines), Len(lines) + 1} /\ Len(lines') # 0
        /\ \A i \in 1 .. Len(lines') : lines'[i].text \in Texts
        /\ \A i \in 1 .. Len(lines) : Stays(lines'[i], lines[i])
    <3>1. FALSE \in BOOLEAN
      OBVIOUS
    <3>2. lines \in Seq(LinesOf(lines))
          /\ \A i \in 1 .. Len(lines) : lines[i].text \in Texts
      BY DEF FileTyped
    <3> QED
      BY <2>1, <3>1, <3>2, ExtendKeeps
  <2>4. FileTyped'
    BY <1>a, <2>2, <2>3, WalAssumption DEF FileTyped, LinesOf
  <2>5. WritersTyped'
    BY <2>2 DEF WritersTyped, CurTyped
  <2>6. AckedIsSynced' /\ \A x : (\E i \in 1 .. Len(lines) : Holds(i, x))
                                   => \E i \in 1 .. Len(lines') : Holds(i, x)'
    BY <2>2, <2>3, GrowthKeeps
  <2>7. WritingIsInFile'
    BY <2>2, <2>6 DEF WritingIsInFile, Holds
  <2> QED
    BY <2>4, <2>5, <2>6, <2>7
<1>4. ASSUME NEW w \in Writers, Sync(w) PROVE AnyFaultInv'
  <2>1. WritersTyped'
    <3>1. cur[w].seq \in Nat /\ NoEvent.seq \in Nat
      BY DEF WritersTyped, CurTyped, NoEvent, Event
    <3>2. \A e \in acked' : e.seq \in Nat
      BY <1>4, <3>1 DEF Sync, WritersTyped
    <3>3. CurTyped'
      BY <1>4, <3>1 DEF Sync, WritersTyped, CurTyped
    <3>4. seq' \in [Writers -> Nat] /\ st' \in [Writers -> {"closed", "open", "writing", "refused"}]
      BY <1>4 DEF Sync, WritersTyped
    <3> QED
      BY <3>2, <3>3, <3>4 DEF WritersTyped
  <2>2. FileTyped'
    BY <1>4, <1>a DEF Sync, FileTyped, LinesOf
  <2>3. \E i \in 1 .. Len(lines) : Holds(i, cur[w])
    BY <1>4 DEF Sync, WritingIsInFile
  <2>4. \A e \in acked : \E i \in 1 .. Len(lines) : Holds(i, e)
    BY <1>a DEF AckedIsSynced
  <2>5. AckedIsSynced'
    BY <1>4, <2>3, <2>4 DEF Sync, AckedIsSynced, Holds
  <2>6. \A v \in Writers : st'[v] = "writing" => st[v] = "writing" /\ cur'[v] = cur[v]
    BY <1>4 DEF Sync, WritersTyped, CurTyped
  <2>7. WritingIsInFile'
    BY <1>4, <2>6 DEF Sync, WritingIsInFile, Holds
  <2> QED
    BY <2>1, <2>2, <2>5, <2>7
<1>5. ASSUME NEW w \in Writers, SyncFails(w) PROVE AnyFaultInv'
  <2>1. WritersTyped'
    BY <1>5 DEF SyncFails, WritersTyped, CurTyped, NoEvent, Event
  <2>2. \A v \in Writers : st'[v] = "writing" => st[v] = "writing" /\ cur'[v] = cur[v]
    BY <1>5 DEF SyncFails, WritersTyped, CurTyped
  <2> QED
    BY <1>5, <1>c, <2>1, <2>2 DEF SyncFails
<1>6. ASSUME NEW w \in Writers, Close(w) \/ Crash(w) PROVE AnyFaultInv'
  <2>1. Forget({w}) /\ UNCHANGED <<lines, synced, acked>>
    BY <1>6 DEF Close, Crash
  <2>2. WritersTyped'
    BY <1>b, <2>1 DEF WritersTyped
  <2>3. \A v \in Writers : st'[v] = "writing" => st[v] = "writing" /\ cur'[v] = cur[v]
    BY <2>1 DEF Forget
  <2> QED
    BY <1>c, <2>1, <2>2, <2>3
<1>7. ASSUME PowerLoss PROVE AnyFaultInv'
  <2>1. PICK k \in synced .. Len(lines), how \in {"kept", "unended", "cut"} :
          (k = synced => how = "kept") /\ lines' = Remains(lines, k, how) /\ synced' = k
    BY <1>7 DEF PowerLoss
  <2>2. Forget(Writers) /\ acked' = acked
    BY <1>7 DEF PowerLoss
  <2>3. k \in 0 .. Len(lines) /\ k \in Nat /\ synced <= k
    BY <1>a, <2>1
  <2>4. /\ lines' \in Seq(LinesOf(lines')) /\ Len(lines') = k
        /\ \A i \in 1 .. k : lines'[i].text \in Texts
        /\ \A i \in 1 .. k : i < k \/ how = "kept" => lines'[i] = lines[i]
    BY <2>1, <2>3, RemainsKeeps DEF FileTyped
  <2>5. FileTyped'
    BY <2>1, <2>3, <2>4, WalAssumption DEF FileTyped, LinesOf
  <2>6. WritersTyped'
    BY <1>b, <2>2 DEF WritersTyped
  <2>7. \A i \in 1 .. synced : i \in 1 .. k /\ lines'[i] = lines[i]
    BY <1>a, <2>1, <2>3, <2>4
  <2>8. AckedIsSynced'
    BY <2>1, <2>2, <2>7 DEF AckedIsSynced, Holds
  <2>9. WritingIsInFile'
    BY <2>2 DEF Forget, WritingIsInFile
  <2> QED
    BY <2>5, <2>6, <2>8, <2>9
<1>8. CASE UNCHANGED vars
  BY <1>8, <1>c DEF vars, WritersTyped, CurTyped
<1> QED
  BY <1>1, <1>2, <1>3, <1>4, <1>5, <1>6, <1>7, <1>8 DEF Next

(* Whatever fails and however many writers share the file, every           *)
(* acknowledged event stays in the synced part of the file, or its line is *)
(* torn and cannot be read.                                                *)
THEOREM AcknowledgedStays == Spec => []AnyFaultInv
<1> QED
  BY AnyFaultInit, AnyFaultStep, PTL DEF Spec

(* Type correctness of the log (wal.rs).                                   *)
THEOREM WalTypeCorrect == Spec => []TypeOK
<1>1. AnyFaultInv => TypeOK
  BY DEF AnyFaultInv, FileTyped, WritersTyped, TypeOK
<1> QED
  BY <1>1, AcknowledgedStays, PTL

(* A log that validate_integrity accepts has every event append answered   *)
(* Ok for, at its place.                                                   *)
THEOREM CompleteIfItVerifies == Spec => []VerifiedIsComplete
<1>1. AnyFaultInv => VerifiedIsComplete
  <2> SUFFICES ASSUME AnyFaultInv, Verifies(lines), NEW e \in acked
               PROVE  e.seq < Len(lines) /\ lines[e.seq + 1].event = e
    BY DEF VerifiedIsComplete
  <2>1. PICK i \in 1 .. synced : Holds(i, e)
    BY DEF AnyFaultInv, AckedIsSynced
  <2>2. Len(lines) \in Nat /\ i \in 1 .. Len(lines)
    BY DEF AnyFaultInv, FileTyped
  <2>3. lines[i].event = e /\ e.seq = i - 1
    BY <2>1, <2>2 DEF Holds, Carries, Verifies, LineVerifies
  <2> QED
    BY <2>2, <2>3
<1> QED
  BY <1>1, AcknowledgedStays, PTL

-----------------------------------------------------------------------------
(* One writer, and no failure but the crash of its process.                *)

OnlyCrashes == Faults \subseteq {"crash"} /\ \A v, w \in Writers : v = w

Continues(w) ==
  /\ st[w] # "refused"
  /\ st[w] = "open" => seq[w] = Len(lines) /\ last[w] = TipHash(lines)
  /\ st[w] = "writing" =>
       Len(lines) # 0 /\ cur[w] = lines[Len(lines)].event /\ seq[w] = Len(lines) - 1

AllEnded == \A i \in 1 .. Len(lines) : lines[i].ended

CrashInv ==
  /\ AnyFaultInv
  /\ last = [w \in Writers |-> last[w]]
  /\ AllEnded
  /\ Verifies(lines)
  /\ \A w \in Writers : Continues(w)

LEMMA CrashInit == Init => CrashInv
<1>1. lines = <<>> => Len(lines) = 0
  OBVIOUS
<1> QED
  BY <1>1, AnyFaultInit DEF Init, CrashInv, AllEnded, Verifies, Continues

(* The event a writer that continues the log appends verifies after it.    *)
LEMMA NextVerifies ==
  ASSUME NEW S, NEW ls \in Seq(S), Verifies(ls), NEW b,
         NEW l, l.text = "whole", l.event = Event(TipHash(ls), Len(ls), b),
         NEW r, r = Append(ls, l)
  PROVE  Verifies(r)
<1>1. /\ Len(ls) \in Nat /\ Len(r) = Len(ls) + 1 /\ r[Len(r)] = l
      /\ \A i \in 1 .. Len(ls) : r[i] = ls[i]
  BY ls \in Seq(S \cup {l}), l \in S \cup {l}
<1>2. ASSUME NEW i \in 1 .. Len(ls) PROVE LineVerifies(r, i)
  <2>1. r[i] = ls[i] /\ (i # 1 => r[i - 1] = ls[i - 1])
    BY <1>1
  <2>2. LineVerifies(ls, i)
    BY DEF Verifies
  <2> QED
    BY <2>1, <2>2 DEF LineVerifies
<1>3. LineVerifies(r, Len(r))
  <2>2. TipHash(ls) = IF Len(r) = 1 THEN Genesis ELSE r[Len(r) - 1].event.hash
    <3>1. CASE ls = <<>>
      BY <1>1, <3>1 DEF TipHash
    <3>2. CASE ls # <<>>
      <4>1. Len(ls) # 0 /\ Len(r) # 1 /\ r[Len(r) - 1] = ls[Len(ls)]
        BY <1>1, <3>2
      <4> QED
        BY <3>2, <4>1 DEF TipHash
    <3> QED
      BY <3>1, <3>2
  <2>3. Len(ls) = Len(r) - 1 /\ r[Len(r)] = l
    BY <1>1
  <2> DEFINE e == Event(TipHash(ls), Len(ls), b)
  <2>4. e.seq = Len(ls) /\ e.prev = TipHash(ls) /\ e.hash = Hash(e.prev, e.seq, e.body)
    BY DEF Event
  <2> HIDE DEF e
  <2>5. r[Len(r)].text = "whole" /\ r[Len(r)].event = e
    BY <2>3 DEF e
  <2> QED
    BY <2>2, <2>3, <2>4, <2>5 DEF LineVerifies
<1>4. \A i \in 1 .. Len(r) : i \in 1 .. Len(ls) \/ i = Len(r)
  BY <1>1
<1> QED
  BY <1>2, <1>3, <1>4 DEF Verifies

(* What a write does to a log that verifies: one line more, and it still   *)
(* verifies.                                                               *)
LEMMA WriteAppends ==
  ASSUME CrashInv, NEW w \in Writers, NEW b \in Bodies, Write(w, b)
  PROVE  /\ lines' = Append(lines, Line(Event(TipHash(lines), Len(lines), b), "whole", TRUE))
         /\ Len(lines) \in Nat /\ Len(lines') = Len(lines) + 1
         /\ lines'[Len(lines')].event = Event(TipHash(lines), Len(lines), b)
         /\ AllEnded' /\ Verifies(lines)'
<1> DEFINE e == Event(TipHash(lines), Len(lines), b)
           l == Line(e, "whole", TRUE)
<1>1. lines \in Seq(LinesOf(lines)) /\ Len(lines) \in Nat
  BY DEF CrashInv, AnyFaultInv, FileTyped
<1>2. seq[w] = Len(lines) /\ last[w] = TipHash(lines)
  BY DEF CrashInv, Continues, Write
<1>3. lines # <<>> => Len(lines) \in 1 .. Len(lines)
  BY <1>1
<1>4. lines' = Append(lines, l)
  <2>1. lines' = Extend(lines, e, "whole", TRUE)
    BY <1>2 DEF Write
  <2>2. ~(lines # <<>> /\ ~lines[Len(lines)].ended)
    BY <1>3 DEF CrashInv, AllEnded
  <2> QED
    BY <2>1, <2>2 DEF Extend
<1>5. Verifies(Append(lines, l))
  <2>1. l.text = "whole" /\ l.event = e
    BY DEF Line
  <2> HIDE DEF l
  <2> QED
    BY <1>1, <2>1, NextVerifies DEF CrashInv
<1>6. l.ended /\ l.event = e
  BY DEF Line
<1> HIDE DEF l, e
<1>7. /\ Len(lines') = Len(lines) + 1 /\ lines'[Len(lines')] = l
      /\ \A i \in 1 .. Len(lines) : lines'[i] = lines[i]
      /\ \A i \in 1 .. Len(lines') : i \in 1 .. Len(lines) \/ lines'[i] = l
  BY <1>1, <1>4
<1>8. AllEnded'
  BY <1>6, <1>7 DEF AllEnded, CrashInv
<1>9. Verifies(lines)'
  BY <1>4, <1>5 DEF Verifies
<1> QED
  BY <1>1, <1>4, <1>6, <1>7, <1>8, <1>9 DEF l, e

LEMMA CrashStep == OnlyCrashes /\ CrashInv /\ [Next]_vars => CrashInv'
<1> SUFFICES ASSUME OnlyCrashes, CrashInv, [Next]_vars PROVE CrashInv'
  OBVIOUS
<1>a. AnyFaultInv'
  BY AnyFaultStep DEF CrashInv
<1>b. lines \in Seq(LinesOf(lines)) /\ Len(lines) \in Nat /\ WritersTyped
  BY DEF CrashInv, AnyFaultInv, FileTyped
<1>c. \A v, w \in Writers : v = w
  BY DEF OnlyCrashes
<1>d. lines' = lines => AllEnded' /\ Verifies(lines)'
  BY DEF CrashInv, AllEnded, Verifies, LineVerifies
<1>e. ASSUME NEW ws, Forget(ws), lines' = lines, ws = Writers PROVE CrashInv'
  <2>1. \A v \in Writers : st'[v] = "closed"
    BY <1>e DEF Forget
  <2>2. last' = [v \in Writers |-> last'[v]]
    BY <1>e DEF Forget
  <2> QED
    BY <1>a, <1>d, <1>e, <2>1, <2>2 DEF CrashInv, Continues
<1>1. ASSUME NEW w \in Writers, Open(w) PROVE CrashInv'
  <2>1. /\ st' = [st EXCEPT ![w] = "open"] /\ last' = [last EXCEPT ![w] = TipHash(lines)]
        /\ seq' = [seq EXCEPT ![w] = IF lines = <<>> THEN 0 ELSE lines[Len(lines)].event.seq + 1]
        /\ lines' = lines
    BY <1>1 DEF Open, CrashInv
  <2>2. (IF lines = <<>> THEN 0 ELSE lines[Len(lines)].event.seq + 1) = Len(lines)
    <3>1. lines = <<>> => Len(lines) = 0
      OBVIOUS
    <3>2. lines # <<>> => Len(lines) \in 1 .. Len(lines)
      BY <1>b
    <3>3. lines # <<>> => lines[Len(lines)].event.seq = Len(lines) - 1
      BY <3>2 DEF CrashInv, Verifies, LineVerifies
    <3> QED
      BY <1>b, <3>1, <3>3
  <2>3. last' = [v \in Writers |-> last'[v]] /\ last'[w] = TipHash(lines)
    BY <2>1 DEF CrashInv
  <2>4. st'[w] = "open" /\ seq'[w] = Len(lines)
    BY <1>b, <2>1, <2>2 DEF WritersTyped
  <2>5. Continues(w)'
    BY <2>1, <2>3, <2>4 DEF Continues
  <2> QED
    BY <1>a, <1>c, <1>d, <2>1, <2>3, <2>5 DEF CrashInv
<1>2. ASSUME NEW w \in Writers, NEW b \in Bodies, Write(w, b) PROVE CrashInv'
  <2> DEFINE e == Event(TipHash(lines), Len(lines), b)
  <2>1. /\ Len(lines') = Len(lines) + 1 /\ lines'[Len(lines')].event = e
        /\ AllEnded' /\ Verifies(lines)'
    BY <1>2, WriteAppends
  <2>2. seq[w] = Len(lines) /\ last[w] = TipHash(lines)
    BY <1>2 DEF CrashInv, Continues, Write
  <2>3. /\ st' = [st EXCEPT ![w] = "writing"] /\ cur' = [cur EXCEPT ![w] = e]
        /\ seq' = seq /\ last' = last
    BY <1>2, <2>2 DEF Write
  <2> HIDE DEF e
  <2>4. st'[w] = "writing" /\ cur'[w] = e
    <3>1. cur = [v \in Writers |-> cur[v]]
      BY <1>b DEF WritersTyped, CurTyped
    <3> QED
      BY <1>b, <2>3, <3>1 DEF WritersTyped
  <2>5. Len(lines') # 0 /\ Len(lines') - 1 = Len(lines)
    BY <1>b, <2>1
  <2>6. Continues(w)'
    BY <2>1, <2>2, <2>3, <2>4, <2>5 DEF Continues
  <2>7. last' = [v \in Writers |-> last'[v]]
    BY <2>3 DEF CrashInv
  <2> QED
    BY <1>a, <1>c, <2>1, <2>6, <2>7 DEF CrashInv
<1>3. ASSUME NEW w \in Writers, NEW b \in Bodies, WriteFails(w, b) PROVE FALSE
  BY <1>3 DEF WriteFails, OnlyCrashes
<1>4. ASSUME NEW w \in Writers, Sync(w) PROVE CrashInv'
  <2>1. /\ Len(lines) # 0 /\ cur[w] = lines[Len(lines)].event /\ seq[w] = Len(lines) - 1
        /\ lines' = lines
    BY <1>4 DEF Sync, CrashInv, Continues
  <2>2. /\ st' = [st EXCEPT ![w] = "open"] /\ seq' = [seq EXCEPT ![w] = seq[w] + 1]
        /\ last' = [last EXCEPT ![w] = cur[w].hash]
    BY <1>4 DEF Sync
  <2>3. TipHash(lines) = cur[w].hash
    BY <2>1 DEF TipHash
  <2>4. last' = [v \in Writers |-> last'[v]] /\ last'[w] = cur[w].hash
    BY <2>2 DEF CrashInv
  <2>5. st'[w] = "open" /\ seq'[w] = seq[w] + 1
    BY <1>b, <2>2 DEF WritersTyped
  <2>6. seq'[w] = Len(lines)
    BY <1>b, <2>1, <2>5
  <2>7. Continues(w)'
    BY <2>1, <2>3, <2>4, <2>5, <2>6 DEF Continues, TipHash
  <2> QED
    BY <1>a, <1>c, <1>d, <2>1, <2>4, <2>7 DEF CrashInv
<1>5. ASSUME NEW w \in Writers, SyncFails(w) PROVE FALSE
  BY <1>5 DEF SyncFails, OnlyCrashes
<1>6. ASSUME NEW w \in Writers, Close(w) \/ Crash(w) PROVE CrashInv'
  <2>1. {w} = Writers
    BY <1>c
  <2> QED
    BY <1>6, <1>e, <2>1 DEF Close, Crash
<1>7. ASSUME PowerLoss PROVE FALSE
  BY <1>7 DEF PowerLoss, OnlyCrashes
<1>8. CASE UNCHANGED vars
  BY <1>8, <1>a, <1>d DEF vars, CrashInv, Continues, TipHash
<1> QED
  BY <1>1, <1>2, <1>3, <1>4, <1>5, <1>6, <1>7, <1>8 DEF Next

(* The log of a session with one writer verifies at every moment, whenever *)
(* its process dies: the next init resumes it.                             *)
THEOREM CrashesLeaveALog == Spec => [](OnlyCrashes => LogReplays)
<1>1. Init => (OnlyCrashes => CrashInv)
  BY CrashInit
<1>2. (OnlyCrashes => CrashInv) /\ [Next]_vars => (OnlyCrashes => CrashInv)'
  BY CrashStep DEF OnlyCrashes
<1>3. (OnlyCrashes => CrashInv) => (OnlyCrashes => LogReplays)
  BY DEF CrashInv, LogReplays
<1> QED
  BY <1>1, <1>2, <1>3, PTL DEF Spec

(* A step of the log is a step of the ledger: a write adds its entry, a    *)
(* sync promises the last one, and the rest change neither.                *)
LEMMA LedgerStep == OnlyCrashes /\ CrashInv /\ [Next]_vars => [L!Next]_(L!vars)
<1> DEFINE log == [i \in 1 .. Len(lines) |-> lines[i].event.body]
           promised == {e.seq + 1 : e \in acked}
<1> SUFFICES ASSUME OnlyCrashes, CrashInv, [Next]_vars
             PROVE  L!Next \/ (log' = log /\ promised' = promised)
  BY DEF L!vars
<1>a. Len(lines) \in Nat /\ WritersTyped
  BY DEF CrashInv, AnyFaultInv, FileTyped
<1>b. lines' = lines /\ acked' = acked => log' = log /\ promised' = promised
  OBVIOUS
<1>1. ASSUME NEW w \in Writers, Open(w) \/ Close(w) \/ Crash(w) PROVE lines' = lines /\ acked' = acked
  BY <1>1 DEF Open, Close, Crash
<1>2. ASSUME NEW w \in Writers, NEW b \in Bodies, Write(w, b) PROVE L!Add(b)
  <2> DEFINE e == Event(TipHash(lines), Len(lines), b)
             l == Line(e, "whole", TRUE)
  <2>1. lines' = Append(lines, l) /\ Len(lines') = Len(lines) + 1 /\ lines'[Len(lines')].event = e
    BY <1>2, WriteAppends
  <2>2. e.body = b
    BY DEF Event
  <2>3. lines \in Seq(LinesOf(lines))
    BY DEF CrashInv, AnyFaultInv, FileTyped
  <2> HIDE DEF l, e
  <2>4. \A i \in 1 .. Len(lines) : lines'[i] = lines[i]
    BY <2>1, <2>3
  <2>5. log' = [i \in 1 .. Len(lines) + 1 |-> IF i = Len(lines) + 1 THEN b ELSE lines[i].event.body]
    <3>1. \A i \in 1 .. Len(lines) + 1 : i = Len(lines) + 1 \/ i \in 1 .. Len(lines)
      BY <1>a
    <3>2. \A i \in 1 .. Len(lines) + 1 :
            lines'[i].event.body = IF i = Len(lines) + 1 THEN b ELSE lines[i].event.body
      BY <2>1, <2>2, <2>4, <3>1
    <3> QED
      BY <2>1, <3>2
  <2>6. Append(log, b) = log'
    <3> DEFINE T == {lines[i].event.body : i \in 1 .. Len(lines)} \cup {b}
    <3>1. \A i \in 1 .. Len(lines) : lines[i].event.body \in T
      OBVIOUS
    <3> HIDE DEF T
    <3>2. log \in Seq(T) /\ Len(log) = Len(lines) /\ b \in T
      BY <1>a, <3>1 DEF T
    <3>3. log' \in Seq(T) /\ Len(log') = Len(lines) + 1
      BY <1>a, <2>5, <3>1, <3>2
    <3>4. \A i \in 1 .. Len(lines) : log[i] = log'[i]
      BY <1>a, <2>5
    <3>5. log'[Len(lines) + 1] = b
      BY <1>a, <2>5
    <3>6. \A i \in 1 .. Len(lines) + 1 : i = Len(lines) + 1 \/ i \in 1 .. Len(lines)
      BY <1>a
    <3> HIDE DEF log
    <3>7. /\ Append(log, b) \in Seq(T) /\ Len(Append(log, b)) = Len(lines) + 1
          /\ \A i \in 1 .. Len(lines) : Append(log, b)[i] = log[i]
          /\ Append(log, b)[Len(lines) + 1] = b
      BY <3>2, AppendProperties
    <3>8. \A i \in 1 .. Len(Append(log, b)) : Append(log, b)[i] = log'[i]
      BY <3>4, <3>5, <3>6, <3>7
    <3> QED
      BY <3>3, <3>7, <3>8, SeqEqual
  <2>7. promised' = promised
    BY <1>2 DEF Write
  <2> QED
    BY <2>6, <2>7 DEF L!Add
<1>3. ASSUME NEW w \in Writers, Sync(w) PROVE L!Promise
  <2>1. Len(lines) # 0 /\ cur[w] = lines[Len(lines)].event
    BY <1>3 DEF Sync, CrashInv, Continues
  <2>2. lines[Len(lines)].event.seq = Len(lines) - 1
    BY <1>a, <2>1 DEF CrashInv, Verifies, LineVerifies
  <2>3. acked' = acked \cup {cur[w]} /\ lines' = lines
    BY <1>3 DEF Sync
  <2>4. promised' = promised \cup {Len(lines)}
    BY <1>a, <2>1, <2>2, <2>3
  <2>5. log \in Seq({lines[i].event.body : i \in 1 .. Len(lines)}) /\ Len(log) = Len(lines)
    BY <1>a
  <2>6. log # <<>> /\ Len(log) = Len(lines)
    BY <1>a, <2>1, <2>5
  <2>7. log' = log
    BY <2>3
  <2> QED
    BY <2>4, <2>6, <2>7 DEF L!Promise
<1>4. ASSUME NEW w \in Writers, NEW b \in Bodies, WriteFails(w, b) \/ SyncFails(w) PROVE FALSE
  BY <1>4 DEF WriteFails, SyncFails, OnlyCrashes
<1>5. ASSUME NEW w \in Writers, SyncFails(w) PROVE FALSE
  BY <1>5 DEF SyncFails, OnlyCrashes
<1>6. ASSUME PowerLoss PROVE FALSE
  BY <1>6 DEF PowerLoss, OnlyCrashes
<1>7. CASE UNCHANGED vars
  BY <1>7, <1>b DEF vars
<1> QED
  BY <1>1, <1>2, <1>3, <1>4, <1>5, <1>6, <1>7, <1>b DEF Next, L!Next

(* One writer, crashing and resuming at any moment, keeps the ledger that  *)
(* DESIGN_LOG section 7 describes.                                         *)
THEOREM RefinesLedger ==
  ASSUME OnlyCrashes
  PROVE  Spec => ImplementsLedger
<1>1. Init => CrashInv
  BY CrashInit
<1>2. CrashInv /\ [Next]_vars => CrashInv'
  BY CrashStep
<1>3. Init => L!Init
  BY DEF Init, L!Init
<1>4. CrashInv /\ [Next]_vars => [L!Next]_(L!vars)
  BY LedgerStep
<1> QED
  BY <1>1, <1>2, <1>3, <1>4, PTL DEF Spec, ImplementsLedger, L!Spec

-----------------------------------------------------------------------------
(* What a changed log says.                                                *)

IsEvent(e) == e = [seq |-> e.seq, prev |-> e.prev, body |-> e.body, hash |-> e.hash]

IsLine(l) == l = Line(l.event, l.text, l.ended) /\ IsEvent(l.event)

AreLines(ls) == \A i \in 1 .. Len(ls) : IsLine(ls[i])

LEMMA EventsAndLines ==
  ASSUME NEW p, NEW s, NEW b
  PROVE  /\ IsEvent(Event(p, s, b))
         /\ \A e, text, ended : IsEvent(e) => IsLine(Line(e, text, ended))
BY DEF IsEvent, IsLine, Event, Line

(* Every failure leaves lines, whole or torn.                              *)
LEMMA ExtendLeavesLines ==
  ASSUME NEW ls, ls \in Seq(LinesOf(ls)), AreLines(ls), NEW e, IsEvent(e),
         NEW text, NEW ended
  PROVE  AreLines(Extend(ls, e, text, ended))
<1> DEFINE S == LinesOf(ls)
<1>1. ls \in Seq(S)
  OBVIOUS
<1> HIDE DEF S
<1>2. CASE ls # <<>> /\ ~ls[Len(ls)].ended
  <2> DEFINE m == Line(ls[Len(ls)].event, "torn", ended)
  <2>1. Len(ls) \in 1 .. Len(ls)
    BY <1>1, <1>2
  <2>2. IsLine(m)
    BY <2>1, EventsAndLines DEF AreLines, IsLine
  <2>3. Extend(ls, e, text, ended) = [ls EXCEPT ![Len(ls)] = m]
    BY <1>2 DEF Extend
  <2> HIDE DEF m
  <2>4. \A i \in 1 .. Len(ls) : [ls EXCEPT ![Len(ls)] = m][i] = ls[i]
                                \/ [ls EXCEPT ![Len(ls)] = m][i] = m
    BY <1>1
  <2>5. Len([ls EXCEPT ![Len(ls)] = m]) = Len(ls)
    BY <1>1, <2>1
  <2> QED
    BY <2>2, <2>3, <2>4, <2>5 DEF AreLines
<1>3. CASE ~(ls # <<>> /\ ~ls[Len(ls)].ended)
  <2> DEFINE m == Line(e, text, ended)
  <2>1. IsLine(m)
    BY EventsAndLines
  <2>2. Extend(ls, e, text, ended) = Append(ls, m)
    BY <1>3 DEF Extend
  <2> HIDE DEF m
  <2>3. \A i \in 1 .. Len(Append(ls, m)) :
          Append(ls, m)[i] = m \/ (i \in 1 .. Len(ls) /\ Append(ls, m)[i] = ls[i])
    BY <1>1
  <2> QED
    BY <2>1, <2>2, <2>3 DEF AreLines
<1> QED
  BY <1>2, <1>3

LEMMA RemainsLeavesLines ==
  ASSUME NEW ls, AreLines(ls), Len(ls) \in Nat, NEW k \in 0 .. Len(ls), NEW how,
         NEW r, r = Remains(ls, k, how), Len(r) = k
  PROVE  AreLines(r)
<1> SUFFICES ASSUME NEW i \in 1 .. k PROVE IsLine(r[i])
  BY DEF AreLines
<1>1. i \in 1 .. Len(ls)
  OBVIOUS
<1>2. IsLine(ls[i])
  BY <1>1 DEF AreLines
<1>3. r[i] = ls[i]
      \/ r[i] = Line(ls[i].event, IF how = "cut" THEN "torn" ELSE ls[i].text, FALSE)
  BY DEF Remains
<1>4. ASSUME NEW text PROVE IsLine(Line(ls[i].event, text, FALSE))
  BY <1>2, EventsAndLines DEF IsLine
<1> QED
  BY <1>2, <1>3, <1>4

LEMMA LinesStayLines == AnyFaultInv /\ AreLines(lines) /\ [Next]_vars => AreLines(lines)'
<1> SUFFICES ASSUME AnyFaultInv, AreLines(lines), [Next]_vars PROVE AreLines(lines')
  OBVIOUS
<1>0. lines \in Seq(LinesOf(lines)) /\ Len(lines) \in Nat /\ synced \in 0 .. Len(lines)
      /\ \A i \in 1 .. Len(lines) : lines[i].text \in Texts
  BY DEF AnyFaultInv, FileTyped
<1>1. ASSUME lines' = lines PROVE AreLines(lines')
  BY <1>1
<1>2. ASSUME NEW w \in Writers, NEW b \in Bodies, Write(w, b) \/ WriteFails(w, b)
      PROVE  AreLines(lines')
  <2>1. IsEvent(Event(last[w], seq[w], b))
    BY EventsAndLines
  <2>2. \E text, ended : lines' = Extend(lines, Event(last[w], seq[w], b), text, ended)
    BY <1>2 DEF Write, WriteFails
  <2> QED
    BY <1>0, <2>1, <2>2, ExtendLeavesLines
<1>3. CASE PowerLoss
  <2>1. PICK k \in synced .. Len(lines), how \in {"kept", "unended", "cut"} :
          lines' = Remains(lines, k, how)
    BY <1>3 DEF PowerLoss
  <2>2. k \in 0 .. Len(lines)
    BY <1>0
  <2>3. Len(lines') = k
    BY <1>0, <2>1, <2>2, RemainsKeeps
  <2> QED
    BY <1>0, <2>1, <2>2, <2>3, RemainsLeavesLines
<1> QED
  BY <1>1, <1>2, <1>3 DEF Next, vars, Open, Sync, SyncFails, Close, Crash

LEMMA Joined ==
  ASSUME NEW S, NEW s \in Seq(S), NEW t \in Seq(S), Len(t) # 0
  PROVE  Len(s \o t) = Len(s) + Len(t) /\ (s \o t)[Len(s) + 1] = t[1]
<1>1. Len(s) \in Nat /\ Len(t) \in Nat
  OBVIOUS
<1>2. Len(s) + 1 \in 1 .. Len(s) + Len(t) /\ Len(s) + 1 > Len(s)
  BY <1>1
<1> QED
  BY <1>1, <1>2

(* The three ways to change a line of a log that verifies.                 *)
LEMMA ChangesShow ==
  ASSUME lines \in Seq(LinesOf(lines)), AreLines(lines), Verifies(lines),
         NEW i \in 1 .. Len(lines)
  PROVE  /\ \A b \in Bodies \ {lines[i].event.body} :
              ~Verifies(Rewritten(i, b)) /\ (i < Len(lines) => ~Verifies(Rehashed(i, b)))
         /\ i < Len(lines) => ~Verifies(Without(i))
<1> DEFINE S == LinesOf(lines)
           e == lines[i].event
<1>1. lines \in Seq(S) /\ Len(lines) \in Nat
  OBVIOUS
<1> HIDE DEF S
<1>2. IsLine(lines[i]) /\ LineVerifies(lines, i)
  BY DEF AreLines, Verifies
<1>3. e.hash = Hash(e.prev, e.seq, e.body) /\ e.seq = i - 1
  BY <1>2 DEF LineVerifies
<1>4. ASSUME NEW b, b # e.body PROVE Hash(e.prev, e.seq, b) # e.hash
  BY <1>3, <1>4 DEF Hash
<1>5. ASSUME NEW b, b # e.body PROVE ~Verifies(Rewritten(i, b))
  <2> DEFINE f == [e EXCEPT !.body = b]
             m == [lines[i] EXCEPT !.event = f]
             ls == Rewritten(i, b)
  <2>1. ls = [lines EXCEPT ![i] = m]
    BY DEF Rewritten
  <2>2. m.event = f
    BY <1>2 DEF IsLine, Line
  <2>3. f.body = b /\ f.prev = e.prev /\ f.seq = e.seq /\ f.hash = e.hash
    BY <1>2 DEF IsLine, IsEvent
  <2> HIDE DEF m, f
  <2>4. Len(ls) = Len(lines) /\ ls[i] = m
    BY <1>1, <2>1
  <2>5. ~LineVerifies(ls, i)
    BY <1>4, <1>5, <2>2, <2>3, <2>4 DEF LineVerifies
  <2> QED
    BY <2>4, <2>5 DEF Verifies
<1>6. ASSUME NEW b, b # e.body, i < Len(lines) PROVE ~Verifies(Rehashed(i, b))
  <2> DEFINE f == Event(e.prev, e.seq, b)
             m == [lines[i] EXCEPT !.event = f]
             ls == Rehashed(i, b)
  <2>1. ls = [lines EXCEPT ![i] = m]
    BY DEF Rehashed
  <2>2. m.event = f
    BY <1>2 DEF IsLine, Line
  <2>3. f.hash # e.hash
    BY <1>4, <1>6 DEF Event
  <2> HIDE DEF m, f
  <2>4. Len(ls) = Len(lines) /\ ls[i] = m /\ ls[i + 1] = lines[i + 1] /\ i + 1 \in 1 .. Len(lines)
    BY <1>1, <1>6, <2>1
  <2>5. lines[i + 1].event.prev = e.hash
    BY <1>6, <2>4 DEF Verifies, LineVerifies
  <2>6. ~LineVerifies(ls, i + 1)
    BY <2>2, <2>3, <2>4, <2>5 DEF LineVerifies
  <2> QED
    BY <2>4, <2>6 DEF Verifies
<1>7. ASSUME i < Len(lines) PROVE ~Verifies(Without(i))
  <2> DEFINE ls == Without(i)
  <2>1. Len(ls) = Len(lines) - 1 /\ ls[i] = lines[i + 1] /\ i \in 1 .. Len(ls)
    <3> DEFINE before == SubSeq(lines, 1, i - 1)
               after == SubSeq(lines, i + 1, Len(lines))
    <3>1. before \in Seq(S) /\ Len(before) = i - 1
      BY <1>1
    <3>2. after \in Seq(S) /\ Len(after) = Len(lines) - i /\ after[1] = lines[i + 1]
      BY <1>1, <1>7
    <3>3. ls = before \o after
      BY DEF Without
    <3> HIDE DEF before, after, ls
    <3>4. Len(after) \in Nat \ {0} /\ i \in Nat \ {0}
      BY <1>1, <1>7, <3>2
    <3>5. Len(ls) = Len(before) + Len(after) /\ ls[Len(before) + 1] = after[1]
      BY <3>1, <3>2, <3>3, <3>4, Joined
    <3> QED
      BY <1>1, <1>7, <3>1, <3>2, <3>4, <3>5
  <2>2. lines[i + 1].event.seq = i
    BY <1>1, <1>7 DEF Verifies, LineVerifies
  <2>3. ~LineVerifies(ls, i)
    BY <2>1, <2>2 DEF LineVerifies
  <2> QED
    BY <2>1, <2>3 DEF Verifies
<1> QED
  BY <1>5, <1>6, <1>7

(* Nobody can change a recorded event, rehash it or take it out of a log   *)
(* and have it verify, the last line apart, whatever failures have left    *)
(* the log, and however long it is.                                        *)
THEOREM ChangesAreEvident == Spec => []TamperEvident
<1>1. Init => AreLines(lines)
  BY DEF Init, AreLines
<1>2. AnyFaultInv /\ AreLines(lines) => TamperEvident
  BY ChangesShow DEF AnyFaultInv, FileTyped, TamperEvident
<1> QED
  BY <1>1, <1>2, LinesStayLines, AcknowledgedStays, PTL DEF Spec

=============================================================================
