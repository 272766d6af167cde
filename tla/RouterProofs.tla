---------------------------- MODULE RouterProofs ----------------------------
(***************************************************************************)
(* Proofs about Router, for any plugins, capabilities and calls.           *)
(*                                                                         *)
(* What makes ProviderStays inductive is Listed: a capability in the map   *)
(* has its plugin in `plugins`, or the plugin being registered is the one  *)
(* that offers it, and then nobody can read the map.                       *)
(* SomebodyGoesOn rests on Nested, RegisteringIsAtomic on what each call   *)
(* has in hand (FrameInv), LogIsWrittenAhead on LogInv.                    *)
(***************************************************************************)
EXTENDS Router, FiniteSetTheorems, TLAPS

Listed ==
  \A x \in Caps :
    capMap[x] # None => plugins[capMap[x]] # None
                        \/ (booting # None /\ capMap[x] = IdOf[booting])

(* A supervisor in the table has been through register_plugin.             *)
Entered == \A i \in Ids : plugins[i] \notin toBoot

(* What holds of one dispatch.                                             *)
CallInv(c) ==
  /\ pc[c] \in {"new", "resolved"} \cup Holding => req[c] \in Request
  /\ pc[c] = "resolved" => target[c] \in Ids /\ plugins[target[c]] # None
  /\ pc[c] \in Holding =>
       target[c] \in Ids /\ provider[c] = plugins[target[c]] /\ provider[c] # None
  /\ pc[c] # "missing"
  /\ pc[c] \in {"approved", "invoking", "answered"} =>
       asked[c] \notin Boots /\ ~(req[c].ask.risky /\ mode = "fail")
  /\ pc[c] = "asking" => mode = "interactive"

RouterInv == TypeOK /\ Listed /\ Entered /\ \A c \in Calls : CallInv(c)

Entries == [event : {"check", "start", "end"}, call : Calls]

-----------------------------------------------------------------------------
(* Types.                                                                  *)

(* A dispatch that ends leaves a well-typed frame (Finish).                *)
LEMMA FinishTyped ==
  ASSUME TypeOK, NEW c \in Calls, NEW how \in Ends, Finish(c, how)
  PROVE  /\ pc' \in [Calls -> PCs]
         /\ req' \in [Calls -> Request \cup {None}]
         /\ target' \in [Calls -> Ids \cup {None}]
         /\ provider' \in [Calls -> Boots \cup {None}]
         /\ asked' \in [Calls -> Boots \cup {None, "yes"}]
         /\ pc'[c] = how /\ asked'[c] = None
         /\ \A d \in Calls \ {c} :
              /\ pc'[d] = pc[d] /\ req'[d] = req[d] /\ target'[d] = target[d]
              /\ provider'[d] = provider[d] /\ asked'[d] = asked[d]
BY DEF TypeOK, Finish, PCs

(* An entry is appended or not (Appended).                                 *)
LEMMA AppendedTyped ==
  ASSUME NEW l \in Seq(Entries), NEW e \in Entries, NEW k \in Appended(l, e)
  PROVE  k \in Seq(Entries)
BY DEF Appended

LEMMA EntryTyped ==
  ASSUME NEW c \in Calls, NEW event \in {"check", "start", "end"}
  PROVE  Entry(event, c) \in Entries
BY DEF Entry, Entries

(* What the gates say is an end or a way to hold `plugins`.                *)
LEMMA VerdictTyped ==
  ASSUME TypeOK, NEW c \in Calls, target[c] \in Ids, plugins[target[c]] # None
  PROVE  /\ Verdict(c) \in {"undeclared", "denied", "rejected", "asking", "approved"}
         /\ Verdict(c) = "approved" => ~(req[c].ask.risky /\ mode = "fail")
         /\ Verdict(c) = "asking" => mode = "interactive" /\ uiId # None /\ plugins[uiId] # None
BY DEF Verdict

LEMMA InitTyped == Init => TypeOK
BY RouterAssumption DEF Init, TypeOK, PCs, Ids

(* A step of c that leaves the registry and the other dispatches alone.    *)
OnlyMoves(c) ==
  /\ UNCHANGED <<mode, registry>>
  /\ \A d \in Calls \ {c} :
       /\ pc'[d] = pc[d] /\ req'[d] = req[d] /\ target'[d] = target[d]
       /\ provider'[d] = provider[d] /\ asked'[d] = asked[d]

LEMMA MovePreserves ==
  ASSUME RouterInv, TypeOK', NEW c \in Calls, OnlyMoves(c), CallInv(c)'
  PROVE  RouterInv'
<1>1. Listed' /\ Entered'
  BY DEF RouterInv, Listed, Entered, OnlyMoves, registry
<1>2. ASSUME NEW d \in Calls \ {c} PROVE CallInv(d)'
  <2>1. CallInv(d)
    BY DEF RouterInv
  <2>2. /\ pc'[d] = pc[d] /\ req'[d] = req[d] /\ target'[d] = target[d]
        /\ provider'[d] = provider[d] /\ asked'[d] = asked[d]
        /\ plugins' = plugins /\ mode' = mode
    BY DEF OnlyMoves, registry
  <2> QED
    BY <2>1, <2>2 DEF CallInv
<1> QED
  BY <1>1, <1>2 DEF RouterInv

(* Every ending: nothing is asked of a dispatch that is over.              *)
LEMMA EndPreserves ==
  ASSUME RouterInv, NEW c \in Calls, NEW how \in Ends \ {"missing"}, Finish(c, how),
         UNCHANGED <<mode, registry>>, log' \in Seq(Entries)
  PROVE  RouterInv'
<1>1. TypeOK'
  BY FinishTyped DEF RouterInv, TypeOK, registry, Entries
<1>2. OnlyMoves(c) /\ pc'[c] = how
  BY FinishTyped DEF RouterInv, OnlyMoves
<1>3. CallInv(c)'
  BY <1>2 DEF CallInv, Ends, Holding
<1> QED
  BY <1>1, <1>2, <1>3, MovePreserves

(* Every other step of a dispatch moves its pc, and writes at most one     *)
(* variable of its frame.                                                  *)
LEMMA FrameTyped ==
  ASSUME TypeOK, NEW c \in Calls, NEW p \in PCs, pc' = [pc EXCEPT ![c] = p],
         UNCHANGED <<mode, registry>>, log' \in Seq(Entries),
         NEW t \in Ids \cup {None}, target' = [target EXCEPT ![c] = t],
         NEW b \in Boots \cup {None}, provider' = [provider EXCEPT ![c] = b],
         NEW a \in Boots \cup {None, "yes"}, asked' = [asked EXCEPT ![c] = a],
         NEW r \in Request \cup {None}, req' = [req EXCEPT ![c] = r]
  PROVE  /\ TypeOK' /\ OnlyMoves(c)
         /\ pc'[c] = p /\ target'[c] = t /\ provider'[c] = b /\ asked'[c] = a /\ req'[c] = r
<1>1. TypeOK'
  BY DEF TypeOK, registry, Entries
<1> QED
  BY <1>1 DEF TypeOK, OnlyMoves

-----------------------------------------------------------------------------
(* The steps of one dispatch.                                              *)

LEMMA DispatchKeeps ==
  ASSUME RouterInv, NEW c \in Calls, Dispatch(c)
  PROVE  RouterInv'
<1>1. PICK r \in Request : req' = [req EXCEPT ![c] = r]
  BY DEF Dispatch
<1>2. TypeOK' /\ OnlyMoves(c) /\ pc'[c] = "new" /\ req'[c] \in Request
  BY <1>1 DEF Dispatch, RouterInv, TypeOK, OnlyMoves, registry, PCs
<1>3. CallInv(c)'
  BY <1>2 DEF CallInv, Holding
<1> QED
  BY <1>2, <1>3, MovePreserves

LEMMA ResolveKeeps ==
  ASSUME RouterInv, NEW c \in Calls, Resolve(c)
  PROVE  RouterInv'
<1>1. log' \in Seq(Entries)
  BY DEF Resolve, RouterInv, TypeOK, Entries
<1>2. CASE Finish(c, "unknown")
  BY <1>1, <1>2, EndPreserves DEF Resolve, Ends
<1>3. CASE /\ capMap[req[c].ask.cap] # None
           /\ target' = [target EXCEPT ![c] = capMap[req[c].ask.cap]]
           /\ pc' = [pc EXCEPT ![c] = "resolved"]
           /\ UNCHANGED <<req, provider, asked>>
  <2> DEFINE x == req[c].ask.cap
  <2>1. req[c] \in Request
    BY DEF Resolve, RouterInv, CallInv
  <2>2. x \in Caps
    BY <2>1, RouterAssumption DEF Request
  <2>3. capMap[x] \in Ids /\ plugins[capMap[x]] # None
    BY <1>3, <2>2 DEF Resolve, MapIsFree, RouterInv, TypeOK, Listed
  <2>4. TypeOK' /\ OnlyMoves(c) /\ pc'[c] = "resolved" /\ req'[c] = req[c]
        /\ target'[c] = capMap[x]
    BY <1>3, <2>3 DEF Resolve, RouterInv, TypeOK, OnlyMoves, registry, PCs
  <2>5. CallInv(c)'
    BY <2>1, <2>3, <2>4 DEF CallInv, Holding, OnlyMoves, registry
  <2> QED
    BY <2>4, <2>5, MovePreserves
<1> QED
  BY <1>2, <1>3 DEF Resolve

LEMMA GateKeeps ==
  ASSUME RouterInv, NEW c \in Calls, Gate(c)
  PROVE  RouterInv'
<1> DEFINE v == Verdict(c)
<1>1. /\ req[c] \in Request /\ target[c] \in Ids /\ plugins[target[c]] \in Boots
      /\ plugins[target[c]] # None
  BY DEF Gate, RouterInv, CallInv, TypeOK
<1>2. /\ v \in {"undeclared", "denied", "rejected", "asking", "approved"}
      /\ v = "approved" => ~(req[c].ask.risky /\ mode = "fail")
      /\ v = "asking" => mode = "interactive" /\ uiId # None /\ plugins[uiId] # None
  BY <1>1, VerdictTyped DEF RouterInv
<1>3. log' \in Seq(Entries)
  BY DEF Gate, RouterInv, TypeOK, Entries
<1>4. CASE v \in Ends /\ Finish(c, v)
  BY <1>2, <1>3, <1>4, EndPreserves DEF Gate
<1>5. CASE /\ v \in Holding
           /\ pc' = [pc EXCEPT ![c] = v]
           /\ provider' = [provider EXCEPT ![c] = plugins[target[c]]]
           /\ asked' = [asked EXCEPT ![c] = IF v = "asking" THEN plugins[uiId] ELSE None]
           /\ UNCHANGED <<req, target>>
  <2> DEFINE a == IF v = "asking" THEN plugins[uiId] ELSE None
  <2>1. v = "asking" => plugins[uiId] \in Boots
    BY <1>2 DEF RouterInv, TypeOK
  <2>2. a \in Boots \cup {None, "yes"} /\ (v # "asking" => a = None)
    BY <2>1
  <2> HIDE DEF a, v
  <2>3. asked' = [asked EXCEPT ![c] = a] /\ pc' = [pc EXCEPT ![c] = v] /\ v \in PCs
    BY <1>5 DEF a, v, PCs
  <2>4. /\ TypeOK' /\ OnlyMoves(c) /\ pc'[c] = v /\ req'[c] = req[c] /\ asked'[c] = a
        /\ target'[c] = target[c] /\ provider'[c] = plugins[target[c]]
    BY <1>1, <1>5, <2>2, <2>3 DEF Gate, RouterInv, TypeOK, OnlyMoves, registry, PCs, Holding
  <2>5. CallInv(c)'
    BY <1>1, <1>2, <1>5, <2>2, <2>4, RouterAssumption DEF CallInv, Holding, OnlyMoves, registry, v
  <2> QED
    BY <2>4, <2>5, MovePreserves
<1> QED
  BY <1>4, <1>5 DEF Gate

LEMMA AnswersKeep ==
  ASSUME RouterInv, NEW c \in Calls, UserAccepts(c) \/ UserRefuses(c) \/ UserIsGone(c)
  PROVE  RouterInv'
<1>1. log' \in Seq(Entries) /\ UNCHANGED <<mode, registry>>
  BY DEF UserAccepts, UserRefuses, UserIsGone, RouterInv, TypeOK, Entries
<1>2. CASE UserAccepts(c)
  <2>1. /\ pc[c] = "asking" /\ req[c] \in Request /\ mode = "interactive"
        /\ target[c] \in Ids /\ provider[c] = plugins[target[c]] /\ provider[c] # None
    BY <1>2 DEF UserAccepts, RouterInv, CallInv, Holding
  <2>2. /\ TypeOK' /\ OnlyMoves(c) /\ pc'[c] = "approved" /\ asked'[c] = "yes"
        /\ req'[c] = req[c] /\ target'[c] = target[c] /\ provider'[c] = provider[c]
    BY <1>2 DEF UserAccepts, RouterInv, TypeOK, OnlyMoves, registry, PCs, Holding
  <2>3. CallInv(c)'
    BY <2>1, <2>2, RouterAssumption DEF CallInv, Holding, OnlyMoves, registry
  <2> QED
    BY <2>2, <2>3, MovePreserves
<1>3. CASE UserRefuses(c)
  BY <1>1, <1>3, EndPreserves DEF UserRefuses, Ends
<1>4. CASE UserIsGone(c)
  BY <1>1, <1>4, EndPreserves DEF UserIsGone, Ends
<1> QED
  BY <1>2, <1>3, <1>4

LEMMA LogStartKeeps ==
  ASSUME RouterInv, NEW c \in Calls, LogStart(c)
  PROVE  RouterInv'
<1>1. log' \in Seq(Entries)
  <2>1. PICK l \in Appended(log, Entry("check", c)) : log' \in Appended(l, Entry("start", c))
    BY DEF LogStart
  <2>2. log \in Seq(Entries)
    BY DEF RouterInv, TypeOK, Entries
  <2>3. l \in Seq(Entries)
    BY <2>1, <2>2, EntryTyped, AppendedTyped
  <2> QED
    BY <2>1, <2>3, EntryTyped, AppendedTyped
<1>2. CallInv(c)
  BY DEF RouterInv
<1>3. /\ TypeOK' /\ OnlyMoves(c) /\ pc'[c] = "invoking"
      /\ UNCHANGED <<mode, plugins, req, target, provider, asked>>
  BY <1>1 DEF LogStart, RouterInv, TypeOK, OnlyMoves, registry, PCs, Holding, Entries
<1>4. CallInv(c)'
  BY <1>2, <1>3 DEF CallInv, Holding, LogStart
<1> QED
  BY <1>3, <1>4, MovePreserves

LEMMA AnswerKeeps ==
  ASSUME RouterInv, NEW c \in Calls, Answer(c)
  PROVE  RouterInv'
<1>1. CallInv(c)
  BY DEF RouterInv
<1>2. /\ TypeOK' /\ OnlyMoves(c) /\ pc'[c] = "answered"
      /\ UNCHANGED <<mode, plugins, req, target, provider, asked>>
  BY DEF Answer, RouterInv, TypeOK, OnlyMoves, registry, PCs, Holding
<1>3. CallInv(c)'
  BY <1>1, <1>2 DEF CallInv, Holding, Answer
<1> QED
  BY <1>2, <1>3, MovePreserves

LEMMA ReturnsKeep ==
  ASSUME RouterInv, NEW c \in Calls, InvokeFails(c) \/ LogEnd(c)
  PROVE  RouterInv'
<1>1. log \in Seq(Entries)
  BY DEF RouterInv, TypeOK, Entries
<1>2. CASE InvokeFails(c)
  BY <1>1, <1>2, EndPreserves DEF InvokeFails, Ends
<1>3. CASE LogEnd(c)
  <2>1. log' \in Seq(Entries)
    BY <1>1, <1>3, EntryTyped, AppendedTyped DEF LogEnd
  <2> QED
    BY <1>3, <2>1, EndPreserves DEF LogEnd, Ends
<1> QED
  BY <1>2, <1>3

-----------------------------------------------------------------------------
(* The steps of the registry.                                              *)

(* What a dispatch relies on survives every change of the registry in      *)
(* which the plugins it may be using stay where they are.                  *)
LEMMA RegistryKeeps ==
  ASSUME RouterInv, UNCHANGED <<mode, pc, req, target, provider, asked>>,
         \A i \in Ids : plugins[i] # None => plugins'[i] # None,
         Readers # {} => plugins' = plugins
  PROVE  \A c \in Calls : CallInv(c)'
<1> SUFFICES ASSUME NEW c \in Calls PROVE CallInv(c)'
  OBVIOUS
<1>1. CallInv(c)
  BY DEF RouterInv
<1>2. pc[c] \in Holding => plugins' = plugins
  BY DEF Readers
<1> QED
  BY <1>1, <1>2 DEF CallInv

LEMMA RegisterKeeps ==
  ASSUME RouterInv, NEW b \in Boots, Register(b)
  PROVE  RouterInv'
<1>1. IdOf[b] \in Ids /\ IdOf[b] # None /\ b # None
  BY RouterAssumption DEF Ids
<1>2. TypeOK'
  BY <1>1 DEF Register, RouterInv, TypeOK
<1>3. Listed'
  <2> SUFFICES ASSUME NEW x \in Caps, capMap'[x] # None
               PROVE  plugins'[capMap'[x]] # None
                      \/ (booting' # None /\ capMap'[x] = IdOf[booting'])
    BY DEF Listed
  <2>1. booting = None /\ booting' = b /\ plugins' = plugins
        /\ capMap'[x] = (IF x \in Offers[b] THEN IdOf[b] ELSE capMap[x])
    BY DEF Register
  <2> QED
    BY <1>1, <2>1 DEF RouterInv, Listed
<1>4. Entered'
  BY DEF Register, RouterInv, Entered
<1>5. \A c \in Calls : CallInv(c)'
  BY RegistryKeeps DEF Register
<1> QED
  BY <1>2, <1>3, <1>4, <1>5 DEF RouterInv

LEMMA EnterKeeps ==
  ASSUME RouterInv, Enter
  PROVE  RouterInv'
<1> DEFINE old == plugins[IdOf[booting]]
<1>1. /\ booting \in Boots /\ IdOf[booting] \in Ids /\ booting # None
      /\ booting \notin toBoot
  BY RouterAssumption DEF Enter, RouterInv, TypeOK, Ids
<1>2. {old} \ {None} \subseteq Boots \ toBoot
  BY <1>1 DEF RouterInv, TypeOK, Entered
<1>3. TypeOK'
  <2>1. dead' \subseteq Boots \ toBoot
    BY <1>2 DEF Enter, RouterInv, TypeOK
  <2> QED
    BY <1>1, <2>1 DEF Enter, RouterInv, TypeOK
<1>4. \A i \in Ids : plugins'[i] = IF i = IdOf[booting] THEN booting ELSE plugins[i]
  BY <1>1 DEF Enter, RouterInv, TypeOK
<1>5. Listed'
  BY <1>1, <1>4 DEF Enter, RouterInv, Listed, TypeOK
<1>6. Entered'
  BY <1>1, <1>4 DEF Enter, RouterInv, Entered, TypeOK
<1>7. \A c \in Calls : CallInv(c)'
  BY <1>1, <1>4, RegistryKeeps DEF Enter
<1> QED
  BY <1>3, <1>5, <1>6, <1>7 DEF RouterInv

LEMMA DieKeeps ==
  ASSUME RouterInv, NEW b \in Boots, Die(b)
  PROVE  RouterInv'
<1>1. b \notin toBoot
  BY RouterAssumption DEF Die, Registered, RouterInv, Entered, Ids
<1>2. TypeOK'
  BY <1>1 DEF Die, RouterInv, TypeOK
<1>3. Listed' /\ Entered'
  BY DEF Die, RouterInv, Listed, Entered
<1>4. \A c \in Calls : CallInv(c)'
  BY RegistryKeeps DEF Die
<1> QED
  BY <1>2, <1>3, <1>4 DEF RouterInv

-----------------------------------------------------------------------------
LEMMA InitHolds == Init => RouterInv
<1> SUFFICES ASSUME Init PROVE RouterInv
  OBVIOUS
<1>1. TypeOK
  BY InitTyped
<1>2. Listed /\ Entered
  BY RouterAssumption DEF Init, Listed, Entered
<1>3. \A c \in Calls : CallInv(c)
  BY DEF Init, CallInv, Holding
<1> QED
  BY <1>1, <1>2, <1>3 DEF RouterInv

LEMMA StepKeeps == RouterInv /\ [Next]_vars => RouterInv'
<1> SUFFICES ASSUME RouterInv, [Next]_vars PROVE RouterInv'
  OBVIOUS
<1>1. CASE UNCHANGED vars
  BY <1>1 DEF RouterInv, TypeOK, Listed, Entered, CallInv, vars
<1>2. CASE Enter
  BY <1>2, EnterKeeps
<1>3. ASSUME NEW b \in Boots, Register(b) \/ Die(b) PROVE RouterInv'
  BY <1>3, RegisterKeeps, DieKeeps
<1>4. ASSUME NEW c \in Calls, Dispatch(c) \/ Moves(c) PROVE RouterInv'
  BY <1>4, DispatchKeeps, ResolveKeeps, GateKeeps, LogStartKeeps, ReturnsKeep, AnswersKeep
     DEF Moves
<1>5. ASSUME NEW c \in Calls, UserAccepts(c) \/ UserRefuses(c) \/ Answer(c) PROVE RouterInv'
  BY <1>5, AnswersKeep, AnswerKeeps
<1> QED
  BY <1>1, <1>2, <1>3, <1>4, <1>5 DEF Next

(* The inductive invariant holds in every reachable state.                 *)
LEMMA RouterInvHolds == Spec => []RouterInv
  BY InitHolds, StepKeeps, PTL DEF Spec

(* The router's variables keep their types, however registrations, deaths  *)
(* and dispatches interleave.                                              *)
THEOREM RouterTypeCorrect == Spec => []TypeOK
<1>1. RouterInv => TypeOK
  BY DEF RouterInv
<1> QED
  BY <1>1, RouterInvHolds, PTL

(* "Target plugin not found" is unreachable, as capability_map stays       *)
(* locked until the supervisor is in `plugins`; and a dispatch uses the    *)
(* supervisor that is registered, which the read guard on `plugins` keeps  *)
(* from being dropped under the call.                                      *)
THEOREM ProvidersStay == Spec => []ProviderStays
<1>1. RouterInv => ProviderStays
  BY DEF RouterInv, CallInv, ProviderStays, Readers
<1> QED
  BY <1>1, RouterInvHolds, PTL

(* A call the user is asked about goes on only after a yes, and no risky   *)
(* call goes on where nobody can be asked.                                 *)
THEOREM AnswersAreObeyed == Spec => []AnswerIsObeyed
<1>1. RouterInv => AnswerIsObeyed
  BY DEF RouterInv, CallInv, AnswerIsObeyed
<1> QED
  BY <1>1, RouterInvHolds, PTL

-----------------------------------------------------------------------------
(* Calls within calls.  Among any dispatches that have not returned there  *)
(* is one for which none of them was made: no dispatch waits for itself    *)
(* through others.                                                         *)

Nested ==
  \A S \in SUBSET Live : S # {} => \E c \in S : \A d \in S : req[d].parent # c

(* A dispatch is made for one that has begun.                              *)
ParentsBegan == \A d \in Live : req[d].parent \in Calls => pc[req[d].parent] # "idle"

NestInv == Nested /\ ParentsBegan

(* Every step but the beginning of a dispatch: who is live was, for the    *)
(* same call.                                                              *)
Settles ==
  /\ \A c \in Live' : c \in Live /\ req'[c] = req[c]
  /\ \A c \in Calls : pc[c] # "idle" => pc'[c] # "idle"

LEMMA SettlingKeepsNest == NestInv /\ Settles => NestInv'
<1> SUFFICES ASSUME NestInv, Settles PROVE NestInv'
  OBVIOUS
<1>1. Nested'
  <2> SUFFICES ASSUME NEW S \in SUBSET Live', S # {}
               PROVE  \E c \in S : \A d \in S : req'[d].parent # c
    BY DEF Nested
  <2>1. S \in SUBSET Live
    BY DEF Settles
  <2>2. PICK c \in S : \A d \in S : req[d].parent # c
    BY <2>1 DEF NestInv, Nested
  <2> QED
    BY <2>2 DEF Settles
<1>2. ParentsBegan'
  BY DEF NestInv, ParentsBegan, Settles
<1> QED
  BY <1>1, <1>2 DEF NestInv

LEMMA StepsSettle ==
  ASSUME RouterInv, [Next]_vars, ~ \E c \in Calls : Dispatch(c)
  PROVE  Settles
<1>0. pc \in [Calls -> PCs] /\ req \in [Calls -> Request \cup {None}]
  BY DEF RouterInv, TypeOK
<1>1. CASE UNCHANGED vars
  BY <1>1 DEF Settles, Live, vars
<1>2. CASE Enter \/ \E b \in Boots : Register(b) \/ Die(b)
  BY <1>2 DEF Settles, Live, Enter, Register, Die
<1>3. ASSUME NEW c \in Calls, NEW how \in Ends, Finish(c, how) PROVE Settles
  <2>1. pc'[c] = how /\ \A d \in Calls \ {c} : pc'[d] = pc[d] /\ req'[d] = req[d]
    BY <1>0, <1>3 DEF Finish
  <2>2. how # "idle"
    BY DEF Ends
  <2> QED
    BY <2>1, <2>2 DEF Settles, Live
<1>4. ASSUME NEW c \in Calls, pc[c] \notin {"idle"} \cup Ends,
             NEW p, p # "idle", pc' = [pc EXCEPT ![c] = p], req' = req
      PROVE  Settles
  BY <1>0, <1>4 DEF Settles, Live
<1>5. ASSUME NEW c \in Calls, Resolve(c) \/ Gate(c) PROVE Settles
  <2>1. pc[c] \notin {"idle"} \cup Ends
    BY <1>5 DEF Resolve, Gate, Ends
  <2>2. CASE Resolve(c)
    <3>1. CASE Finish(c, "unknown")
      BY <1>3, <3>1 DEF Ends
    <3> QED
      BY <1>4, <2>1, <2>2, <3>1 DEF Resolve
  <2>3. CASE Gate(c)
    <3>1. CASE Verdict(c) \in Ends /\ Finish(c, Verdict(c))
      BY <1>3, <3>1
    <3>2. CASE Verdict(c) \in Holding /\ pc' = [pc EXCEPT ![c] = Verdict(c)] /\ req' = req
      BY <1>4, <2>1, <3>2 DEF Holding
    <3> QED
      BY <2>3, <3>1, <3>2 DEF Gate
  <2> QED
    BY <1>5, <2>2, <2>3
<1>6. ASSUME NEW c \in Calls, UserAccepts(c) \/ LogStart(c) \/ Answer(c) PROVE Settles
  <2>1. pc[c] \notin {"idle"} \cup Ends
    BY <1>6 DEF UserAccepts, LogStart, Answer, Ends
  <2> QED
    BY <1>4, <1>6, <2>1 DEF UserAccepts, LogStart, Answer
<1>7. ASSUME NEW c \in Calls, UserRefuses(c) \/ UserIsGone(c) \/ InvokeFails(c) \/ LogEnd(c)
      PROVE  Settles
  BY <1>3, <1>7 DEF UserRefuses, UserIsGone, InvokeFails, LogEnd, Ends
<1> QED
  BY <1>1, <1>2, <1>5, <1>6, <1>7 DEF Next, Moves

LEMMA DispatchKeepsNest ==
  ASSUME RouterInv, NestInv, NEW c \in Calls, Dispatch(c)
  PROVE  NestInv'
<1>0. pc \in [Calls -> PCs] /\ req \in [Calls -> Request \cup {None}] /\ None \notin Calls
  BY RouterAssumption DEF RouterInv, TypeOK
<1>1. PICK r \in Request :
        /\ req' = [req EXCEPT ![c] = r]
        /\ r.parent = None \/ (r.parent \in Calls \ {c} /\ pc[r.parent] = "invoking")
  BY DEF Dispatch
<1>2. /\ pc[c] = "idle" /\ pc'[c] = "new" /\ req'[c] = r
      /\ \A d \in Calls \ {c} : pc'[d] = pc[d] /\ req'[d] = req[d]
  BY <1>0, <1>1 DEF Dispatch
<1>3. Live' = Live \cup {c} /\ c \notin Live
  BY <1>2 DEF Live, Ends
<1>4. \A d \in Live : req'[d] = req[d] /\ req[d].parent # c
  <2>1. \A d \in Live : d \in Calls \ {c}
    BY <1>3 DEF Live
  <2> QED
    BY <1>2, <2>1 DEF NestInv, ParentsBegan
<1>5. r.parent # c
  BY <1>0, <1>1
<1>6. Nested'
  <2> SUFFICES ASSUME NEW S \in SUBSET Live', S # {}
               PROVE  \E d \in S : \A e \in S : req'[e].parent # d
    BY DEF Nested
  <2>1. CASE c \in S
    BY <1>2, <1>3, <1>4, <1>5, <2>1
  <2>2. CASE c \notin S
    <3>1. S \in SUBSET Live
      BY <1>3, <2>2
    <3>2. PICK d \in S : \A e \in S : req[e].parent # d
      BY <3>1 DEF NestInv, Nested
    <3> QED
      BY <1>4, <3>1, <3>2
  <2> QED
    BY <2>1, <2>2
<1>7. ParentsBegan'
  <2> SUFFICES ASSUME NEW d \in Live', req'[d].parent \in Calls
               PROVE  pc'[req'[d].parent] # "idle"
    BY DEF ParentsBegan
  <2>1. CASE d = c
    BY <1>0, <1>1, <1>2, <2>1
  <2>2. CASE d \in Live
    BY <1>2, <1>4, <2>2 DEF NestInv, ParentsBegan
  <2> QED
    BY <1>3, <2>1, <2>2
<1> QED
  BY <1>6, <1>7 DEF NestInv

LEMMA NestHolds == Spec => []NestInv
<1>1. Init => NestInv
  BY DEF Init, NestInv, Nested, ParentsBegan, Live
<1>2. RouterInv /\ NestInv /\ [Next]_vars => NestInv'
  BY SettlingKeepsNest, StepsSettle, DispatchKeepsNest
<1> QED
  BY <1>1, <1>2, RouterInvHolds, PTL DEF Spec

(* No circular wait but through a registration: of any dispatches that     *)
(* have not returned one can take its next step, however deep calls are    *)
(* nested, since the innermost waits for no other.                         *)
THEOREM SomebodyGoesOn == Spec => []NeverStuck
<1>1. RouterInv /\ NestInv => NeverStuck
  <2> SUFFICES ASSUME RouterInv, NestInv, booting = None, Live # {}
               PROVE  \E c \in Live : CanGoOn(c)
    BY DEF NeverStuck
  <2>1. PICK c \in Live : \A d \in Live : req[d].parent # c
    BY DEF NestInv, Nested
  <2>2. pc[c] \in {"new", "resolved", "asking", "approved", "invoking", "answered"}
    BY DEF Live, RouterInv, TypeOK, PCs, Holding
  <2>3. CanGoOn(c)
    BY <2>1, <2>2 DEF CanGoOn, Returned, MapIsFree, TableIsFree
  <2> QED
    BY <2>3
<1> QED
  BY <1>1, RouterInvHolds, NestHolds, PTL

-----------------------------------------------------------------------------
(* The atomic registry.                                                    *)

(* What a dispatch has in hand, place by place: nothing before it has      *)
(* resolved or after it returned, and no supervisor before it holds        *)
(* `plugins`.                                                              *)
FrameInv(c) ==
  /\ pc[c] \notin {"resolved"} \cup Holding => target[c] = None
  /\ pc[c] \notin Holding => provider[c] = None /\ asked[c] = None

(* A supervisor is in the table under its own id.                          *)
Keyed == \A i \in Ids : plugins[i] # None => IdOf[plugins[i]] = i

RegistryInv == Keyed /\ \A c \in Calls : FrameInv(c)

(* A call whose frame is gone has nothing in hand (Finish).                *)
LEMMA FinishClears ==
  ASSUME RouterInv, RegistryInv, NEW c \in Calls, NEW how \in Ends, Finish(c, how),
         UNCHANGED plugins
  PROVE  RegistryInv'
<1>1. /\ pc'[c] = how /\ target'[c] = None /\ provider'[c] = None /\ asked'[c] = None
      /\ \A d \in Calls \ {c} : /\ pc'[d] = pc[d] /\ target'[d] = target[d]
                                /\ provider'[d] = provider[d] /\ asked'[d] = asked[d]
  BY DEF RouterInv, TypeOK, Finish
<1>2. \A d \in Calls : FrameInv(d)'
  BY <1>1 DEF RegistryInv, FrameInv
<1> QED
  BY <1>2 DEF RegistryInv, Keyed

(* Every other step of a call goes on with what it has in hand.            *)
LEMMA MovingKeepsFrames ==
  ASSUME RouterInv, RegistryInv, NEW c \in Calls, NEW p \in PCs, pc' = [pc EXCEPT ![c] = p],
         \A d \in Calls \ {c} : /\ target'[d] = target[d] /\ provider'[d] = provider[d]
                                /\ asked'[d] = asked[d],
         UNCHANGED plugins, FrameInv(c)'
  PROVE  RegistryInv'
<1>1. \A d \in Calls \ {c} : pc'[d] = pc[d]
  BY DEF RouterInv, TypeOK
<1>2. \A d \in Calls : FrameInv(d)'
  BY <1>1 DEF RegistryInv, FrameInv
<1> QED
  BY <1>2 DEF RegistryInv, Keyed

LEMMA GateKeepsFrames ==
  ASSUME RouterInv, RegistryInv, NEW c \in Calls, Gate(c)
  PROVE  RegistryInv'
<1>1. CASE Verdict(c) \in Ends /\ Finish(c, Verdict(c))
  BY <1>1, FinishClears DEF Gate, registry
<1>2. CASE /\ Verdict(c) \in Holding
           /\ pc' = [pc EXCEPT ![c] = Verdict(c)]
           /\ provider' = [provider EXCEPT ![c] = plugins[target[c]]]
           /\ asked' = [asked EXCEPT ![c] = IF Verdict(c) = "asking" THEN plugins[uiId] ELSE None]
           /\ UNCHANGED <<req, target>>
  <2>1. pc'[c] \in Holding
    BY <1>2 DEF RouterInv, TypeOK
  <2>2. FrameInv(c)'
    BY <2>1 DEF FrameInv
  <2>3. \A d \in Calls \ {c} : /\ target'[d] = target[d] /\ provider'[d] = provider[d]
                               /\ asked'[d] = asked[d]
    BY <1>2 DEF RouterInv, TypeOK
  <2> QED
    BY <1>2, <2>2, <2>3, MovingKeepsFrames DEF Gate, registry, PCs
<1> QED
  BY <1>1, <1>2 DEF Gate

LEMMA StepKeepsFrames == RouterInv /\ RegistryInv /\ [Next]_vars => RegistryInv'
<1> SUFFICES ASSUME RouterInv, RegistryInv, [Next]_vars PROVE RegistryInv'
  OBVIOUS
<1>1. CASE UNCHANGED vars
  BY <1>1 DEF RegistryInv, Keyed, FrameInv, vars
<1>2. CASE Enter
  <2>1. booting \in Boots /\ IdOf[booting] \in Ids
    BY <1>2, RouterAssumption DEF Enter, RouterInv, TypeOK, Ids
  <2>2. \A i \in Ids : plugins'[i] = IF i = IdOf[booting] THEN booting ELSE plugins[i]
    BY <1>2, <2>1 DEF Enter, RouterInv, TypeOK
  <2>3. Keyed'
    BY <2>2 DEF RegistryInv, Keyed
  <2> QED
    BY <1>2, <2>3 DEF Enter, RegistryInv, FrameInv
<1>3. ASSUME NEW b \in Boots, Register(b) \/ Die(b) PROVE RegistryInv'
  BY <1>3 DEF Register, Die, RegistryInv, Keyed, FrameInv
<1>4. ASSUME NEW c \in Calls, Dispatch(c) PROVE RegistryInv'
  <2>1. FrameInv(c)'
    BY <1>4 DEF Dispatch, RegistryInv, FrameInv, Holding
  <2> QED
    BY <1>4, <2>1, MovingKeepsFrames DEF Dispatch, registry, PCs
<1>5. ASSUME NEW c \in Calls, Resolve(c) PROVE RegistryInv'
  <2>1. CASE Finish(c, "unknown")
    BY <1>5, <2>1, FinishClears DEF Resolve, registry, Ends
  <2>2. CASE /\ target' = [target EXCEPT ![c] = capMap[req[c].ask.cap]]
             /\ pc' = [pc EXCEPT ![c] = "resolved"]
             /\ UNCHANGED <<req, provider, asked>>
    <3>1. pc[c] = "new" /\ pc'[c] = "resolved"
          /\ \A d \in Calls \ {c} : target'[d] = target[d]
      BY <1>5, <2>2 DEF Resolve, RouterInv, TypeOK
    <3>2. FrameInv(c)'
      BY <2>2, <3>1 DEF RegistryInv, FrameInv, Holding
    <3> QED
      BY <1>5, <2>2, <3>1, <3>2, MovingKeepsFrames DEF Resolve, registry, PCs
  <2> QED
    BY <1>5, <2>1, <2>2 DEF Resolve
<1>6. ASSUME NEW c \in Calls, UserAccepts(c) \/ LogStart(c) \/ Answer(c) PROVE RegistryInv'
  <2>1. PICK p \in Holding : pc' = [pc EXCEPT ![c] = p]
    BY <1>6 DEF UserAccepts, LogStart, Answer, Holding
  <2>2. FrameInv(c)'
    BY <2>1 DEF RouterInv, TypeOK, FrameInv
  <2>3. \A d \in Calls \ {c} : /\ target'[d] = target[d] /\ provider'[d] = provider[d]
                               /\ asked'[d] = asked[d]
    BY <1>6 DEF UserAccepts, LogStart, Answer, RouterInv, TypeOK
  <2> QED
    BY <1>6, <2>1, <2>2, <2>3, MovingKeepsFrames DEF UserAccepts, LogStart, Answer, registry, PCs
<1>7. ASSUME NEW c \in Calls, UserRefuses(c) \/ UserIsGone(c) \/ InvokeFails(c) \/ LogEnd(c)
      PROVE  RegistryInv'
  BY <1>7, FinishClears DEF UserRefuses, UserIsGone, InvokeFails, LogEnd, registry, Ends
<1> QED
  BY <1>1, <1>2, <1>3, <1>4, <1>5, <1>6, <1>7, GateKeepsFrames DEF Next, Moves

LEMMA RegistryHolds == Spec => []RegistryInv
<1>1. Init => RegistryInv
  BY RouterAssumption DEF Init, RegistryInv, Keyed, FrameInv, Holding
<1> QED
  BY <1>1, StepKeepsFrames, RouterInvHolds, PTL DEF Spec

(* Nothing that the registry shows has changed.                            *)
LEMMA SameView ==
  ASSUME UNCHANGED <<toBoot, booting, capMap, plugins, target, provider, asked>>
  PROVE  UNCHANGED Atomic!vars
BY DEF Atomic!vars, Mounted, Dropped, Registered, Asking

(* Where there is a table entry there is one for the calls.                *)
LEMMA MountedHas ==
  ASSUME RouterInv, NEW i \in Ids, plugins[i] # None
  PROVE  Mounted[i] # None
BY RouterAssumption DEF Mounted, RouterInv, TypeOK

(* An ending is a Return, or a stutter if the call had not resolved.       *)
LEMMA FinishReturns ==
  ASSUME RouterInv, RegistryInv, NEW c \in Calls, NEW how \in Ends, Finish(c, how),
         UNCHANGED registry
  PROVE  Atomic!Return(c) \/ UNCHANGED Atomic!vars
<1>1. /\ target \in [Calls -> Ids \cup {None}] /\ provider \in [Calls -> Boots \cup {None}]
      /\ asked \in [Calls -> Boots \cup {None, "yes"}]
      /\ CallInv(c) /\ FrameInv(c)
  BY DEF RouterInv, TypeOK, RegistryInv
<1>2. CASE pc[c] \in {"resolved"} \cup Holding
  <2>1. target[c] \in Ids /\ plugins[target[c]] # None
    BY <1>1, <1>2 DEF CallInv
  <2>2. target[c] # None /\ Mounted[target[c]] # None
    BY <2>1, MountedHas, RouterAssumption DEF Ids
  <2>3. Asking' = [Asking EXCEPT ![c] = None]
    BY <1>1 DEF Asking, Finish
  <2>4. UNCHANGED <<toBoot, capMap, Mounted, Dropped>>
    BY DEF registry, Mounted, Dropped, Registered
  <2>5. Atomic!Return(c)
    BY <2>2, <2>3, <2>4 DEF Atomic!Return, Finish
  <2> QED
    BY <2>5
<1>3. CASE pc[c] \notin {"resolved"} \cup Holding
  <2>1. target[c] = None /\ provider[c] = None /\ asked[c] = None
    BY <1>1, <1>3 DEF FrameInv
  <2>2. UNCHANGED <<target, provider, asked>>
    BY <1>1, <2>1 DEF Finish
  <2> QED
    BY <2>2, SameView DEF registry
<1> QED
  BY <1>2, <1>3

LEMMA RegisterMounts ==
  ASSUME RouterInv, NEW b \in Boots, Register(b)
  PROVE  Atomic!Mount(b)
<1>1. booting = None /\ booting' = b /\ b # None /\ plugins' = plugins
      /\ b \in toBoot /\ toBoot' = toBoot \ {b}
  BY RouterAssumption DEF Register
<1>2. Mounted' = [Mounted EXCEPT ![IdOf[b]] = b]
  BY <1>1 DEF Mounted
<1>3. Boots \ (toBoot' \cup {booting'}) = Boots \ (toBoot \cup {booting})
  BY <1>1, RouterAssumption
<1>4. Dropped' = Dropped
  BY <1>1, <1>3 DEF Dropped, Registered
<1>5. Asking' = Asking
  BY DEF Register, Asking
<1> QED
  BY <1>2, <1>4, <1>5 DEF Atomic!Mount, Register

(* The supervisor that Enter replaces is in no call's hands: those that    *)
(* hold one are the readers it waited for.                                 *)
LEMMA EnterDrops ==
  ASSUME RouterInv, RegistryInv, Enter
  PROVE  (\E b \in Boots : Atomic!Drop(b)) \/ UNCHANGED Atomic!vars
<1> DEFINE id == IdOf[booting]
           old == plugins[id]
<1>1. booting \in Boots \ toBoot /\ id \in Ids /\ booting # None /\ None \notin Boots
  BY RouterAssumption DEF Enter, RouterInv, TypeOK, Ids
<1>2. plugins \in [Ids -> Boots \cup {None}] /\ plugins' = [plugins EXCEPT ![id] = booting]
      /\ booting' = None /\ toBoot' = toBoot
  BY DEF RouterInv, TypeOK, Enter
<1>3. \A x \in Boots : IdOf[x] \in Ids
  BY DEF Ids
<1>4. Mounted' = Mounted
  BY <1>1, <1>2 DEF Mounted
<1>5. Asking' = Asking /\ UNCHANGED <<capMap, target, provider>>
  BY DEF Enter, Asking
<1>6. Dropped' = {x \in Boots \ toBoot : plugins'[IdOf[x]] # x}
  BY <1>1, <1>2 DEF Dropped, Registered
<1>7. CASE old = None \/ old = booting
  <2>1. \A x \in Boots : x # booting => (plugins'[IdOf[x]] # x <=> plugins[IdOf[x]] # x)
    BY <1>1, <1>2, <1>3, <1>7
  <2>2. plugins'[IdOf[booting]] = booting
    BY <1>1, <1>2
  <2>3. Dropped' = Dropped
    BY <1>1, <1>6, <2>1, <2>2 DEF Dropped, Registered
  <2> QED
    BY <1>2, <1>4, <1>5, <2>3 DEF Atomic!vars
<1>8. CASE old # None /\ old # booting
  <2>1. old \in Boots \ toBoot /\ IdOf[old] = id
    BY <1>1, <1>2, <1>8 DEF RouterInv, Entered, RegistryInv, Keyed
  <2>2. old \notin Dropped
    BY <2>1 DEF Dropped, Registered
  <2>3. \A x \in Boots : x \notin {booting, old} =>
          (plugins'[IdOf[x]] # x <=> plugins[IdOf[x]] # x)
    BY <1>1, <1>2, <1>3
  <2>4. plugins'[IdOf[booting]] = booting /\ plugins'[IdOf[old]] # old
    BY <1>1, <1>2, <1>8, <2>1
  <2>5. Dropped' = Dropped \cup {old}
    BY <1>1, <1>6, <1>8, <2>1, <2>3, <2>4 DEF Dropped, Registered
  <2>6. Mounted[IdOf[old]] # old
    BY <1>1, <1>2, <1>8, <2>1 DEF Mounted
  <2>7. \A c \in Calls : provider[c] = None /\ asked[c] = None
    BY DEF Enter, Readers, RegistryInv, FrameInv
  <2>8. \A c \in Calls : provider[c] # old /\ Asking[c] # old
    BY <1>8, <2>7 DEF Asking
  <2>9. Atomic!Drop(old)
    BY <1>2, <1>4, <1>5, <2>1, <2>2, <2>5, <2>6, <2>8 DEF Atomic!Drop
  <2> QED
    BY <2>1, <2>9
<1> QED
  BY <1>7, <1>8

LEMMA ResolveChooses ==
  ASSUME RouterInv, RegistryInv, NEW c \in Calls, Resolve(c)
  PROVE  \/ \E x \in Caps : Atomic!Choose(c, x)
         \/ Atomic!Return(c)
         \/ UNCHANGED Atomic!vars
<1>1. CASE Finish(c, "unknown")
  BY <1>1, FinishReturns DEF Resolve, Ends
<1>2. CASE /\ capMap[req[c].ask.cap] # None
           /\ target' = [target EXCEPT ![c] = capMap[req[c].ask.cap]]
           /\ pc' = [pc EXCEPT ![c] = "resolved"]
           /\ UNCHANGED <<req, provider, asked>>
  <2>1. pc[c] = "new" /\ req[c] \in Request
    BY DEF Resolve, RouterInv, CallInv
  <2>2. req[c].ask.cap \in Caps
    BY <2>1, RouterAssumption DEF Request
  <2>3. target[c] = None
    BY <2>1 DEF RegistryInv, FrameInv, Holding
  <2>4. UNCHANGED <<toBoot, capMap, Mounted, Dropped, provider, Asking>>
    BY <1>2 DEF Resolve, registry, Mounted, Dropped, Registered, Asking
  <2>5. Atomic!Choose(c, req[c].ask.cap)
    BY <1>2, <2>3, <2>4 DEF Atomic!Choose
  <2> QED
    BY <2>2, <2>5
<1> QED
  BY <1>1, <1>2 DEF Resolve

LEMMA GateTakes ==
  ASSUME RouterInv, RegistryInv, NEW c \in Calls, Gate(c)
  PROVE  Atomic!Take(c) \/ Atomic!Return(c) \/ UNCHANGED Atomic!vars
<1>1. CASE Verdict(c) \in Ends /\ Finish(c, Verdict(c))
  BY <1>1, FinishReturns DEF Gate
<1>2. CASE /\ Verdict(c) \in Holding
           /\ pc' = [pc EXCEPT ![c] = Verdict(c)]
           /\ provider' = [provider EXCEPT ![c] = plugins[target[c]]]
           /\ asked' = [asked EXCEPT ![c] = IF Verdict(c) = "asking" THEN plugins[uiId] ELSE None]
           /\ UNCHANGED <<req, target>>
  <2> DEFINE ui == IF Verdict(c) = "asking" THEN plugins[uiId] ELSE None
  <2>1. /\ target[c] \in Ids /\ target[c] # None /\ plugins[target[c]] # None
        /\ provider[c] = None
    BY RouterAssumption DEF Gate, RouterInv, CallInv, RegistryInv, FrameInv, Holding, Ids
  <2>2. Mounted = plugins /\ plugins \in [Ids -> Boots \cup {None}]
    BY DEF Gate, TableIsFree, Mounted, RouterInv, TypeOK
  <2>3. Verdict(c) = "asking" => uiId \in Ids
    BY <2>1, VerdictTyped DEF RouterInv, TypeOK
  <2>4. ui \in {plugins[i] : i \in Ids} \cup {None} /\ (ui = "yes" => ui = None)
    BY <2>2, <2>3, RouterAssumption
  <2> HIDE DEF ui
  <2>5. asked' = [asked EXCEPT ![c] = ui] /\ asked \in [Calls -> Boots \cup {None, "yes"}]
    BY <1>2 DEF ui, RouterInv, TypeOK
  <2>6. Asking' = [Asking EXCEPT ![c] = ui]
    BY <2>4, <2>5 DEF Asking
  <2>7. UNCHANGED <<toBoot, capMap, Mounted, Dropped, target>>
    BY <1>2 DEF Gate, registry, Mounted, Dropped, Registered
  <2>8. ui \in {Mounted[i] : i \in DOMAIN Mounted} \cup {None}
    BY <2>2, <2>4
  <2>9. Atomic!Take(c)
    BY <1>2, <2>1, <2>2, <2>6, <2>7, <2>8 DEF Atomic!Take
  <2> QED
    BY <2>9
<1> QED
  BY <1>1, <1>2 DEF Gate

LEMMA AcceptTells ==
  ASSUME RouterInv, NEW c \in Calls, UserAccepts(c)
  PROVE  Atomic!Told(c) \/ UNCHANGED Atomic!vars
<1>1. Asking' = [Asking EXCEPT ![c] = None]
  BY DEF UserAccepts, Asking, RouterInv, TypeOK
<1>2. UNCHANGED <<toBoot, capMap, Mounted, Dropped, target, provider>>
  BY DEF UserAccepts, registry, Mounted, Dropped, Registered
<1>3. Asking[c] = None => Asking' = Asking
  BY <1>1 DEF Asking
<1> QED
  BY <1>1, <1>2, <1>3 DEF Atomic!Told, Atomic!vars

LEMMA StepImplements ==
  RouterInv /\ RegistryInv /\ [Next]_vars => [Atomic!Next]_(Atomic!vars)
<1> SUFFICES ASSUME RouterInv, RegistryInv, [Next]_vars
             PROVE  Atomic!Next \/ UNCHANGED Atomic!vars
  OBVIOUS
<1>1. CASE UNCHANGED vars
  BY <1>1, SameView DEF vars
<1>2. CASE Enter
  BY <1>2, EnterDrops DEF Atomic!Next
<1>3. ASSUME NEW b \in Boots, Register(b) PROVE Atomic!Next
  BY <1>3, RegisterMounts DEF Atomic!Next
<1>4. ASSUME NEW b \in Boots, Die(b) PROVE UNCHANGED Atomic!vars
  BY <1>4, SameView DEF Die
<1>5. ASSUME NEW c \in Calls, Dispatch(c) \/ LogStart(c) \/ Answer(c)
      PROVE  UNCHANGED Atomic!vars
  BY <1>5, SameView DEF Dispatch, LogStart, Answer, registry
<1>6. ASSUME NEW c \in Calls, Resolve(c) \/ Gate(c) \/ UserAccepts(c)
      PROVE  Atomic!Next \/ UNCHANGED Atomic!vars
  BY <1>6, ResolveChooses, GateTakes, AcceptTells DEF Atomic!Next
<1>7. ASSUME NEW c \in Calls, UserRefuses(c) \/ UserIsGone(c) \/ InvokeFails(c) \/ LogEnd(c)
      PROVE  Atomic!Next \/ UNCHANGED Atomic!vars
  <2>1. Atomic!Return(c) \/ UNCHANGED Atomic!vars
    BY <1>7, FinishReturns DEF UserRefuses, UserIsGone, InvokeFails, LogEnd, Ends
  <2> QED
    BY <2>1 DEF Atomic!Next
<1> QED
  BY <1>1, <1>2, <1>3, <1>4, <1>5, <1>6, <1>7 DEF Next, Moves

(* register_plugin is atomic to the calls, and what it drops is in no      *)
(* call's hands: every step of the router is one of Registry's, or changes *)
(* nothing that Registry shows.                                            *)
THEOREM RegisteringIsAtomic == Spec => ImplementsRegistry
<1>1. Init => Atomic!Init
  BY RouterAssumption DEF Init, Atomic!Init, Mounted, Dropped, Asking, Ids
<1> QED
  BY <1>1, RouterInvHolds, RegistryHolds, StepImplements, PTL
     DEF Spec, ImplementsRegistry, Atomic!Spec

-----------------------------------------------------------------------------
(* The log, where appends succeed: what each dispatch has written by the   *)
(* place it is at.                                                         *)

Positions(l, e) == {i \in 1 .. Len(l) : l[i] = e}

AheadInv(c) ==
  /\ pc[c] \notin {"invoking", "answered", "ok", "error"} => At("start", c) = {}
  /\ pc[c] \in {"invoking", "answered", "ok"} => \E i : At("start", c) = {i}
  /\ (pc[c] = "ok") <=> (At("end", c) # {})
  /\ \A i \in At("start", c) : i - 1 \in At("check", c)
  /\ \A i \in At("end", c) : \E j \in At("start", c) : j < i

LogInv == \A c \in Calls : AheadInv(c)

LEMMA AppendPositions ==
  ASSUME NEW l \in Seq(Entries), NEW e \in Entries, NEW f \in Entries
  PROVE  Positions(Append(l, e), f) =
           Positions(l, f) \cup (IF e = f THEN {Len(l) + 1} ELSE {})
<1>1. Len(Append(l, e)) = Len(l) + 1 /\ Len(l) \in Nat
  OBVIOUS
<1>2. \A i \in 1 .. Len(l) + 1 : Append(l, e)[i] = IF i = Len(l) + 1 THEN e ELSE l[i]
  OBVIOUS
<1> QED
  BY <1>1, <1>2 DEF Positions

LEMMA AtIsPositions ==
  ASSUME NEW c \in Calls, NEW event
  PROVE  At(event, c) = Positions(log, Entry(event, c))
         /\ At(event, c)' = Positions(log', Entry(event, c))
BY DEF At, Positions, Entry

(* A step that writes nothing moves a dispatch between places of which the *)
(* log says the same.                                                      *)
Quiet ==
  /\ log' = log
  /\ \A c \in Calls :
       \/ pc'[c] = pc[c]
       \/ /\ pc[c] \in {"idle", "new", "resolved", "asking"}
          /\ pc'[c] \notin {"invoking", "answered", "ok"}
       \/ pc[c] = "invoking" /\ pc'[c] \in {"answered", "error"}

LEMMA QuietKeepsLog == LogInv /\ Quiet => LogInv'
<1> SUFFICES ASSUME LogInv, Quiet, NEW c \in Calls PROVE AheadInv(c)'
  BY DEF LogInv
<1>1. At("start", c)' = At("start", c) /\ At("end", c)' = At("end", c)
      /\ At("check", c)' = At("check", c)
  BY DEF Quiet, At, Entry
<1>2. AheadInv(c)
  BY DEF LogInv
<1> QED
  BY <1>1, <1>2 DEF AheadInv, Quiet

LEMMA StepsAreQuiet ==
  ASSUME RouterInv, [Next]_vars, ~ \E c \in Calls : LogStart(c) \/ LogEnd(c)
  PROVE  Quiet
<1>0. pc \in [Calls -> PCs]
  BY DEF RouterInv, TypeOK
<1>1. CASE UNCHANGED vars
  BY <1>1 DEF Quiet, vars
<1>2. CASE Enter \/ \E b \in Boots : Register(b) \/ Die(b)
  BY <1>2 DEF Quiet, Enter, Register, Die
<1>3. ASSUME NEW c \in Calls, Dispatch(c) \/ Resolve(c) \/ Gate(c) PROVE Quiet
  BY <1>0, <1>3 DEF Quiet, Dispatch, Resolve, Gate, Finish, Holding, Ends, Verdict
<1>4. ASSUME NEW c \in Calls, UserAccepts(c) \/ UserRefuses(c) \/ UserIsGone(c) PROVE Quiet
  BY <1>0, <1>4 DEF Quiet, UserAccepts, UserRefuses, UserIsGone, Finish
<1>5. ASSUME NEW c \in Calls, Answer(c) \/ InvokeFails(c) PROVE Quiet
  BY <1>0, <1>5 DEF Quiet, Answer, InvokeFails, Finish
<1> QED
  BY <1>1, <1>2, <1>3, <1>4, <1>5 DEF Next, Moves

LEMMA StartKeepsLog ==
  ASSUME ~WalFails, RouterInv, LogInv, NEW c \in Calls, LogStart(c)
  PROVE  LogInv'
<1> DEFINE check == Entry("check", c)
           start == Entry("start", c)
<1>1. log \in Seq(Entries) /\ check \in Entries /\ start \in Entries
  BY EntryTyped DEF RouterInv, TypeOK, Entries
<1>2. log' = Append(Append(log, check), start)
  BY DEF LogStart, Appended
<1>3. Append(log, check) \in Seq(Entries) /\ Len(Append(log, check)) = Len(log) + 1
      /\ Len(log) \in Nat
  BY <1>1
<1>4. ASSUME NEW d \in Calls, NEW event \in {"check", "start", "end"}
      PROVE  At(event, d)' = At(event, d)
               \cup (IF check = Entry(event, d) THEN {Len(log) + 1} ELSE {})
               \cup (IF start = Entry(event, d) THEN {Len(log) + 2} ELSE {})
  <2>1. Entry(event, d) \in Entries
    BY EntryTyped
  <2>2. Positions(Append(log, check), Entry(event, d)) =
          Positions(log, Entry(event, d))
            \cup (IF check = Entry(event, d) THEN {Len(log) + 1} ELSE {})
    BY <1>1, <2>1, AppendPositions
  <2>3. Positions(log', Entry(event, d)) =
          Positions(Append(log, check), Entry(event, d))
            \cup (IF start = Entry(event, d) THEN {Len(Append(log, check)) + 1} ELSE {})
    <3> DEFINE l == Append(log, check)
    <3>1. l \in Seq(Entries) /\ log' = Append(l, start)
      BY <1>2, <1>3
    <3> HIDE DEF l, start
    <3>2. Positions(Append(l, start), Entry(event, d)) =
            Positions(l, Entry(event, d))
              \cup (IF start = Entry(event, d) THEN {Len(l) + 1} ELSE {})
      BY <1>1, <2>1, <3>1, AppendPositions
    <3> QED
      BY <3>1, <3>2 DEF l
  <2>4. Len(Append(log, check)) + 1 = Len(log) + 2
    BY <1>3
  <2> QED
    BY <2>2, <2>3, <2>4, AtIsPositions
<1>5. pc \in [Calls -> PCs] /\ pc[c] = "approved" /\ pc' = [pc EXCEPT ![c] = "invoking"]
  BY DEF RouterInv, TypeOK, LogStart
<1> SUFFICES ASSUME NEW d \in Calls PROVE AheadInv(d)'
  BY DEF LogInv
<1>6. AheadInv(d)
  BY DEF LogInv
<1>7. CASE d # c
  <2>1. At("check", d)' = At("check", d) /\ At("start", d)' = At("start", d)
        /\ At("end", d)' = At("end", d)
    <3>1. \A event \in {"check", "start", "end"} :
            check # Entry(event, d) /\ start # Entry(event, d)
      BY <1>7 DEF Entry
    <3> HIDE DEF check, start
    <3>2. At("check", d)' = At("check", d)
      BY <1>4, <3>1, ZenonT(30)
    <3>3. At("start", d)' = At("start", d)
      BY <1>4, <3>1, ZenonT(30)
    <3>4. At("end", d)' = At("end", d)
      BY <1>4, <3>1, ZenonT(30)
    <3> QED
      BY <3>2, <3>3, <3>4
  <2> QED
    BY <1>5, <1>6, <1>7, <2>1 DEF AheadInv
<1>8. CASE d = c
  <2>1. /\ At("check", c)' = At("check", c) \cup {Len(log) + 1}
        /\ At("start", c)' = At("start", c) \cup {Len(log) + 2}
        /\ At("end", c)' = At("end", c)
    BY <1>4, ZenonT(30) DEF Entry
  <2>2. At("start", c) = {} /\ At("end", c) = {}
    BY <1>5, <1>6, <1>8 DEF AheadInv
  <2>3. pc'[c] = "invoking"
    BY <1>5
  <2>4. (Len(log) + 2) - 1 = Len(log) + 1
    BY <1>3
  <2> HIDE DEF check, start
  <2> QED
    BY <1>8, <2>1, <2>2, <2>3, <2>4 DEF AheadInv
<1> QED
  BY <1>7, <1>8

LEMMA EndKeepsLog ==
  ASSUME ~WalFails, RouterInv, LogInv, NEW c \in Calls, LogEnd(c)
  PROVE  LogInv'
<1> DEFINE end == Entry("end", c)
<1>1. log \in Seq(Entries) /\ end \in Entries /\ Len(log) \in Nat
  BY EntryTyped DEF RouterInv, TypeOK, Entries
<1>2. log' = Append(log, end)
  BY DEF LogEnd, Appended
<1>3. ASSUME NEW d \in Calls, NEW event \in {"check", "start", "end"}
      PROVE  At(event, d)' = At(event, d)
               \cup (IF end = Entry(event, d) THEN {Len(log) + 1} ELSE {})
  BY <1>1, <1>2, EntryTyped, AppendPositions, AtIsPositions
<1>4. pc \in [Calls -> PCs] /\ pc[c] = "answered" /\ pc' = [pc EXCEPT ![c] = "ok"]
  BY DEF RouterInv, TypeOK, LogEnd, Finish
<1> SUFFICES ASSUME NEW d \in Calls PROVE AheadInv(d)'
  BY DEF LogInv
<1>5. AheadInv(d)
  BY DEF LogInv
<1>6. CASE d # c
  <2>1. At("check", d)' = At("check", d) /\ At("start", d)' = At("start", d)
        /\ At("end", d)' = At("end", d)
    BY <1>3, <1>6, ZenonT(30) DEF Entry
  <2> QED
    BY <1>4, <1>5, <1>6, <2>1 DEF AheadInv
<1>7. CASE d = c
  <2>1. /\ At("check", c)' = At("check", c)
        /\ At("start", c)' = At("start", c)
        /\ At("end", c)' = At("end", c) \cup {Len(log) + 1}
    BY <1>3 DEF Entry
  <2>2. At("end", c) = {} /\ \E i : At("start", c) = {i}
    BY <1>4, <1>5, <1>7 DEF AheadInv
  <2>3. \A j \in At("start", c) : j < Len(log) + 1
    BY <1>1 DEF At
  <2>4. pc'[c] = "ok"
    BY <1>4
  <2>5. \A i \in At("end", c)' : \E j \in At("start", c)' : j < i
    BY <2>1, <2>2, <2>3
  <2>6. \E i : At("start", c)' = {i}
    BY <2>1, <2>2
  <2>7. At("end", c)' # {}
    BY <2>1
  <2>8. \A i \in At("start", c)' : i - 1 \in At("check", c)'
    BY <1>5, <1>7, <2>1 DEF AheadInv
  <2> QED
    BY <1>7, <2>4, <2>5, <2>6, <2>7, <2>8 DEF AheadInv
<1> QED
  BY <1>6, <1>7

LEMMA AheadImplies == LogInv => WriteAhead
<1> SUFFICES ASSUME LogInv, NEW c \in Calls
             PROVE  /\ pc[c] \in {"invoking", "answered", "ok"} =>
                         Cardinality(At("start", c)) = 1
                    /\ \A i \in At("start", c) : i - 1 \in At("check", c)
                    /\ \A i \in At("end", c) : \E j \in At("start", c) : j < i
                    /\ At("start", c) # {} /\ At("end", c) = {} =>
                         pc[c] \in {"invoking", "answered", "error"}
  BY DEF WriteAhead
<1>1. AheadInv(c)
  BY DEF LogInv
<1>2. \A i : Cardinality({i}) = 1
  BY FS_Singleton
<1> QED
  BY <1>1, <1>2 DEF AheadInv

(* Where appends succeed: a request is with its provider only after its    *)
(* start is logged, once, right behind its check, and a start without an   *)
(* end is a call in flight or one that failed, for any number of calls,    *)
(* nested or not.                                                          *)
THEOREM LogIsWrittenAhead == ASSUME ~WalFails PROVE Spec => []WriteAhead
<1>1. Init => LogInv
  <2> SUFFICES ASSUME Init, NEW c \in Calls PROVE AheadInv(c)
    BY DEF LogInv
  <2>1. pc[c] = "idle" /\ \A event : At(event, c) = {}
    BY DEF Init, At
  <2> QED
    BY <2>1 DEF AheadInv
<1>2. RouterInv /\ LogInv /\ [Next]_vars => LogInv'
  BY StepsAreQuiet, QuietKeepsLog, StartKeepsLog, EndKeepsLog
<1> QED
  BY <1>1, <1>2, RouterInvHolds, AheadImplies, PTL DEF Spec

=============================================================================
