---------------------------- MODULE SessionProofs ----------------------------
(***************************************************************************)
(* Proofs about Session and Vault, for any `chassis secret` commands, any  *)
(* manifests, any events and any capacity of the channel.                  *)
(***************************************************************************)
EXTENDS Session, SequenceTheorems, FiniteSetTheorems, TLAPS

Contents == [Keys -> Values \cup {NoValue, Garbage}]

VaultTypes ==
  /\ ask \in [Commands -> [op : Ops, key : Keys, value : Values, pass : Passphrases]]
  /\ cpc \in [Commands -> {"idle", "loaded", "writing", "done", "failed"}]
  /\ memory \in [Commands -> Contents]
  /\ file.secrets \in Contents
  /\ expected \in Contents

LEMMA BlankTyped == Empty \in Contents /\ Garbled \in Contents
BY DEF Empty, Garbled, Contents

LEMMA ChangeTyped ==
  ASSUME VaultTypes, NEW c \in Commands, NEW secrets \in Contents
  PROVE  /\ Change(c, secrets) \in Contents
         /\ \A k \in Keys : Change(c, secrets)[k] =
              IF k # ask[c].key THEN secrets[k]
              ELSE IF ask[c].op = "set" THEN ask[c].value ELSE NoValue
BY DEF VaultTypes, Change, Contents

(* The steps of the vault, and of the session.                             *)
LEMMA VaultSteps ==
  ASSUME [Next]_vars
  PROVE  (\E c \in Commands : Command(c) /\ UNCHANGED kernelVars) \/ UNCHANGED vaultVars
BY DEF Next, KernelStep, UiStep, vars, Unlock, Open, Take, Launch, LaunchFails, Register,
       RecordBoot, Booted, Ask, Answered, Note, Finish, PostGoal, GoalEnds, Subscribe, Stream,
       Disconnect, Killed, PluginEnds

LEMMA VaultTypesKept == VaultTypes /\ [Next]_vars => VaultTypes'
<1> SUFFICES ASSUME VaultTypes, [Next]_vars PROVE VaultTypes'
  OBVIOUS
<1>1. CASE UNCHANGED vaultVars
  BY <1>1 DEF vaultVars, VaultTypes
<1>2. ASSUME NEW c \in Commands, Command(c) PROVE VaultTypes'
  <2>1. CASE Load(c)
    BY <2>1 DEF Load, LoadFails, VaultTypes
  <2>2. CASE NothingToSave(c)
    BY <2>2 DEF NothingToSave, VaultTypes
  <2>3. CASE Truncate(c)
    <3>1. Change(c, memory[c]) \in Contents
      BY ChangeTyped DEF VaultTypes
    <3> QED
      BY <2>3, <3>1, BlankTyped DEF Truncate, File, VaultTypes
  <2>4. CASE Write(c)
    <3>1. Change(c, expected) \in Contents /\ memory[c] \in Contents
      BY ChangeTyped DEF VaultTypes
    <3> QED
      BY <2>4, <3>1, BlankTyped DEF Write, File, VaultTypes
  <2>5. CASE Breaks(c)
    BY <2>5, BlankTyped DEF Breaks, File, VaultTypes
  <2> QED
    BY <1>2, <2>1, <2>2, <2>3, <2>4, <2>5 DEF Command
<1> QED
  BY <1>1, <1>2, VaultSteps

LEMMA VaultTyped == Spec => []VaultTypes
<1>1. Init => VaultTypes
  <2> SUFFICES ASSUME Init PROVE VaultTypes
    OBVIOUS
  <2>1. ask \in [Commands -> [op : Ops, key : Keys, value : Values, pass : Passphrases]]
    BY VaultAssumption DEF Init, VaultInit
  <2> QED
    BY <2>1, BlankTyped DEF Init, VaultInit, File, VaultTypes
<1> QED
  BY <1>1, VaultTypesKept, PTL DEF Spec

-----------------------------------------------------------------------------
(* No secret is lost.                                                      *)

(* Undisturbed, one command at most is between its load and the end of its *)
(* save; what it has in memory is what was stored before, with its change. *)
Alone ==
  /\ \A c, d \in Commands : Active(c) /\ Active(d) => c = d
  /\ \A c \in Commands :
       /\ cpc[c] = "loaded" => memory[c] = expected
       /\ cpc[c] = "writing" => memory[c] = Change(c, expected) /\ file.state = "empty"
  /\ (\A c \in Commands : cpc[c] # "writing") =>
       file.secrets = expected /\ file.state \in {"absent", "whole"}

VaultInv == ~disturbed => Alone

LEMMA VaultInvKept == VaultTypes /\ VaultInv /\ [Next]_vars => VaultInv'
<1> SUFFICES ASSUME VaultTypes, VaultInv, [Next]_vars, ~disturbed' PROVE Alone'
  BY DEF VaultInv
<1>1. CASE UNCHANGED vaultVars
  BY <1>1 DEF vaultVars, VaultInv, Alone, Active, Change
<1>2. ASSUME NEW c \in Commands, Command(c) PROVE Alone'
  <2>0. /\ cpc \in [Commands -> {"idle", "loaded", "writing", "done", "failed"}]
        /\ memory \in [Commands -> Contents]
    BY DEF VaultTypes
  <2>1. CASE Load(c)
    <3>1. /\ Alone /\ (\A d \in Commands : ~Active(d)) /\ UNCHANGED <<ask, file, expected>>
          /\ \/ cpc' = [cpc EXCEPT ![c] = "loaded"] /\ memory'[c] = file.secrets
             \/ cpc' = [cpc EXCEPT ![c] = "failed"]
          /\ \A d \in Commands \ {c} : memory'[d] = memory[d]
      BY <2>0, <2>1 DEF Load, LoadFails, VaultInv
    <3>2. \A d \in Commands : cpc[d] \notin {"loaded", "writing"}
      BY <3>1 DEF Active
    <3>3. file.secrets = expected /\ file.state \in {"absent", "whole"}
      BY <3>1, <3>2 DEF Alone
    <3>4. \A d \in Commands : /\ cpc'[d] # "writing"
                              /\ cpc'[d] = "loaded" => d = c /\ memory'[d] = expected
      BY <2>0, <3>1, <3>2, <3>3
    <3>5. \A d \in Commands : Active(d)' => d = c
      BY <3>4 DEF Active
    <3> QED
      BY <3>1, <3>3, <3>4, <3>5 DEF Alone
  <2>2. CASE NothingToSave(c)
    BY <2>0, <2>2 DEF NothingToSave, VaultInv, Alone, Active, Change
  <2>3. CASE Truncate(c)
    <3>1. /\ Alone /\ Active(c) /\ memory'[c] = Change(c, expected)
          /\ file'.state = "empty" /\ UNCHANGED <<ask, expected>>
          /\ cpc' = [cpc EXCEPT ![c] = "writing"]
          /\ \A d \in Commands \ {c} : memory'[d] = memory[d]
      BY <2>0, <2>3 DEF Truncate, File, VaultInv, Alone, Active
    <3>2. \A d \in Commands \ {c} : ~Active(d)
      BY <3>1 DEF Alone
    <3> QED
      BY <2>0, <3>1, <3>2 DEF Alone, Active, Change
  <2>4. CASE Write(c)
    <3>1. /\ Alone /\ Active(c) /\ cpc[c] = "writing" /\ file.state = "empty"
          /\ memory[c] = Change(c, expected)
      BY <2>4 DEF Write, VaultInv, Alone, Active
    <3>2. \A d \in Commands \ {c} : ~Active(d)
      BY <3>1 DEF Alone
    <3>3. /\ file'.secrets = expected' /\ file'.state = "whole"
          /\ cpc' = [cpc EXCEPT ![c] = "done"]
      BY <2>4, <3>1 DEF Write, File
    <3> QED
      BY <2>0, <3>2, <3>3 DEF Alone, Active
  <2>5. CASE Breaks(c)
    <3>1. /\ Alone /\ cpc[c] = "loaded" /\ cpc' = [cpc EXCEPT ![c] = "failed"]
          /\ UNCHANGED <<file, ask, memory, expected>>
      BY <2>5 DEF Breaks, VaultInv, Active
    <3> QED
      BY <2>0, <3>1 DEF Alone, Active, Change
  <2> QED
    BY <1>2, <2>1, <2>2, <2>3, <2>4, <2>5 DEF Command
<1> QED
  BY <1>1, <1>2, VaultSteps

(* What `chassis secret` commands stored one after another is what the     *)
(* vault holds, for any number of commands, keys and passphrases, those    *)
(* that could not open it and those that died before the save included     *)
(* (cmd_secret, load_from_file, save_to_file).                             *)
THEOREM VaultLosesNothing == Spec => []NoSecretIsLost
<1>1. Init => VaultInv
  BY DEF Init, VaultInit, File, VaultInv, Alone, Active
<1>2. VaultInv => NoSecretIsLost
  BY DEF VaultInv, Alone, NoSecretIsLost
<1> QED
  BY <1>1, <1>2, VaultInvKept, VaultTyped, PTL DEF Spec

-----------------------------------------------------------------------------
(* Where a plugin's secret comes from.                                     *)

(* What the commands past their load were asked to set.                    *)
Setters == {c \in Commands : ask[c].op = "set" /\ cpc[c] \notin {"idle", "loaded"}}
WasSet == {<<ask[c].key, ask[c].value>> : c \in Setters}

Honest(secrets, set) == \A k \in Keys : secrets[k] = NoValue \/ <<k, secrets[k]>> \in set

(* The file, where it opens, and what is loaded from it, by commands and   *)
(* by the session, hold nothing else.                                      *)
SecretsInv ==
  /\ file.state \in {"absent", "whole"} => Honest(file.secrets, WasSet)
  /\ \A c \in Commands : Active(c) => Honest(memory[c], WasSet)
  /\ \A secrets \in unlocked : Honest(secrets, WasSet)
  /\ env = [m \in Manifests |-> env[m]]
  /\ \A m \in Manifests : env[m] \in {NoValue, Reference} \/ <<SecretOf[m], env[m]>> \in WasSet

(* What was set stays set: the steps of the vault only move commands on.   *)
LEMMA SetStays ==
  ASSUME VaultTypes, [Next]_vars
  PROVE  WasSet \subseteq WasSet'
<1>1. CASE UNCHANGED vaultVars
  BY <1>1 DEF vaultVars, WasSet, Setters
<1>2. ASSUME NEW c \in Commands, Command(c)
      PROVE  WasSet \subseteq WasSet'
  <2>1. /\ ask' = ask
        /\ \A d \in Commands : cpc[d] \notin {"idle", "loaded"} => cpc'[d] \notin {"idle", "loaded"}
    BY <1>2 DEF VaultTypes, Command, Load, LoadFails, NothingToSave, Truncate, Write, Breaks, Active
  <2> QED
    BY <2>1 DEF WasSet, Setters
<1> QED
  BY <1>1, <1>2, VaultSteps

LEMMA CommandsAreHonest ==
  ASSUME VaultTypes, SecretsInv, WasSet \subseteq WasSet', NEW c \in Commands, Command(c)
  PROVE  /\ file'.state \in {"absent", "whole"} => Honest(file'.secrets, WasSet')
         /\ \A d \in Commands : Active(d)' => Honest(memory'[d], WasSet')
<1>0. /\ cpc \in [Commands -> {"idle", "loaded", "writing", "done", "failed"}]
      /\ memory \in [Commands -> Contents]
  BY DEF VaultTypes
<1>1. /\ file.state \in {"absent", "whole"} => Honest(file.secrets, WasSet')
      /\ \A d \in Commands : Active(d) => Honest(memory[d], WasSet')
  BY DEF SecretsInv, Honest
<1>2. CASE Load(c)
  BY <1>0, <1>1, <1>2 DEF Load, LoadFails, Opens, Active
<1>3. CASE NothingToSave(c)
  BY <1>0, <1>1, <1>3 DEF NothingToSave, Active
<1>4. CASE Truncate(c)
  <2>1. /\ Active(c) /\ memory'[c] = Change(c, memory[c]) /\ file'.state = "empty"
        /\ \A d \in Commands \ {c} : memory'[d] = memory[d] /\ cpc'[d] = cpc[d]
        /\ cpc'[c] = "writing" /\ ask' = ask
    BY <1>0, <1>4 DEF Truncate, File, Active
  <2>2. ASSUME NEW k \in Keys
        PROVE  memory'[c][k] = NoValue \/ <<k, memory'[c][k]>> \in WasSet'
    <3>1. memory'[c][k] = IF k # ask[c].key THEN memory[c][k]
                          ELSE IF ask[c].op = "set" THEN ask[c].value ELSE NoValue
      BY <1>0, <2>1, ChangeTyped
    <3>2. CASE k # ask[c].key
      BY <1>1, <2>1, <3>1, <3>2 DEF Honest
    <3>3. CASE k = ask[c].key /\ ask[c].op = "set"
      <4>1. c \in Setters'
        BY <2>1, <3>3 DEF Setters
      <4> QED
        BY <2>1, <3>1, <3>3, <4>1 DEF WasSet
    <3> QED
      BY <3>1, <3>2, <3>3
  <2>3. Honest(memory'[c], WasSet')
    BY <2>2 DEF Honest
  <2> QED
    BY <1>1, <2>1, <2>3 DEF Active
<1>5. CASE Write(c)
  <2>1. /\ Active(c) /\ UNCHANGED memory
        /\ \A d \in Commands : cpc'[d] \in {"loaded", "writing"} => cpc[d] = cpc'[d]
        /\ file'.state \in {"absent", "whole"} => file'.secrets = memory[c]
    BY <1>0, <1>5 DEF Write, File, Active
  <2> QED
    BY <1>1, <2>1 DEF Active
<1>6. CASE Breaks(c)
  <2>1. /\ UNCHANGED memory
        /\ \A d \in Commands : cpc'[d] \in {"loaded", "writing"} => cpc[d] = cpc'[d]
        /\ file' = file \/ file'.state = "garbled"
    BY <1>0, <1>6 DEF Breaks, File
  <2> QED
    BY <1>1, <2>1 DEF Active
<1> QED
  BY <1>2, <1>3, <1>4, <1>5, <1>6 DEF Command

(* The session: what it unlocks it has from the file, and what it gives a  *)
(* plugin from that.                                                       *)
LEMMA SessionIsHonest ==
  ASSUME SecretsInv, UNCHANGED vaultVars, [Next]_vars
  PROVE  /\ \A secrets \in unlocked' : Honest(secrets, WasSet)
         /\ env' = [m \in Manifests |-> env'[m]]
         /\ \A m \in Manifests :
              env'[m] \in {NoValue, Reference} \/ <<SecretOf[m], env'[m]>> \in WasSet
<1>1. CASE Unlock
  BY <1>1 DEF Unlock, Opens, SecretsInv
<1>2. CASE Launch
  <2>1. /\ env' = [env EXCEPT ![current] = Resolve(current)]
        /\ UNCHANGED unlocked
    BY <1>2 DEF Launch
  <2>2. ASSUME current \in Manifests
        PROVE  \/ Resolve(current) \in {NoValue, Reference}
               \/ <<SecretOf[current], Resolve(current)>> \in WasSet
    <3>1. SecretOf[current] \in Keys
      BY <2>2, SessionAssumption
    <3>2. CASE Resolve(current) = Reference
      BY <3>2
    <3>3. CASE /\ unlocked # {}
               /\ Resolve(current) = (CHOOSE secrets \in unlocked : TRUE)[SecretOf[current]]
      <4>1. (CHOOSE secrets \in unlocked : TRUE) \in unlocked
        BY <3>3
      <4> QED
        BY <3>1, <3>3, <4>1 DEF SecretsInv, Honest
    <3> QED
      BY <3>2, <3>3 DEF Resolve
  <2> QED
    BY <2>1, <2>2 DEF SecretsInv
<1>3. CASE UNCHANGED <<unlocked, env>>
  BY <1>3 DEF SecretsInv
<1>4. Unlock \/ Launch \/ UNCHANGED <<unlocked, env>>
  BY DEF Next, KernelStep, UiStep, vars, kernelVars, uiVars, bootVars, Open, Take, LaunchFails,
         Register, RecordBoot, Booted, Ask, Answered, Note, Finish, PostGoal, GoalEnds,
         Subscribe, Stream, Disconnect, Killed, PluginEnds
<1> QED
  BY <1>1, <1>2, <1>3, <1>4

(* A plugin's secret is one that a command was asked to set under its key, *)
(* or the reference to it, for any number of commands that overlap, die in *)
(* the middle of a save or come with another passphrase (resolve_secrets,  *)
(* load_from_file).                                                        *)
THEOREM SecretsAreHonest == Spec => []SecretIsOneThatWasSet
<1>1. Init => SecretsInv
  <2> SUFFICES ASSUME Init PROVE SecretsInv
    OBVIOUS
  <2>1. Honest(Empty, WasSet)
    BY DEF Honest, Empty
  <2> QED
    BY <2>1 DEF Init, VaultInit, File, SecretsInv, Active
<1>2. VaultTypes /\ SecretsInv /\ [Next]_vars => SecretsInv'
  <2> SUFFICES ASSUME VaultTypes, SecretsInv, [Next]_vars PROVE SecretsInv'
    OBVIOUS
  <2>0. WasSet \subseteq WasSet'
    BY SetStays
  <2>1. ASSUME NEW c \in Commands, Command(c), UNCHANGED kernelVars PROVE SecretsInv'
    <3>1. UNCHANGED <<unlocked, env>>
      BY <2>1 DEF kernelVars
    <3> QED
      BY <2>0, <2>1, <3>1, CommandsAreHonest DEF SecretsInv, Honest
  <2>2. CASE UNCHANGED vaultVars
    <3>1. WasSet' = WasSet /\ \A c \in Commands : Active(c)' <=> Active(c)
      BY <2>2 DEF vaultVars, WasSet, Setters, Active
    <3>2. UNCHANGED <<file, memory>>
      BY <2>2 DEF vaultVars
    <3> QED
      BY <2>2, <3>1, <3>2, SessionIsHonest DEF SecretsInv
  <2> QED
    BY <2>1, <2>2, VaultSteps
<1>3. SecretsInv => SecretIsOneThatWasSet
  BY DEF SecretsInv, WasSet, Setters, SecretIsOneThatWasSet
<1> QED
  BY <1>1, <1>2, <1>3, VaultTyped, PTL DEF Spec

-----------------------------------------------------------------------------
(* The event stream.                                                       *)

(* The i-th event shown is the i-th since the stream was opened.           *)
StreamInv ==
  /\ events \in Seq(UiGoals)
  /\ stream.since \in Nat
  /\ stream.shown \in Seq(UiGoals)
  /\ stream.since + Len(stream.shown) <= Len(events)
  /\ \A i \in 1..Len(stream.shown) : stream.shown[i] = events[stream.since + i]

LEMMA StreamInvAfter ==
  ASSUME NEW sent \in Seq(UiGoals), NEW from \in Nat, NEW got \in Seq(UiGoals),
         from + Len(got) <= Len(sent), \A i \in 1..Len(got) : got[i] = sent[from + i],
         events' = sent, stream'.since = from, stream'.shown = got
  PROVE  StreamInv'
BY DEF StreamInv

LEMMA StreamInvKept == StreamInv /\ [Next]_vars => StreamInv'
<1> SUFFICES ASSUME StreamInv, [Next]_vars PROVE StreamInv'
  OBVIOUS
<1> DEFINE since == stream.since
           shown == stream.shown
<1>0. /\ events \in Seq(UiGoals) /\ since \in Nat /\ shown \in Seq(UiGoals)
      /\ Len(events) \in Nat /\ Len(shown) \in Nat
      /\ since + Len(shown) <= Len(events)
      /\ \A i \in 1..Len(shown) : shown[i] = events[since + i]
  BY DEF StreamInv
<1>1. ASSUME NEW g \in UiGoals, events' = Append(events, g), UNCHANGED stream
      PROVE  StreamInv'
  <2>1. /\ events' \in Seq(UiGoals) /\ Len(events') = Len(events) + 1
        /\ \A i \in 1..Len(events) : events'[i] = events[i]
    BY <1>0, <1>1
  <2>2. \A i \in 1..Len(shown) : since + i \in 1..Len(events)
    BY <1>0
  <2>3. \A i \in 1..Len(shown) : shown[i] = Append(events, g)[since + i]
    BY <1>0, <1>1, <2>1, <2>2
  <2>4. stream'.since = since /\ stream'.shown = shown
    BY <1>1
  <2>5. since + Len(shown) <= Len(Append(events, g))
    BY <1>0, <1>1, <2>1
  <2>6. PICK sent \in Seq(UiGoals) : sent = Append(events, g)
    BY <1>1, <2>1
  <2> HIDE DEF since, shown
  <2> QED
    BY <1>0, <1>1, <2>3, <2>4, <2>5, <2>6, StreamInvAfter
<1>2. CASE Subscribe
  <2>1. /\ stream'.since = Len(events) /\ stream'.shown = <<>> /\ events' = events
    BY <1>2 DEF Subscribe
  <2>2. /\ stream'.shown \in Seq(UiGoals) /\ Len(stream'.shown) = 0
        /\ \A i \in 1..Len(stream'.shown) : FALSE
    BY <2>1, EmptySeq
  <2>3. stream'.since \in Nat /\ stream'.since + Len(stream'.shown) <= Len(events)
    BY <1>0, <2>1, <2>2
  <2> QED
    BY <1>0, <2>1, <2>2, <2>3 DEF StreamInv
<1>3. CASE Stream
  <2>1. CASE Behind \in 1..EventCapacity /\ Show(NextEvent)
    <3>1. /\ since + Len(shown) < Len(events)
          /\ since + Len(shown) + 1 \in 1..Len(events)
      <4>1. Len(events) - since - Len(shown) >= 1
        BY <1>0, <2>1, SessionAssumption DEF Behind
      <4> HIDE DEF since, shown
      <4> QED
        BY <1>0, <4>1
    <3>2. PICK e \in UiGoals : e = events[since + Len(shown) + 1]
      BY <1>0, <3>1
    <3>3. stream' = [stream EXCEPT !.shown = Append(shown, e)]
      BY <2>1, <3>2 DEF Show, NextEvent
    <3>4. /\ Append(shown, e) \in Seq(UiGoals)
          /\ Len(Append(shown, e)) = Len(shown) + 1
          /\ \A i \in 1..Len(shown) : Append(shown, e)[i] = shown[i]
          /\ Append(shown, e)[Len(shown) + 1] = e
      BY <1>0
    <3>5. \A i \in 1..Len(shown) + 1 : Append(shown, e)[i] = events[since + i]
      <4> HIDE DEF since, shown
      <4> SUFFICES ASSUME NEW i \in 1..Len(shown) + 1
                   PROVE  Append(shown, e)[i] = events[since + i]
        OBVIOUS
      <4>1. CASE i \in 1..Len(shown)
        BY <1>0, <3>4, <4>1
      <4>2. CASE i = Len(shown) + 1
        <5>1. since + i = since + Len(shown) + 1
          BY <1>0, <4>2
        <5> QED
          BY <3>2, <3>4, <4>2, <5>1
      <4>3. i \in 1..Len(shown) \/ i = Len(shown) + 1
        BY <1>0
      <4> QED
        BY <4>1, <4>2, <4>3
    <3>6. events' = events
      BY <1>3 DEF Stream
    <3>7. /\ stream'.since = since
          /\ stream'.shown = Append(shown, e)
      BY <3>3
    <3>8. /\ since + Len(Append(shown, e)) <= Len(events)
          /\ \A i \in 1..Len(Append(shown, e)) : Append(shown, e)[i] = events[since + i]
      <4> HIDE DEF since, shown
      <4> QED
        BY <1>0, <3>1, <3>4, <3>5
    <3>9. PICK got \in Seq(UiGoals) : got = Append(shown, e)
      BY <3>4
    <3> HIDE DEF since, shown
    <3> QED
      BY <1>0, <3>6, <3>7, <3>8, <3>9, StreamInvAfter
  <2>2. CASE Lags
    BY <1>0, <1>3, <2>2 DEF Stream, Lags, StreamInv
  <2> QED
    BY <1>3, <2>1, <2>2 DEF Stream
<1>4. CASE Disconnect
  BY <1>0, <1>4 DEF Disconnect, StreamInv
<1>5. CASE UNCHANGED <<events, stream>>
  BY <1>5 DEF StreamInv
<1>6. \/ \E g \in UiGoals : events' = Append(events, g) /\ UNCHANGED stream
      \/ Subscribe \/ Stream \/ Disconnect
      \/ UNCHANGED <<events, stream>>
  BY DEF Next, KernelStep, UiStep, vars, kernelVars, uiVars, Unlock, Open, Take, Launch,
         LaunchFails, Register, RecordBoot, Booted, Ask, Answered, Note, Finish, PostGoal,
         GoalEnds, Killed, PluginEnds
<1> QED
  BY <1>1, <1>2, <1>3, <1>4, <1>5, <1>6

(* What an open stream has shown is what was broadcast since it opened,    *)
(* in order and with nothing left out, for any number of events and any    *)
(* capacity of the channel (handle_events).                                *)
THEOREM StreamsAreWhole == Spec => []StreamLeavesNothingOut
<1>1. Init => StreamInv
  BY EmptySeq DEF Init, StreamInv
<1>2. StreamInv => StreamLeavesNothingOut
  <2> SUFFICES ASSUME StreamInv PROVE StreamLeavesNothingOut
    OBVIOUS
  <2> DEFINE since == stream.since
             shown == stream.shown
             sent == SubSeq(events, since + 1, since + Len(shown))
  <2>1. /\ events \in Seq(UiGoals) /\ since \in Nat /\ shown \in Seq(UiGoals)
        /\ Len(events) \in Nat /\ Len(shown) \in Nat
        /\ since + Len(shown) <= Len(events)
        /\ \A i \in 1..Len(shown) : shown[i] = events[since + i]
    BY DEF StreamInv
  <2>2. since + 1 \in 1..Len(events) + 1 /\ since + Len(shown) \in since..Len(events)
    BY <2>1
  <2> HIDE DEF since, shown
  <2>3. /\ sent \in Seq(UiGoals)
        /\ Len(sent) = Len(shown)
        /\ \A i \in 1..Len(sent) : sent[i] = events[since + i]
    <3> DEFINE m == since + 1
               n == since + Len(shown)
    <3>1. m \in Int /\ n \in Int /\ m = since + 1 /\ n = since + Len(shown)
      BY <2>1
    <3>2. sent = SubSeq(events, m, n)
      OBVIOUS
    <3> HIDE DEF m, n, sent
    <3>3. \A i \in m..n : i \in 1..Len(events)
      BY <2>1, <3>1
    <3>4. \A i \in m..n : events[i] \in UiGoals
      BY <2>1, <3>3
    <3>5. /\ sent \in Seq(UiGoals)
          /\ Len(sent) = IF m <= n THEN n - m + 1 ELSE 0
          /\ \A i \in 1..n - m + 1 : sent[i] = events[m + i - 1]
      BY <3>1, <3>2, <3>4, SubSeqProperties
    <3>6. Len(sent) = Len(shown) /\ n - m + 1 = Len(shown)
      BY <2>1, <3>1, <3>5
    <3>7. \A i \in 1..Len(shown) : m + i - 1 = since + i
      BY <2>1, <3>1
    <3> QED
      BY <3>5, <3>6, <3>7
  <2>4. shown = sent
    BY <2>1, <2>3, SeqEqual
  <2> QED
    BY <2>4 DEF StreamLeavesNothingOut, since, shown
<1> QED
  BY <1>1, <1>2, StreamInvKept, PTL DEF Spec

-----------------------------------------------------------------------------
(* The session's log.                                                      *)

Names == {"model", "fs", "storage", "orchestrator"}
Whats == {"SESSION_START", "PLUGIN_BOOTED", "DISPATCH_START", "DISPATCH_RESULT", "SESSION_END"}
LogEntries ==
  [what : Whats, about : Kinds \cup Names \cup {PluginOf[m] : m \in Manifests}, count : Nat]

CountIn(l, what) == Cardinality({i \in DOMAIN l : l[i].what = what})

LEMMA CallsTyped ==
  ASSUME NEW k \in {"test", "goal", "ui"}
  PROVE  Calls(k) \in Seq(Names) /\ Len(Calls(k)) \in Nat
<1>1. CASE k = "test"
  BY <1>1 DEF Calls, Names
<1>2. CASE k = "goal"
  BY <1>2 DEF Calls, Names
<1>3. CASE k = "ui"
  BY <1>3, EmptySeq DEF Calls
<1> QED
  BY <1>1, <1>2, <1>3

LEMMA CountInAppend ==
  ASSUME NEW l \in Seq(LogEntries), NEW e \in LogEntries, NEW what
  PROVE  /\ CountIn(l, what) \in Nat
         /\ CountIn(Append(l, e), what) = CountIn(l, what) + (IF e.what = what THEN 1 ELSE 0)
<1> DEFINE after == Append(l, e)
           n == Len(l) + 1
           Here(s) == {i \in DOMAIN s : s[i].what = what}
<1>1. /\ DOMAIN after = DOMAIN l \cup {n} /\ n \notin DOMAIN l
      /\ \A i \in DOMAIN l : after[i] = l[i]
      /\ after[n] = e
  OBVIOUS
<1>2. IsFiniteSet(Here(l)) /\ Cardinality(Here(l)) \in Nat
  <2>1. IsFiniteSet(1..Len(l))
    BY FS_Interval
  <2>2. Here(l) \subseteq 1..Len(l)
    OBVIOUS
  <2>3. IsFiniteSet(Here(l))
    BY <2>1, <2>2, FS_Subset
  <2> QED
    BY <2>3, FS_CardinalityType
<1> HIDE DEF after, n
<1>3. CASE e.what = what
  <2>1. Here(after) = Here(l) \cup {n} /\ n \notin Here(l)
    BY <1>1, <1>3
  <2>2. Cardinality(Here(after)) = Cardinality(Here(l)) + 1
    BY <1>2, <2>1, FS_AddElement
  <2> QED
    BY <1>2, <1>3, <2>2 DEF CountIn, after
<1>4. CASE e.what # what
  <2>1. Here(after) = Here(l)
    BY <1>1, <1>4
  <2>2. Cardinality(Here(after)) = Cardinality(Here(l))
    BY <2>1
  <2>3. /\ CountIn(l, what) = Cardinality(Here(l))
        /\ CountIn(after, what) = Cardinality(Here(after))
    BY DEF CountIn
  <2>4. CountIn(after, what) = CountIn(l, what) + 0 /\ CountIn(l, what) \in Nat
    BY <1>2, <2>2, <2>3
  <2> QED
    BY <1>4, <2>4 DEF after
<1> QED
  BY <1>3, <1>4

(* What is in the log, and what is yet to come of the calls.               *)
LogTyped ==
  /\ log \in Seq(LogEntries)
  /\ kind \in Kinds
  /\ left \in Seq(Names)
  /\ booted \in Nat
  /\ kpc \in {"launching", "registering", "recording"} => current \in Manifests

LogBegins ==
  /\ log # <<>> => log[1].what = "SESSION_START"
  /\ Up => (log = <<>> <=> kpc \in {"starting", "opening"})

BootsAreRegistered ==
  /\ kpc = "recording" => PluginOf[current] \in DOMAIN registered
  /\ \A i \in DOMAIN log : log[i].what = "PLUGIN_BOOTED" => log[i].about \in DOMAIN registered

ResultsFollow ==
  /\ kpc \in {"waiting", "answered"} =>
       /\ left # <<>> /\ log # <<>>
       /\ log[Len(log)].what = "DISPATCH_START" /\ log[Len(log)].about = Head(left)
  /\ \A i \in DOMAIN log : log[i].what = "DISPATCH_RESULT" =>
       /\ i - 1 \in DOMAIN log
       /\ log[i - 1].what = "DISPATCH_START" /\ log[i - 1].about = log[i].about

(* While the session is up.                                                *)
Tally ==
  /\ \A i \in DOMAIN log : log[i].what # "SESSION_END"
  /\ CountIn(log, "PLUGIN_BOOTED") = booted
  /\ CountIn(log, "DISPATCH_RESULT") + Len(left) = Len(Calls(kind))
  /\ CountIn(log, "DISPATCH_START")
       = CountIn(log, "DISPATCH_RESULT") + (IF kpc \in {"waiting", "answered"} THEN 1 ELSE 0)

EndIsLast ==
  \A i \in DOMAIN log : log[i].what = "SESSION_END" =>
    /\ i = Len(log)
    /\ log[i].count = CountIn(log, "PLUGIN_BOOTED")
    /\ CountIn(log, "DISPATCH_RESULT") = Len(Calls(kind))
    /\ CountIn(log, "DISPATCH_START") = Len(Calls(kind))

LogInv ==
  LogTyped /\ LogBegins /\ BootsAreRegistered /\ ResultsFollow /\ (Up => Tally) /\ EndIsLast

(* A step that leaves the log alone.                                       *)
LEMMA LogUntouched ==
  ASSUME LogInv, UNCHANGED <<log, kind>>,
         Up' => Up /\ UNCHANGED <<left, booted>>,
         left' \in Seq(Names), booted' \in Nat,
         DOMAIN registered \subseteq DOMAIN registered',
         kpc' \in {"launching", "registering", "recording"} => current' \in Manifests,
         kpc' = "recording" =>
           \/ PluginOf[current'] \in DOMAIN registered'
           \/ kpc = "recording" /\ current' = current,
         kpc' \in {"starting", "opening"} => kpc \in {"starting", "opening"},
         kpc \in {"starting", "opening"} => kpc' \in {"starting", "opening", "ended", "killed"},
         Up' => (kpc' \in {"waiting", "answered"} <=> kpc \in {"waiting", "answered"})
  PROVE  LogInv'
<1>1. LogTyped'
  BY DEF LogInv, LogTyped
<1>2. LogBegins'
  BY DEF LogInv, LogBegins, Up
<1>3. BootsAreRegistered'
  BY DEF LogInv, BootsAreRegistered
<1>4. ResultsFollow'
  BY DEF LogInv, ResultsFollow, Up
<1>5. (Up => Tally)'
  BY DEF LogInv, Tally
<1>6. EndIsLast'
  BY DEF LogInv, EndIsLast
<1> QED
  BY <1>1, <1>2, <1>3, <1>4, <1>5, <1>6 DEF LogInv

(* A line more.                                                            *)
LEMMA LogGrows ==
  ASSUME LogInv, NEW e \in LogEntries, log' = Append(log, e)
  PROVE  /\ log' \in Seq(LogEntries) /\ log' # <<>>
         /\ Len(log) \in Nat /\ Len(log') = Len(log) + 1
         /\ DOMAIN log = 1..Len(log) /\ DOMAIN log' = DOMAIN log \cup {Len(log')}
         /\ \A i \in DOMAIN log : log'[i] = log[i] /\ i # Len(log')
         /\ log'[Len(log')] = e
         /\ \A what : /\ CountIn(log, what) \in Nat
                      /\ CountIn(log', what)
                           = CountIn(log, what) + (IF e.what = what THEN 1 ELSE 0)
<1>1. log \in Seq(LogEntries)
  BY DEF LogInv, LogTyped
<1>2. \A what : /\ CountIn(log, what) \in Nat
                /\ CountIn(log', what) = CountIn(log, what) + (IF e.what = what THEN 1 ELSE 0)
  BY <1>1, CountInAppend
<1> QED
  BY <1>1, <1>2

(* A line more, which does not end the log.                                *)
More(e, what) == IF e.what = what THEN 1 ELSE 0

LEMMA TallyGrows ==
  ASSUME LogInv, Tally, NEW e \in LogEntries, log' = Append(log, e), e.what # "SESSION_END"
  PROVE  /\ \A i \in DOMAIN log' : log'[i].what # "SESSION_END"
         /\ CountIn(log', "PLUGIN_BOOTED") = booted + More(e, "PLUGIN_BOOTED")
         /\ CountIn(log', "DISPATCH_RESULT")
              = CountIn(log, "DISPATCH_RESULT") + More(e, "DISPATCH_RESULT")
         /\ CountIn(log', "DISPATCH_START")
              = CountIn(log, "DISPATCH_START") + More(e, "DISPATCH_START")
         /\ CountIn(log, "DISPATCH_RESULT") \in Nat
         /\ CountIn(log, "DISPATCH_START") \in Nat
<1>1. /\ DOMAIN log' = DOMAIN log \cup {Len(log')}
      /\ \A i \in DOMAIN log : log'[i] = log[i]
      /\ log'[Len(log')] = e
  BY LogGrows
<1>2. \A i \in DOMAIN log : log[i].what # "SESSION_END"
  BY DEF Tally
<1>3. \A i \in DOMAIN log' : log'[i].what # "SESSION_END"
  BY <1>1, <1>2
<1>4. \A what : /\ CountIn(log, what) \in Nat
                /\ CountIn(log', what) = CountIn(log, what) + More(e, what)
  BY LogGrows DEF More
<1>5. CountIn(log, "PLUGIN_BOOTED") = booted
  BY DEF Tally
<1> QED
  BY <1>3, <1>4, <1>5

(* The append failed, and the command with it.                             *)
LEMMA AppendFails ==
  ASSUME LogInv, Quit, UNCHANGED <<log, kind, registered>>,
         left' \in Seq(Names), booted' \in Nat
  PROVE  LogInv'
<1>1. kpc' = "ended" /\ ~Up'
  BY DEF Quit, Up
<1> QED
  BY <1>1, LogUntouched

LEMMA OpenKeepsLog ==
  ASSUME LogInv, Open
  PROVE  LogInv'
<1>0. LogTyped /\ kpc = "opening" /\ UNCHANGED <<kind, left, booted, registered>>
  BY DEF LogInv, Open, bootVars
<1>1. CASE Quit /\ UNCHANGED log
  BY <1>0, <1>1, AppendFails DEF LogTyped
<1>2. ASSUME log' = Append(log, Entry("SESSION_START", kind, 0)), kpc' = "booting"
      PROVE  LogInv'
  <2>1. PICK e \in LogEntries : e = Entry("SESSION_START", kind, 0)
    BY <1>0 DEF LogTyped, LogEntries, Entry, Whats
  <2>2. e.what = "SESSION_START"
    BY <2>1 DEF Entry
  <2>3. log = <<>> /\ log' = Append(log, e)
    BY <1>0, <1>2, <2>1 DEF LogInv, LogBegins, Up
  <2>4. Up /\ Up'
    BY <1>0, <1>2 DEF Up
  <2>5. Len(log) = 0
    BY <2>3
  <2> QED
    BY <1>0, <1>2, <2>2, <2>3, <2>4, <2>5, LogGrows
       DEF LogInv, LogTyped, LogBegins, BootsAreRegistered, ResultsFollow, Tally, EndIsLast
<1> QED
  BY <1>1, <1>2 DEF Open, Record

LEMMA BootKeepsLog ==
  ASSUME LogInv, RecordBoot
  PROVE  LogInv'
<1>0. /\ LogTyped /\ kpc = "recording" /\ UNCHANGED <<kind, left, registered, current>>
      /\ booted' = booted + 1 /\ current \in Manifests
      /\ PluginOf[current] \in DOMAIN registered
      /\ booted \in Nat /\ booted + 1 \in Nat
  BY DEF LogInv, LogTyped, BootsAreRegistered, RecordBoot, bootVars
<1>1. CASE Quit /\ UNCHANGED log
  BY <1>0, <1>1, AppendFails DEF LogTyped
<1>2. ASSUME log' = Append(log, Entry("PLUGIN_BOOTED", PluginOf[current], 0)), kpc' = "booting"
      PROVE  LogInv'
  <2>1. PICK e \in LogEntries : e = Entry("PLUGIN_BOOTED", PluginOf[current], 0)
    BY <1>0 DEF LogEntries, Entry, Whats
  <2>2. e.what = "PLUGIN_BOOTED" /\ e.about = PluginOf[current]
    BY <2>1 DEF Entry
  <2>3. log' = Append(log, e)
    BY <1>2, <2>1
  <2>4. Up /\ Up' /\ log # <<>> /\ log[1].what = "SESSION_START"
    BY <1>0, <1>2 DEF Up, LogInv, LogBegins
  <2>5. 1 \in DOMAIN log
    BY <1>0, <2>4 DEF LogTyped
  <2>6. LogTyped' /\ LogBegins'
    BY <1>0, <1>2, <2>3, <2>4, <2>5, LogGrows DEF LogTyped, LogBegins
  <2>7. BootsAreRegistered'
    BY <1>0, <1>2, <2>2, <2>3, LogGrows DEF LogInv, BootsAreRegistered
  <2>8. ResultsFollow'
    BY <1>0, <1>2, <2>2, <2>3, LogGrows DEF LogInv, ResultsFollow
  <2>9. Tally' /\ EndIsLast'
    <3>1. Tally
      BY <2>4 DEF LogInv
    <3>2. /\ \A i \in DOMAIN log' : log'[i].what # "SESSION_END"
          /\ CountIn(log', "PLUGIN_BOOTED") = booted + 1
          /\ CountIn(log', "DISPATCH_RESULT") = CountIn(log, "DISPATCH_RESULT") + 0
          /\ CountIn(log', "DISPATCH_START") = CountIn(log, "DISPATCH_START") + 0
          /\ CountIn(log, "DISPATCH_RESULT") \in Nat
          /\ CountIn(log, "DISPATCH_START") \in Nat
      BY <2>2, <2>3, <3>1, TallyGrows DEF More
    <3>3. /\ CountIn(log, "DISPATCH_RESULT") + Len(left) = Len(Calls(kind))
          /\ CountIn(log, "DISPATCH_START") = CountIn(log, "DISPATCH_RESULT") + 0
      BY <1>0, <3>1 DEF Tally
    <3>4. /\ CountIn(log', "DISPATCH_RESULT") + Len(left') = Len(Calls(kind'))
          /\ CountIn(log', "DISPATCH_START") = CountIn(log', "DISPATCH_RESULT") + 0
      BY <1>0, <3>2, <3>3
    <3>5. CountIn(log', "PLUGIN_BOOTED") = booted'
      BY <1>0, <3>2
    <3> QED
      BY <1>2, <3>2, <3>4, <3>5 DEF Tally, EndIsLast
  <2> QED
    BY <2>6, <2>7, <2>8, <2>9 DEF LogInv
<1> QED
  BY <1>1, <1>2 DEF RecordBoot, Record

LEMMA AskKeepsLog ==
  ASSUME LogInv, Ask
  PROVE  LogInv'
<1>0. /\ LogTyped /\ kpc = "calling" /\ left # <<>>
      /\ UNCHANGED <<kind, left, registered, booted>>
  BY DEF LogInv, Ask, bootVars
<1>1. CASE Quit /\ UNCHANGED log
  BY <1>0, <1>1, AppendFails DEF LogTyped
<1>2. ASSUME log' = Append(log, Entry("DISPATCH_START", Head(left), 0)), kpc' = "waiting"
      PROVE  LogInv'
  <2>0. Head(left) \in Names
    BY <1>0 DEF LogTyped
  <2>1. PICK e \in LogEntries : e = Entry("DISPATCH_START", Head(left), 0)
    BY <2>0 DEF LogEntries, Entry, Whats
  <2>2. e.what = "DISPATCH_START" /\ e.about = Head(left)
    BY <2>1 DEF Entry
  <2>3. log' = Append(log, e)
    BY <1>2, <2>1
  <2>4. Up /\ Up' /\ log # <<>> /\ log[1].what = "SESSION_START"
    BY <1>0, <1>2 DEF Up, LogInv, LogBegins
  <2>5. 1 \in DOMAIN log
    BY <1>0, <2>4 DEF LogTyped
  <2>6. LogTyped' /\ LogBegins'
    BY <1>0, <1>2, <2>3, <2>4, <2>5, LogGrows DEF LogTyped, LogBegins
  <2>7. BootsAreRegistered'
    BY <1>0, <1>2, <2>2, <2>3, LogGrows DEF LogInv, BootsAreRegistered
  <2>8. ResultsFollow'
    BY <1>0, <1>2, <2>2, <2>3, LogGrows DEF LogInv, ResultsFollow
  <2>9. Tally' /\ EndIsLast'
    <3>1. Tally
      BY <2>4 DEF LogInv
    <3>2. /\ \A i \in DOMAIN log' : log'[i].what # "SESSION_END"
          /\ CountIn(log', "PLUGIN_BOOTED") = booted + 0
      BY <2>2, <2>3, <3>1, TallyGrows DEF More
    <3>3. /\ CountIn(log', "PLUGIN_BOOTED") = booted
          /\ CountIn(log', "DISPATCH_RESULT") = CountIn(log, "DISPATCH_RESULT")
          /\ CountIn(log', "DISPATCH_START") = CountIn(log, "DISPATCH_START") + 1
          /\ CountIn(log, "DISPATCH_RESULT") \in Nat
      BY <1>0, <2>2, <2>3, <3>1, TallyGrows DEF More, LogTyped
    <3>4. CountIn(log', "DISPATCH_START") = CountIn(log', "DISPATCH_RESULT") + 1
      BY <1>0, <3>1, <3>3 DEF Tally
    <3>5. /\ CountIn(log', "PLUGIN_BOOTED") = booted'
          /\ CountIn(log', "DISPATCH_RESULT") + Len(left') = Len(Calls(kind'))
      BY <1>0, <3>1, <3>3 DEF Tally
    <3> QED
      BY <1>2, <3>2, <3>4, <3>5 DEF Tally, EndIsLast
  <2> QED
    BY <2>6, <2>7, <2>8, <2>9 DEF LogInv
<1> QED
  BY <1>1, <1>2 DEF Ask, Record

LEMMA NoteKeepsLog ==
  ASSUME LogInv, Note
  PROVE  LogInv'
<1>0. /\ LogTyped /\ kpc = "answered" /\ left # <<>>
      /\ log # <<>> /\ log[Len(log)].what = "DISPATCH_START" /\ log[Len(log)].about = Head(left)
      /\ left' = Tail(left)
      /\ UNCHANGED <<kind, registered, booted>>
  BY DEF LogInv, ResultsFollow, Note, bootVars
<1>00. /\ left \in Seq(Names) /\ Tail(left) \in Seq(Names) /\ Len(left) \in Nat
       /\ Len(Tail(left)) = Len(left) - 1 /\ Head(left) \in Names
  BY <1>0 DEF LogTyped
<1>1. CASE Quit /\ UNCHANGED log
  BY <1>0, <1>00, <1>1, AppendFails DEF LogTyped
<1>2. ASSUME log' = Append(log, Entry("DISPATCH_RESULT", Head(left), 0)), kpc' = "calling"
      PROVE  LogInv'
  <2>1. PICK e \in LogEntries : e = Entry("DISPATCH_RESULT", Head(left), 0)
    BY <1>00 DEF LogEntries, Entry, Whats
  <2>2. e.what = "DISPATCH_RESULT" /\ e.about = Head(left)
    BY <2>1 DEF Entry
  <2>3. log' = Append(log, e)
    BY <1>2, <2>1
  <2>4. Up /\ Up' /\ log[1].what = "SESSION_START"
    BY <1>0, <1>2 DEF Up, LogInv, LogBegins
  <2>5. 1 \in DOMAIN log /\ Len(log) \in DOMAIN log
    BY <1>0 DEF LogTyped
  <2>6. LogTyped' /\ LogBegins'
    BY <1>0, <1>00, <1>2, <2>3, <2>4, <2>5, LogGrows DEF LogTyped, LogBegins
  <2>7. BootsAreRegistered'
    BY <1>0, <1>2, <2>2, <2>3, LogGrows DEF LogInv, BootsAreRegistered
  <2>8. ResultsFollow'
    <3>1. ASSUME NEW i \in DOMAIN log', log'[i].what = "DISPATCH_RESULT"
          PROVE  /\ i - 1 \in DOMAIN log'
                 /\ log'[i - 1].what = "DISPATCH_START" /\ log'[i - 1].about = log'[i].about
      <4>1. CASE i \in DOMAIN log
        BY <2>3, <3>1, <4>1, LogGrows DEF LogInv, ResultsFollow
      <4>2. CASE i = Len(log')
        <5>1. i - 1 = Len(log) /\ log'[i] = e /\ log'[Len(log)] = log[Len(log)]
          BY <2>3, <2>5, <4>2, LogGrows
        <5>2. Len(log) \in DOMAIN log'
          BY <2>3, <2>5, LogGrows
        <5> QED
          BY <1>0, <2>2, <5>1, <5>2
      <4> QED
        BY <2>3, <4>1, <4>2, LogGrows
    <3> QED
      BY <1>2, <3>1 DEF ResultsFollow
  <2>9. Tally' /\ EndIsLast'
    <3>1. Tally
      BY <2>4 DEF LogInv
    <3>2. /\ \A i \in DOMAIN log' : log'[i].what # "SESSION_END"
          /\ CountIn(log', "PLUGIN_BOOTED") = booted + 0
          /\ CountIn(log', "DISPATCH_RESULT") = CountIn(log, "DISPATCH_RESULT") + 1
          /\ CountIn(log', "DISPATCH_START") = CountIn(log, "DISPATCH_START") + 0
          /\ CountIn(log, "DISPATCH_RESULT") \in Nat
          /\ CountIn(log, "DISPATCH_START") \in Nat
      BY <2>2, <2>3, <3>1, TallyGrows DEF More
    <3>3. /\ CountIn(log, "DISPATCH_RESULT") + Len(left) = Len(Calls(kind))
          /\ CountIn(log, "DISPATCH_START") = CountIn(log, "DISPATCH_RESULT") + 1
      BY <1>0, <3>1 DEF Tally
    <3>4. Len(left') = Len(left) - 1 /\ kind' = kind
      BY <1>0, <1>00
    <3>5. CountIn(log', "DISPATCH_RESULT") + Len(left') = Len(Calls(kind'))
      BY <1>00, <3>2, <3>3, <3>4
    <3>6. CountIn(log', "DISPATCH_START") = CountIn(log', "DISPATCH_RESULT") + 0
      BY <3>2, <3>3
    <3>7. CountIn(log', "PLUGIN_BOOTED") = booted'
      BY <1>0, <3>2 DEF LogTyped
    <3> QED
      BY <1>2, <3>2, <3>5, <3>6, <3>7 DEF Tally, EndIsLast
  <2> QED
    BY <2>4, <2>6, <2>7, <2>8, <2>9 DEF LogInv
<1> QED
  BY <1>1, <1>2 DEF Note, Record

LEMMA FinishKeepsLog ==
  ASSUME LogInv, Finish
  PROVE  LogInv'
<1>0. /\ LogTyped /\ kpc = "calling" /\ left = <<>> /\ kpc' = "ended" /\ Up /\ ~Up'
      /\ Quit /\ UNCHANGED <<kind, registered, left, booted>>
  BY DEF LogInv, Finish, Quit, Up, bootVars
<1>1. CASE UNCHANGED log
  BY <1>0, <1>1, AppendFails DEF LogTyped
<1>2. CASE log' = Append(log, Entry("SESSION_END", kind, booted))
  <2>1. PICK e \in LogEntries : e = Entry("SESSION_END", kind, booted)
    BY <1>0 DEF LogTyped, LogEntries, Entry, Whats
  <2>2. e.what = "SESSION_END" /\ e.count = booted
    BY <2>1 DEF Entry
  <2>3. log' = Append(log, e)
    BY <1>2, <2>1
  <2>4. log # <<>> /\ log[1].what = "SESSION_START"
    BY <1>0 DEF LogInv, LogBegins
  <2>5. 1 \in DOMAIN log
    BY <1>0, <2>4 DEF LogTyped
  <2>6. LogTyped' /\ LogBegins'
    BY <1>0, <2>3, <2>4, <2>5, LogGrows DEF LogTyped, LogBegins
  <2>7. BootsAreRegistered'
    BY <1>0, <2>2, <2>3, LogGrows DEF LogInv, BootsAreRegistered
  <2>8. ResultsFollow'
    BY <1>0, <2>2, <2>3, LogGrows DEF LogInv, ResultsFollow
  <2>9. EndIsLast'
    <3>1. Tally /\ Len(left) = 0
      BY <1>0 DEF LogInv
    <3>2. \A i \in DOMAIN log' : log'[i].what = "SESSION_END" => i = Len(log')
      BY <2>3, <3>1, LogGrows DEF Tally
    <3>3. /\ CountIn(log', "PLUGIN_BOOTED") = booted
          /\ CountIn(log', "DISPATCH_RESULT") = Len(Calls(kind))
          /\ CountIn(log', "DISPATCH_START") = Len(Calls(kind))
      BY <1>0, <2>2, <2>3, <3>1, LogGrows DEF Tally
    <3>4. log'[Len(log')].count = booted
      BY <2>2, <2>3, LogGrows
    <3> QED
      BY <1>0, <3>2, <3>3, <3>4 DEF EndIsLast
  <2> QED
    BY <1>0, <2>6, <2>7, <2>8, <2>9 DEF LogInv
<1> QED
  BY <1>0, <1>1, <1>2 DEF Finish

(* The steps that write nothing.                                           *)
LEMMA QuietKeepsLog ==
  ASSUME LogInv, [Next]_vars, ~(Open \/ RecordBoot \/ Ask \/ Note \/ Finish)
  PROVE  LogInv'
<1>0. LogTyped
  BY DEF LogInv
<1>1. CASE Unlock \/ Answered \/ LaunchFails
  BY <1>0, <1>1, LogUntouched
     DEF Unlock, Answered, LaunchFails, Skip, Quit, LogTyped, Up, bootVars
<1>2. ASSUME NEW m \in Manifests, Take(m) PROVE LogInv'
  BY <1>0, <1>2, LogUntouched DEF Take, Quit, LogTyped, Up
<1>3. CASE Launch
  BY <1>0, <1>3, LogUntouched DEF Launch, LogTyped, Up
<1>4. CASE Register
  BY <1>0, <1>4, LogUntouched DEF Register, LogTyped, Up
<1>5. CASE Booted
  BY <1>0, <1>5, LogUntouched DEF Booted, Quit, LogTyped, Up, bootVars
<1>6. CASE Killed
  BY <1>0, <1>6, LogUntouched DEF Killed, LogTyped, Up, bootVars
<1>7. CASE UNCHANGED <<log, kind, left, booted, registered, kpc, current>>
  BY <1>0, <1>7, LogUntouched DEF LogTyped, Up
<1>8. UiStep \/ (\E m \in Manifests : PluginEnds(m))
        \/ (\E c \in Commands : Command(c) /\ UNCHANGED kernelVars) \/ UNCHANGED vars
        => UNCHANGED <<log, kind, left, booted, registered, kpc, current>>
  BY DEF UiStep, PostGoal, GoalEnds, Subscribe, Stream, Disconnect, PluginEnds, vars,
         kernelVars, uiVars, bootVars
<1> QED
  BY <1>1, <1>2, <1>3, <1>4, <1>5, <1>6, <1>7, <1>8 DEF Next, KernelStep

(* The log tells the session as it went, through every early return, for   *)
(* any manifests and plugins: it begins with the start, what it says was   *)
(* booted is in the router, calls and results alternate, and an end is     *)
(* there only when every call has its result (cmd_run, cmd_ui).            *)
THEOREM LogsTellTheSession == Spec => []LogTellsTheSession
<1>1. Init => LogInv
  <2> SUFFICES ASSUME Init PROVE LogInv
    OBVIOUS
  <2>1. /\ kind \in {"test", "goal", "ui"} /\ kind \in Kinds /\ left = Calls(kind)
        /\ log = <<>> /\ booted = 0 /\ kpc = "starting"
    BY SessionAssumption DEF Init
  <2>2. left \in Seq(Names) /\ Len(left) \in Nat
    BY <2>1, CallsTyped
  <2>3. \A what : CountIn(log, what) = 0
    <3>1. \A what : {i \in DOMAIN log : log[i].what = what} = {}
      BY <2>1
    <3> QED
      BY <3>1, FS_EmptySet DEF CountIn
  <2>4. log \in Seq(LogEntries)
    BY <2>1, EmptySeq
  <2> QED
    BY <2>1, <2>2, <2>3, <2>4
       DEF LogInv, LogTyped, LogBegins, BootsAreRegistered, ResultsFollow, Tally, EndIsLast
<1>2. LogInv /\ [Next]_vars => LogInv'
  BY OpenKeepsLog, BootKeepsLog, AskKeepsLog, NoteKeepsLog, FinishKeepsLog, QuietKeepsLog
<1>3. LogInv => LogTellsTheSession
  <2> SUFFICES ASSUME LogInv PROVE LogTellsTheSession
    OBVIOUS
  <2>1. \A what : CountIn(log, what) = Count(what)
    BY DEF CountIn, Count
  <2> QED
    BY <2>1 DEF LogInv, LogBegins, BootsAreRegistered, ResultsFollow, EndIsLast,
                LogTellsTheSession
<1> QED
  BY <1>1, <1>2, <1>3, PTL DEF Spec

=============================================================================
