-------------------------------- MODULE Vault --------------------------------
(***************************************************************************)
(* The secrets vault (vault.rs) and the commands that change it (`chassis  *)
(* secret`, cmd_secret): each is a process of its own that loads the file, *)
(* changes what it loaded and saves all of it, by truncating the file and  *)
(* writing it anew.                                                        *)
(*                                                                         *)
(* Encryption is external: a file opens with the passphrase it was saved   *)
(* under, if it is whole; another one does not open.  Its mode bits are    *)
(* left out.                                                               *)
(***************************************************************************)
EXTENDS Naturals

CONSTANTS
  Commands,     \* `chassis secret` processes
  Asks,         \* the op, key, value and passphrase each may be given
  Keys, Values, Passphrases,
  NoValue,      \* of a key that is not in the vault
  Garbage,      \* what decrypting a file that is not whole would give
  VaultFaults   \* whether a command may die, or fail to write

Ops == {"set", "list", "delete"}

ASSUME VaultAssumption ==
  /\ DOMAIN Asks = Commands
  /\ \A c \in Commands :
       Asks[c] \subseteq [op : Ops, key : Keys, value : Values, pass : Passphrases]
  /\ NoValue \notin Values
  /\ Garbage \notin Values \cup {NoValue}
  /\ VaultFaults \in BOOLEAN

VARIABLES
  file,      \* secrets.enc: its state, what is in it and under which passphrase
  ask,       \* the arguments of each command
  cpc,       \* where it is
  memory,    \* the secrets each has loaded
  expected,  \* history: what the commands that said so have stored, one after another
  disturbed  \* history: commands overlapped, or one ended in the middle of saving

vaultVars == <<file, ask, cpc, memory, expected, disturbed>>

Empty == [k \in Keys |-> NoValue]

Garbled == [k \in Keys |-> Garbage]

File(state, secrets, pass) == [state |-> state, secrets |-> secrets, pass |-> pass]

AnyPass == CHOOSE p \in Passphrases : TRUE

VaultInit ==
  /\ file = File("absent", Empty, AnyPass)
  /\ ask \in {f \in [Commands -> UNION {Asks[c] : c \in Commands}] :
                \A c \in Commands : f[c] \in Asks[c]}
  /\ cpc = [c \in Commands |-> "idle"]
  /\ memory = [c \in Commands |-> Empty]
  /\ expected = Empty
  /\ disturbed = FALSE

-----------------------------------------------------------------------------
(* Slip: the file taken as it is, without the tag of the cipher.           *)
OpensAnything(pass) == file.state # "absent" /\ file.pass = pass

(* load_from_file succeeds.                                                *)
Opens(pass) == file.state = "whole" /\ file.pass = pass

Active(c) == cpc[c] \in {"loaded", "writing"}

(* Slip: a vault that does not open is started anew.                       *)
FailsToLoad(c) == cpc' = [cpc EXCEPT ![c] = "loaded"]

LoadFails(c) == cpc' = [cpc EXCEPT ![c] = "failed"]

(* cmd_secret loads the vault, or starts one if there is none.             *)
Load(c) ==
  /\ cpc[c] = "idle"
  /\ disturbed' = (disturbed \/ \E other \in Commands : Active(other))
  /\ \/ /\ file.state = "absent" \/ Opens(ask[c].pass)
        /\ cpc' = [cpc EXCEPT ![c] = "loaded"]
        /\ memory' = [memory EXCEPT ![c] = file.secrets]
     \/ /\ file.state # "absent" /\ ~Opens(ask[c].pass)
        /\ LoadFails(c)
        /\ UNCHANGED memory
  /\ UNCHANGED <<file, ask, expected>>

(* `list`, and `delete` of a key that is not there, save nothing.          *)
NothingToSave(c) ==
  /\ cpc[c] = "loaded"
  /\ \/ ask[c].op = "list"
     \/ ask[c].op = "delete" /\ memory[c][ask[c].key] = NoValue
  /\ cpc' = [cpc EXCEPT ![c] = "done"]
  /\ UNCHANGED <<file, ask, memory, expected, disturbed>>

Change(c, secrets) ==
  [secrets EXCEPT ![ask[c].key] = IF ask[c].op = "set" THEN ask[c].value ELSE NoValue]

(* The change, and save_to_file as far as the truncation; the user may     *)
(* have taken any time to type the value.                                  *)
Truncate(c) ==
  /\ cpc[c] = "loaded"
  /\ \/ ask[c].op = "set"
     \/ ask[c].op = "delete" /\ memory[c][ask[c].key] # NoValue
  /\ memory' = [memory EXCEPT ![c] = Change(c, @)]
  /\ file' = File("empty", Garbled, ask[c].pass)
  /\ cpc' = [cpc EXCEPT ![c] = "writing"]
  /\ UNCHANGED <<ask, expected, disturbed>>

(* The rest of it: over the bytes another command has written since the    *)
(* truncation, a longer content leaves its tail behind.                    *)
Write(c) ==
  /\ cpc[c] = "writing"
  /\ \/ file' = File("whole", memory[c], ask[c].pass)
     \/ file.state # "empty" /\ file' = File("garbled", Garbled, ask[c].pass)
  /\ expected' = Change(c, expected)
  /\ cpc' = [cpc EXCEPT ![c] = "done"]
  /\ UNCHANGED <<ask, memory, disturbed>>

(* The command dies, or its write fails, with part of it done or nothing.  *)
Breaks(c) ==
  /\ VaultFaults
  /\ Active(c)
  /\ cpc' = [cpc EXCEPT ![c] = "failed"]
  /\ \/ UNCHANGED file
     \/ cpc[c] = "writing" /\ file' = File("garbled", Garbled, ask[c].pass)
  /\ disturbed' = (disturbed \/ cpc[c] = "writing")
  /\ UNCHANGED <<ask, memory, expected>>

Command(c) == Load(c) \/ NothingToSave(c) \/ Truncate(c) \/ Write(c) \/ Breaks(c)

-----------------------------------------------------------------------------
(* What commands stored that ran one after another and were not cut short  *)
(* in the middle of saving is what the vault holds: a command that cannot  *)
(* open it (another passphrase) leaves it alone, and one that died before  *)
(* it saved has no part in it.                                             *)
NoSecretIsLost ==
  (~disturbed /\ \A c \in Commands : cpc[c] # "writing")
    => file.secrets = expected /\ file.state \in {"absent", "whole"}

=============================================================================
