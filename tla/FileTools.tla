------------------------------ MODULE FileTools ------------------------------
(***************************************************************************)
(* The filesystem tools plugin, chassis-tools-filesystem, behind the gate  *)
(* of the router: dispatch checks the path of a call against the lease     *)
(* (validate_path), and the plugin uses the path as it was given, later,   *)
(* with other calls and the user at work in the same directories.          *)
(*                                                                         *)
(* A path is a sequence of components from the root of the file system,    *)
(* ".." among them; the file system is external and has no links.  What a  *)
(* file holds is left out.                                                 *)
(***************************************************************************)
EXTENDS Lease, Naturals, SequencesExt

CONSTANTS
  Root,       \* workspace_root, canonical: where the plugin runs
  Forbidden,  \* the names that forbidden_patterns match
  Asked,      \* the calls that are made
  Tree,       \* the directories and files there are at first
  UserFiles,  \* where the user may create and delete a file or directory
  MaxCalls    \* bound: how many calls are past the gate at a time

(* What there is has a path without "..".                                  *)
Paths == Seq(STRING \ {".."})

ASSUME FileToolsAssumption ==
  /\ Tree \in [dirs : SUBSET Paths, files : SUBSET Paths]
  /\ Tree.dirs \cap Tree.files = {}
  /\ {Root} \cup UserFiles \subseteq Paths \ {<<>>}
  /\ \A call \in Asked : call.parts \in Seq(STRING)
  /\ MaxCalls \in Nat

VARIABLES
  tree,   \* the canonical paths of the directories and of the files there are
  calls   \* the calls past the gate: the call and the path it was let through for

fileVars == <<tree, calls>>

-----------------------------------------------------------------------------
(* Paths.                                                                  *)

Up(p) == IF p = <<>> THEN <<>> ELSE Front(p)

(* Where no path leads that leads nowhere.                                 *)
Nowhere == <<"..">>

(* The file system's way from a directory by one name.                     *)
StepTo(t, at, part) ==
  IF at \notin t.dirs THEN Nowhere
  ELSE IF part = ".." THEN Up(at)
  ELSE IF Append(at, part) \in t.dirs \cup t.files THEN Append(at, part)
  ELSE Nowhere

(* Its way along a path, from the root.                                    *)
Walk(t, parts) ==
  LET at[i \in 0..Len(parts)] == IF i = 0 THEN <<>> ELSE StepTo(t, at[i - 1], parts[i])
  IN at[Len(parts)]

Exists(parts) == Walk(tree, parts) # Nowhere

(* Slip: a parent component is skipped like a current one.                 *)
PushAll(at, part) == IF part = ".." THEN at ELSE Append(at, part)

(* normalize_path: the way by the letters alone.                           *)
PushOrPop(at, part) == IF part = ".." THEN Up(at) ELSE Append(at, part)

Normalize(parts) ==
  LET at[i \in 0..Len(parts)] == IF i = 0 THEN <<>> ELSE PushOrPop(at[i - 1], parts[i])
  IN at[Len(parts)]

Inside(p) == IsPrefix(Root, p)

(* A relative path starts at the workspace, an absolute one at the root.   *)
Target(call) == IF call.absolute THEN call.parts ELSE Root \o call.parts

IsForbidden(parts) == \E i \in DOMAIN parts : parts[i] \in Forbidden

IsWrite(call) == call.method = "file_write"

(* Where the path leads: canonical if it is there, else by its parent, and *)
(* by its letters when that is not there either.  The empty set when it    *)
(* has no last name.                                                       *)
Resolved(parts) ==
  IF Exists(parts) THEN {Walk(tree, parts)}
  ELSE IF ~Exists(Up(parts)) THEN {Normalize(parts)}
  ELSE IF Last(parts) = ".." THEN {}
  ELSE {Append(Walk(tree, Up(parts)), Last(parts))}

ValidatePath(lease, call) ==
  {p \in Resolved(Target(call)) :
     /\ lease.enabled
     /\ IF IsWrite(call) THEN lease.write ELSE lease.read
     /\ ~IsForbidden(Target(call))
     /\ Inside(p)}

-----------------------------------------------------------------------------
FilesInit ==
  /\ tree = Tree
  /\ calls = {}

(* dispatch: past the gate, the call is on its way to the plugin.          *)
Admit(lease, call) ==
  /\ Cardinality(calls) < MaxCalls
  /\ \E p \in ValidatePath(lease, call) : calls' = calls \cup {[call |-> call, path |-> p]}
  /\ UNCHANGED tree

-----------------------------------------------------------------------------
(* The plugin.                                                             *)

(* create_dir_all: the directories missing along the path, up to the first *)
(* name that is a file's.                                                  *)
MakeDir(t, s, part) ==
  IF s.at \notin s.dirs THEN s
  ELSE IF part = ".." THEN [s EXCEPT !.at = Up(@)]
  ELSE [at |-> Append(s.at, part), dirs |-> s.dirs \cup ({Append(s.at, part)} \ t.files)]

CreateDirAll(t, parts) ==
  LET made[i \in 0..Len(parts)] ==
        IF i = 0 THEN [at |-> <<>>, dirs |-> t.dirs] ELSE MakeDir(t, made[i - 1], parts[i])
  IN [t EXCEPT !.dirs = made[Len(parts)].dirs]

(* The file a call is about, or the directory.                             *)
Touched(call) ==
  IF IsWrite(call)
  THEN LET made == CreateDirAll(tree, Up(Target(call)))
           parent == Walk(made, Up(Target(call)))
           file == Append(parent, Last(Target(call)))
       IN IF parent \in made.dirs /\ Last(Target(call)) # ".." /\ file \notin made.dirs
          THEN file ELSE Nowhere
  ELSE Walk(tree, Target(call))

(* file_write: the parents, whose errors are ignored, and then the file.   *)
FileWrite(c) ==
  /\ c \in calls
  /\ IsWrite(c.call)
  /\ LET made == CreateDirAll(tree, Up(Target(c.call)))
     IN tree' = [made EXCEPT !.files = @ \cup ({Touched(c.call)} \ {Nowhere})]
  /\ calls' = calls \ {c}

(* file_read and list_dir change nothing.                                  *)
FileRead(c) ==
  /\ c \in calls
  /\ ~IsWrite(c.call)
  /\ calls' = calls \ {c}
  /\ UNCHANGED tree

(* The user, at work in the workspace.                                     *)
UserCreates(p) ==
  /\ Up(p) \in tree.dirs
  /\ p \notin tree.dirs \cup tree.files
  /\ \/ tree' = [tree EXCEPT !.dirs = @ \cup {p}]
     \/ tree' = [tree EXCEPT !.files = @ \cup {p}]
  /\ UNCHANGED calls

UserDeletes(p) ==
  /\ p \in tree.dirs \cup tree.files
  /\ tree' = [dirs |-> {q \in tree.dirs : ~IsPrefix(p, q)},
              files |-> {q \in tree.files : ~IsPrefix(p, q)}]
  /\ UNCHANGED calls

FilesNext ==
  \/ \E c \in calls : FileWrite(c) \/ FileRead(c)
  \/ \E p \in UserFiles : UserCreates(p) \/ UserDeletes(p)

-----------------------------------------------------------------------------
(* What the plugin is about to read or write is what the gate let the call *)
(* through for, in the workspace and no forbidden file, though directories *)
(* came and went in between and the gate had to guess where a path leads   *)
(* whose directories are not there yet.                                    *)
AsApproved ==
  \A c \in calls :
    /\ Touched(c.call) \in {c.path, Nowhere}
    /\ Inside(c.path)
    /\ ~IsForbidden(c.path)

=============================================================================
