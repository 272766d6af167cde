------------------------------ MODULE MCSubagent ------------------------------
(* A model-checking instance of Subagent. *)
EXTENDS Subagent, TLC

CONSTANTS s1

TheDomains == {"Api.x", "api.x", "x"}
LowerCase == [d \in TheDomains |-> IF d = "x" THEN "x" ELSE "api.x"]
EndsWith == {<<"api.x", "x">>, <<"api.x", "api.x">>, <<"x", "x">>}

TheRoot == <<"w">>
TheTree == [dirs |-> {<<>>, <<"w">>, <<"w", "a">>}, files |-> {<<"w", "a", "f">>}]
InWorkspace == {<<"w", "a">>}

Call(method, absolute, parts) == [method |-> method, absolute |-> absolute, parts |-> parts]

TheCalls ==
  {Call("file_write", FALSE, <<"b", "..", "a", "f">>),
   Call("file_read", FALSE, <<"a", "f">>),
   Call("file_write", FALSE, <<"a", "g", "..", "..", "..", "w", "h">>),
   Call("file_write", TRUE, <<"x">>),
   Call("file_read", FALSE, <<".env">>)}

TheManifest ==
  [outbound |-> TRUE, domains |-> {"Api.x", "x"}, reads |-> {"workspace"},
   writes |-> {"workspace", "home"}, spawn |-> TRUE, binaries |-> {"git"}]

Plain == [enabled |-> TRUE, network |-> {}, filesystem |-> {}, spawn |-> {}, binaries |-> {}]
Policy(mode, whitelist, blacklist, override) ==
  [mode |-> mode, whitelist |-> whitelist, blacklist |-> blacklist, override |-> override]

NoFiles == [Plain EXCEPT !.filesystem = {FALSE}]
Disabled == [Plain EXCEPT !.enabled = FALSE]

ThePolicies ==
  {Policy("unrestricted", {}, {[wild |-> TRUE, name |-> "x"]}, {}),
   Policy("whitelist_only", {"api.x"}, {}, {}),
   Policy("whitelist_only", {}, {}, {NoFiles}),
   Policy("airgapped", {}, {}, {Disabled})}

TheRequests == {{"file_read", "outbound"}}

===============================================================================
