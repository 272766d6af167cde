-------------------------------- MODULE Lease --------------------------------
(***************************************************************************)
(* The lease of a plugin: what its manifest asks for, cut down by the host *)
(* policy (attenuation.rs, policy.rs).                                     *)
(*                                                                         *)
(* An Option is a set of at most one element, None the empty one.  A       *)
(* domain is a member of a small set; Lower gives its lower case, and Ends *)
(* holds <<d, s>> when d ends with s.  Secrets are in Session.             *)
(***************************************************************************)
CONSTANTS Domains, Lower, Ends, Binaries

ASSUME LeaseAssumption ==
  /\ Lower \in [Domains -> Domains]
  /\ \A d \in Domains : Lower[Lower[d]] = Lower[d]
  /\ Ends \subseteq Domains \X Domains

Options(S) == {{}} \cup {{v} : v \in S}

UnwrapOr(option, default) == IF option = {} THEN default ELSE CHOOSE v \in option : TRUE

Scopes == {"workspace", "temp", "home"}

Manifests ==
  [outbound : BOOLEAN, domains : SUBSET Domains, reads : SUBSET Scopes,
   writes : SUBSET Scopes, spawn : BOOLEAN, binaries : SUBSET Binaries]

Overrides ==
  [enabled : BOOLEAN, network : Options(SUBSET Domains), filesystem : Options(BOOLEAN),
   spawn : Options(BOOLEAN), binaries : Options(SUBSET Binaries)]

Patterns == [wild : BOOLEAN, name : Domains]

Modes == {"airgapped", "whitelist_only", "unrestricted"}

(* The part of a policy that concerns one plugin.                          *)
Policies ==
  [mode : Modes, whitelist : SUBSET Domains, blacklist : SUBSET Patterns,
   override : Options(Overrides)]

Leases ==
  [enabled : BOOLEAN, domains : SUBSET Domains, read : BOOLEAN, write : BOOLEAN,
   spawn : BOOLEAN, binaries : SUBSET Binaries]

-----------------------------------------------------------------------------
(* The override's option, None without an override.                        *)
Override(policy, field) == UNION {o[field] : o \in policy.override}

Enabled(policy) == \A o \in policy.override : o.enabled

(* "*.name" matches what ends with name, another pattern only itself.      *)
IsDomainBlacklisted(policy, d) ==
  \E p \in policy.blacklist :
    IF p.wild THEN <<Lower[d], p.name>> \in Ends ELSE Lower[d] = Lower[p.name]

(* The override of the domains counts only under whitelist_only.           *)
Candidates(manifest, policy) ==
  IF policy.mode = "whitelist_only"
  THEN UnwrapOr(Override(policy, "network"), manifest.domains)
  ELSE manifest.domains

(* Slip: an empty list taken for no list.                                  *)
InWhitelistIfAny(policy, d) ==
  policy.whitelist = {} \/ \E g \in policy.whitelist : Lower[g] = Lower[d]

InWhitelist(policy, d) == \E g \in policy.whitelist : Lower[g] = Lower[d]

Passes(policy, d) ==
  /\ policy.mode # "airgapped"
  /\ policy.mode = "whitelist_only" => InWhitelist(policy, d)
  /\ ~IsDomainBlacklisted(policy, d)

AllowedDomains(manifest, policy) ==
  {Lower[d] : d \in {d \in Candidates(manifest, policy) :
                       manifest.outbound /\ Passes(policy, d)}}

AllowFilesystem(policy, scopes) ==
  /\ UnwrapOr(Override(policy, "filesystem"), TRUE)
  /\ scopes \cap {"workspace", "temp"} # {}

CanSpawn(manifest, policy) ==
  UnwrapOr(Override(policy, "spawn"), manifest.spawn) /\ manifest.spawn

AllowedBinaries(manifest, policy) ==
  IF CanSpawn(manifest, policy)
  THEN manifest.binaries \cap UnwrapOr(Override(policy, "binaries"), manifest.binaries)
  ELSE {}

NoLease ==
  [enabled |-> FALSE, domains |-> {}, read |-> FALSE, write |-> FALSE,
   spawn |-> FALSE, binaries |-> {}]

Compute(manifest, policy) ==
  IF Enabled(policy)
  THEN [enabled  |-> TRUE,
        domains  |-> AllowedDomains(manifest, policy),
        read     |-> AllowFilesystem(policy, manifest.reads),
        write    |-> AllowFilesystem(policy, manifest.writes),
        spawn    |-> CanSpawn(manifest, policy),
        binaries |-> AllowedBinaries(manifest, policy)]
  ELSE NoLease

-----------------------------------------------------------------------------
(* The gates.                                                              *)

ValidateNetwork(lease, d) == lease.enabled /\ Lower[d] \in lease.domains

ValidateProcess(lease, b) == lease.spawn /\ b \in lease.binaries

-----------------------------------------------------------------------------
(* What the gates let through under one lease they let through under the   *)
(* other.                                                                  *)
NoWider(narrow, wide) ==
  /\ \A d \in Domains : ValidateNetwork(narrow, d) => ValidateNetwork(wide, d)
  /\ \A b \in Binaries : ValidateProcess(narrow, b) => ValidateProcess(wide, b)
  /\ narrow.read => wide.read
  /\ narrow.write => wide.write

(* An override no looser than another: with an option the one has, the     *)
(* other has one as well, and it says no less.                             *)
NoLooserOption(tight, loose) ==
  \A wide \in loose : \E narrow \in tight : narrow \subseteq wide

NoLooserFlag(tight, loose) == UnwrapOr(tight, TRUE) => UnwrapOr(loose, TRUE)

(* A policy no looser than another, read the way an administrator reads    *)
(* it: the same mode or the network cut, a shorter whitelist, a longer     *)
(* blacklist, less in every override.  (The domains of an override add to  *)
(* the manifest's when the other policy has none, so both have it or none  *)
(* has.)                                                                   *)
NoLooser(tight, loose) ==
  /\ tight.mode \in {"airgapped", loose.mode}
  /\ tight.whitelist \subseteq loose.whitelist
  /\ loose.blacklist \subseteq tight.blacklist
  /\ Enabled(tight) => Enabled(loose)
  /\ NoLooserOption(Override(tight, "network"), Override(loose, "network"))
  /\ Override(loose, "network") = {} => Override(tight, "network") = {}
  /\ NoLooserOption(Override(tight, "binaries"), Override(loose, "binaries"))
  /\ NoLooserFlag(Override(tight, "filesystem"), Override(loose, "filesystem"))
  /\ NoLooserFlag(Override(tight, "spawn"), Override(loose, "spawn"))

=============================================================================
