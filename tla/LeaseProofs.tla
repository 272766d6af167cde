----------------------------- MODULE LeaseProofs -----------------------------
(***************************************************************************)
(* Proofs about Lease, for any domains, manifests and policies.            *)
(***************************************************************************)
EXTENDS Lease, TLAPS

(* unwrap_or, by its two cases.                                            *)
LEMMA UnwrapNone == ASSUME NEW d PROVE UnwrapOr({}, d) = d
BY DEF UnwrapOr

LEMMA UnwrapSome == ASSUME NEW v, NEW d PROVE UnwrapOr({v}, d) = v
<1>1. {v} # {} /\ \A x \in {v} : x = v
  OBVIOUS
<1>2. (CHOOSE x \in {v} : TRUE) \in {v}
  OBVIOUS
<1> QED
  BY <1>1, <1>2 DEF UnwrapOr

LEMMA UnwrapTyped ==
  ASSUME NEW S, NEW o \in Options(S), NEW d \in S PROVE UnwrapOr(o, d) \in S
<1>1. CASE o = {}
  BY <1>1, UnwrapNone
<1>2. ASSUME NEW v \in S, o = {v} PROVE UnwrapOr(o, d) \in S
  BY <1>2, UnwrapSome
<1> QED
  BY <1>1, <1>2 DEF Options

(* An option of a policy's override is one of the type of its field.       *)
LEMMA OverrideTyped ==
  ASSUME NEW p \in Policies
  PROVE  /\ Override(p, "network") \in Options(SUBSET Domains)
         /\ Override(p, "filesystem") \in Options(BOOLEAN)
         /\ Override(p, "spawn") \in Options(BOOLEAN)
         /\ Override(p, "binaries") \in Options(SUBSET Binaries)
<1>1. p.override \in Options(Overrides)
  BY DEF Policies
<1>2. CASE p.override = {}
  <2>1. \A f : Override(p, f) = {}
    BY <1>2 DEF Override
  <2> QED
    BY <2>1 DEF Options
<1>3. ASSUME NEW o \in Overrides, p.override = {o}
      PROVE  /\ Override(p, "network") = o.network
             /\ Override(p, "filesystem") = o.filesystem
             /\ Override(p, "spawn") = o.spawn
             /\ Override(p, "binaries") = o.binaries
  BY <1>3 DEF Override
<1> QED
  BY <1>1, <1>2, <1>3 DEF Options, Overrides

(* A tighter option says no more than a looser one that says something.    *)
LEMMA TighterOption ==
  ASSUME NEW S, NEW tight \in Options(S), NEW loose \in Options(S), NEW d,
         NoLooserOption(tight, loose), loose # {}
  PROVE  UnwrapOr(tight, d) \subseteq UnwrapOr(loose, d)
<1>1. PICK w \in S : loose = {w}
  BY DEF Options
<1>2. PICK n \in tight : n \subseteq w
  BY <1>1 DEF NoLooserOption
<1>3. tight = {n}
  BY <1>2 DEF Options
<1> QED
  BY <1>1, <1>2, <1>3, UnwrapSome

(* What passes the tighter network rules passes the looser ones.           *)
LEMMA PassesNarrows ==
  ASSUME NEW tight \in Policies, NEW loose \in Policies, NoLooser(tight, loose),
         NEW d \in Domains, Passes(tight, d)
  PROVE  tight.mode = loose.mode /\ Passes(loose, d)
<1>1. tight.mode = loose.mode
  BY DEF NoLooser, Passes
<1>2. InWhitelist(tight, d) => InWhitelist(loose, d)
  BY DEF NoLooser, InWhitelist
<1>3. IsDomainBlacklisted(loose, d) => IsDomainBlacklisted(tight, d)
  BY DEF NoLooser, IsDomainBlacklisted
<1> QED
  BY <1>1, <1>2, <1>3 DEF Passes

LEMMA CandidatesNarrow ==
  ASSUME NEW m \in Manifests, NEW tight \in Policies, NEW loose \in Policies,
         NoLooser(tight, loose), tight.mode = loose.mode
  PROVE  Candidates(m, tight) \subseteq Candidates(m, loose)
<1> DEFINE t == Override(tight, "network")
           l == Override(loose, "network")
<1>1. t \in Options(SUBSET Domains) /\ l \in Options(SUBSET Domains)
  BY OverrideTyped
<1>2. NoLooserOption(t, l) /\ (l = {} => t = {})
  BY DEF NoLooser
<1> HIDE DEF t, l
<1>3. UnwrapOr(t, m.domains) \subseteq UnwrapOr(l, m.domains)
  BY <1>1, <1>2, TighterOption
<1> QED
  BY <1>3 DEF Candidates, t, l

(* The flags of the file system and of the processes.                      *)
LEMMA FlagsNarrow ==
  ASSUME NEW m \in Manifests, NEW tight \in Policies, NEW loose \in Policies,
         NoLooser(tight, loose)
  PROVE  /\ \A scopes : AllowFilesystem(tight, scopes) => AllowFilesystem(loose, scopes)
         /\ CanSpawn(m, tight) => CanSpawn(m, loose)
<1> DEFINE t == Override(tight, "spawn")
           l == Override(loose, "spawn")
<1>1. t \in Options(BOOLEAN) /\ l \in Options(BOOLEAN)
  BY OverrideTyped
<1>2. UnwrapOr(t, TRUE) => UnwrapOr(l, TRUE)
  BY DEF NoLooser, NoLooserFlag
<1>3. m.spawn \in BOOLEAN
  BY DEF Manifests
<1> HIDE DEF t, l
<1>4. UnwrapOr(t, m.spawn) /\ m.spawn => UnwrapOr(l, m.spawn)
  <2>1. CASE m.spawn = TRUE
    BY <2>1, <1>2
  <2>2. CASE m.spawn = FALSE
    BY <2>2
  <2> QED
    BY <1>3, <2>1, <2>2
<1>5. CanSpawn(m, tight) => CanSpawn(m, loose)
  BY <1>4 DEF CanSpawn, t, l
<1>6. \A scopes : AllowFilesystem(tight, scopes) => AllowFilesystem(loose, scopes)
  BY DEF NoLooser, NoLooserFlag, AllowFilesystem
<1> QED
  BY <1>5, <1>6

LEMMA BinariesNarrow ==
  ASSUME NEW m \in Manifests, NEW tight \in Policies, NEW loose \in Policies,
         NoLooser(tight, loose)
  PROVE  AllowedBinaries(m, tight) \subseteq AllowedBinaries(m, loose)
<1> DEFINE t == Override(tight, "binaries")
           l == Override(loose, "binaries")
<1>1. t \in Options(SUBSET Binaries) /\ l \in Options(SUBSET Binaries)
  BY OverrideTyped
<1>2. NoLooserOption(t, l)
  BY DEF NoLooser
<1> HIDE DEF t, l
<1>3. m.binaries \cap UnwrapOr(t, m.binaries) \subseteq m.binaries \cap UnwrapOr(l, m.binaries)
  <2>1. CASE l = {}
    BY <2>1, UnwrapNone
  <2>2. CASE l # {}
    BY <1>1, <1>2, <2>2, TighterOption
  <2> QED
    BY <2>1, <2>2
<1> QED
  BY <1>3, FlagsNarrow DEF AllowedBinaries, t, l

-----------------------------------------------------------------------------
(* Attenuation is monotone: whatever a plugin's manifest asks for, a host  *)
(* policy that is no looser than another gives it a lease whose gates let  *)
(* through nothing more (EffectiveLease::compute and the validate          *)
(* functions).                                                             *)
THEOREM AttenuationIsMonotone ==
  ASSUME NEW m \in Manifests, NEW tight \in Policies, NEW loose \in Policies,
         NoLooser(tight, loose)
  PROVE  NoWider(Compute(m, tight), Compute(m, loose))
<1>1. CASE ~Enabled(tight)
  BY <1>1 DEF Compute, NoLease, NoWider, ValidateNetwork, ValidateProcess
<1>2. CASE Enabled(tight)
  <2>1. Enabled(loose)
    BY <1>2 DEF NoLooser
  <2>2. AllowedDomains(m, tight) \subseteq AllowedDomains(m, loose)
    <3>1. m.domains \subseteq Domains
      BY DEF Manifests
    <3>2. Candidates(m, tight) \subseteq Domains
      BY <3>1, OverrideTyped, UnwrapTyped DEF Candidates
    <3>3. ASSUME NEW d \in Candidates(m, tight), Passes(tight, d)
          PROVE  d \in Candidates(m, loose) /\ Passes(loose, d)
      BY <3>2, <3>3, PassesNarrows, CandidatesNarrow
    <3> QED
      BY <3>3 DEF AllowedDomains
  <2>3. /\ AllowedBinaries(m, tight) \subseteq AllowedBinaries(m, loose)
        /\ CanSpawn(m, tight) => CanSpawn(m, loose)
        /\ \A scopes : AllowFilesystem(tight, scopes) => AllowFilesystem(loose, scopes)
    BY BinariesNarrow, FlagsNarrow
  <2> QED
    BY <1>2, <2>1, <2>2, <2>3 DEF Compute, NoWider, ValidateNetwork, ValidateProcess
<1> QED
  BY <1>1, <1>2

=============================================================================
