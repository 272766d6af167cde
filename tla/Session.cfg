\* Two `chassis secret` commands while a session boots three manifests, two of
\* them of one plugin, and calls or serves two goals.
SPECIFICATION FairSpec
CONSTANTS
  c1 = c1
  c2 = c2
  k1 = k1
  k2 = k2
  p1 = p1
  p2 = p2
  v1 = v1
  v2 = v2
  g1 = g1
  g2 = g2
  m1 = m1
  m2 = m2
  m3 = m3
  fs = fs
  orch = orch
  Commands = {c1, c2}
  Asks <- TheAsks
  Keys = {k1, k2}
  Values = {v1, v2}
  Passphrases = {p1, p2}
  NoValue = NoValue
  Garbage = Garbage
  VaultFaults = TRUE
  Kinds = {"test", "goal", "ui"}
  Pass = p1
  Found <- TheFound
  NoManifest = NoManifest
  PluginOf <- ThePlugins
  SecretOf <- TheSecrets
  Reference = Reference
  UiGoals = {g1, g2}
  EventCapacity = 1
INVARIANTS
  NoSecretIsLost
  LogTellsTheSession
  SecretIsOneThatWasSet
  StreamLeavesNothingOut

  
CHECK_DEADLOCK FALSE
