\* Spawns of one sub-agent id, a task that logs, writes files and may never
\* end, failing appends, a user in the same directory, and restarts under
\* other policies.
SPECIFICATION FairSpec
CONSTANTS
  s1 = s1
  Domains <- TheDomains
  Lower <- LowerCase
  Ends <- EndsWith
  Binaries = {"git"}
  Root <- TheRoot
  Forbidden = {".env"}
  Asked <- TheCalls
  Tree <- TheTree
  UserFiles <- InWorkspace
  MaxCalls = 1
  SubIds = {s1}
  Requests <- TheRequests
  Manifest <- TheManifest
  HostPolicies <- ThePolicies
  LogFaults = TRUE
  MaxLines = 3
  MaxTaskLine = 1
INVARIANTS
  
  StartsAreAnnounced
  ReturnedIsVerified
PROPERTIES
  TighterPolicyNarrows
  SpawnReturns
CHECK_DEADLOCK FALSE
