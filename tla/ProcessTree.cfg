\* Two plugins that fork, leave their groups and die in every order.
SPECIFICATION FairSpec
CONSTANTS
  Handles = {h1, h2}
  Pids = {p1, p2, p3}
  Kernel = Kernel
  Outside = Outside
  None = None
  Reuse = FALSE
INVARIANTS
  TypeOK
  GroupIsGone
PROPERTIES
  KillsOnlyItsOwn
  ShutdownReturns
CHECK_DEADLOCK FALSE
