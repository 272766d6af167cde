\* Calls and reverse requests together, queues and pipes of one slot, and a
\* child that may close its pipes at any moment.  Only the kernel is fair.
SPECIFICATION FairSpec
CONSTANTS
  Calls = {c1, c2}
  TimedCalls = {c1}
  Reverses = {r1}
  Notes = {n1}
  ReverseChannel = TRUE
  ChanCap = 1
  PipeCap = 1
  NoAnswer = NoAnswer
  Unavailable = Unavailable
PROPERTIES
  DeathFailsRegistered
  HealthyProgress
\* Every call returned and the process gone: nothing is left to do.
CHECK_DEADLOCK FALSE
