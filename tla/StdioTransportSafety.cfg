\* Three concurrent calls, one of them under a timeout, a channel of
\* one slot and pipes of two lines: full queues and reordering are both reached.
SPECIFICATION Spec
CONSTANTS
  Calls = {c1, c2, c3}
  TimedCalls = {c1}
  Reverses = {}
  Notes = {}
  ReverseChannel = TRUE
  ChanCap = 1
  PipeCap = 2
  NoAnswer = NoAnswer
  Unavailable = Unavailable
SYMMETRY Interchangeable
INVARIANTS
  TypeOK
  OwnAnswer
  NoLostWakeup
  NoLeakOnReturn
PROPERTIES
  
  ImplementsRpcChannel
\* Every call returned and the process gone: nothing is left to do.
CHECK_DEADLOCK FALSE
