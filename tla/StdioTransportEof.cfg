\* The claim of ADR-029 about callers after the end of the pipe.
SPECIFICATION FairSpec
CONSTANTS
  Calls = {c1}
  TimedCalls = {}
  Reverses = {}
  Notes = {}
  ReverseChannel = TRUE
  ChanCap = 1
  PipeCap = 1
  NoAnswer = NoAnswer
  Unavailable = Unavailable
PROPERTIES
  EofFailsEveryCaller
CHECK_DEADLOCK FALSE
