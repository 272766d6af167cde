\* Every failure of the file, two writers on one file, each reopened any number of times.
SPECIFICATION Spec
CONSTANTS
  Writers = {w1, w2}
  Bodies = {b1, b2}
  Genesis = Genesis
  Faults = {"crash", "write", "sync", "power"}
  MaxLines = 3
SYMMETRY Interchangeable
INVARIANTS
  VerifiedIsComplete
  
CHECK_DEADLOCK FALSE
