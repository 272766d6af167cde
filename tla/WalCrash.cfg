\* Process crashes only: the device does what it is told.
SPECIFICATION Spec
CONSTANTS
  Writers = {w1}
  Bodies = {b1, b2, b3}
  Genesis = Genesis
  Faults = {"crash"}
  MaxLines = 5
SYMMETRY Interchangeable

  
PROPERTIES
  ImplementsLedger
