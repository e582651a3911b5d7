\* What registerEvent is documented to do, on two instances.
CONSTANTS
  Instance = {i1, i2}
  Null = Null
  Signal <- Signals
  Handler = {h}
  Relay <- None
  End = End
  MaxRegistrations = 2
  MaxRaises = 1
  MaxDepth = 1
SPECIFICATION Spec
SYMMETRY Symmetry
INVARIANTS OnlyItsInstance
CHECK_DEADLOCK FALSE
