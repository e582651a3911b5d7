\* A relay to a second event, no cycle; slots that register, unregister and raise. The depth is never the limit.
CONSTANTS
  Instance = {i1}
  Null = Null
  Signal <- Signals
  Handler = {h}
  Relay <- Chain
  End = End
  MaxRegistrations = 3
  MaxRaises = 2
  MaxDepth = 4
SPECIFICATION FairSpec
INVARIANTS TypeOK  CallsRightSlots
PROPERTIES OnlyForward RaisesEnd
\* A run ends at the bounds, or where the behaviour is undefined.
CHECK_DEADLOCK FALSE
