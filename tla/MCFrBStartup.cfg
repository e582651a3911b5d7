\* Three programs of fields, and one of events.
CONSTANTS
  Class = {1, 2}
  Field = {1, 2}
  Root = 0
  Shapes <- FlatAndInner
  MaxDepth = 8
  Method = {m, n}
  Fitting = {m}
  MaxReferences = 2
  MaxFires = 2
SPECIFICATION BothSpec
INVARIANTS TypesOK StartsAsWritten LazyAsLegacy SlotsKeepPromise
PROPERTY Ends
\* A run ends.
CHECK_DEADLOCK FALSE
