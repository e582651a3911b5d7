\* The smallest storage and growth the constructor can produce: one block, one more at a time.
CONSTANTS
  Object = {o1, o2, o3}
  NoObject = NoObject
  InitSize = 1
  CollectThreshold = 2
  GeoStep = 1
  ArithStep = 1
  MaxLinks = 1
SPECIFICATION Spec
SYMMETRY Symmetry
INVARIANTS TypeOK StorageSound FaultsOnlyFromStaleBlocks NothingLeaks
PROPERTIES ImplementsHeap
\* ~FrBMemory is the end of a heap.
CHECK_DEADLOCK FALSE
