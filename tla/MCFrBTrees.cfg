SPECIFICATION Spec
CONSTANTS
  Programs <- MCPrograms
  MaxInstances = 2
INVARIANTS TypeOK TreeSound FaultsNamed LeaksNamed
CHECK_DEADLOCK FALSE
