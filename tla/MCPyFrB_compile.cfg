SPECIFICATION Spec
CONSTANTS
  Programs <- MCPrograms
  WordLimit = 9
  LowerCase <- MCLowerCase
  MaxTurns = 12
  MaxDepth = 4
  MaxOut = 12
CHECK_DEADLOCK FALSE
INVARIANTS TypeOK CompilingKeeps CodeWellFormed LegacyKept
