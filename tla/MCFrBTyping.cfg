SPECIFICATION Spec
CONSTANTS
  Worlds <- Programs
  Exprs <- Expressions
  MaxSteps = 2
INVARIANT TypeOK
INVARIANT ValuesFitTypes
INVARIANT FailuresKnown
INVARIANT NamesResolve
INVARIANT OverloadBest
CHECK_DEADLOCK FALSE
