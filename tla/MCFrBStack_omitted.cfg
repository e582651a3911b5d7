\* What the grammar says of optional parameters.
CONSTANTS
  f = f
  g = g
  Function = {f, g}
  Initialiser = Initialiser
  ParamCount <- Params2
  FirstOptional <- OptionalB
  ParamArray <- NoParamArray
  LocalCount <- Locals2
  InitOf <- Null
  Value = {v, NullPtr}
  NullPtr = NullPtr
  ResStep = 2
  StackLimit = 2
  MaxArguments = 2
  MaxInits = 1
SPECIFICATION Spec

PROPERTIES OmittedHasInit
\* A run ends when an exception reaches main.
CHECK_DEADLOCK FALSE
