\* Calls with all their arguments, from an empty stack to the overflow.
CONSTANTS
  f = f
  g = g
  Function = {f, g}
  Initialiser = Initialiser
  ParamCount <- Params2
  FirstOptional <- NoOptional
  ParamArray <- NoParamArray
  LocalCount <- Locals2
  InitOf <- Null
  Value = {v, NullPtr}
  NullPtr = NullPtr
  ResStep = 2
  StackLimit = 2
  MaxArguments = 2
  MaxInits = 1
SPECIFICATION Spec
INVARIANTS TypeOK FramesSound
PROPERTIES ImplementsActivations
\* A run ends when an exception reaches main.
CHECK_DEADLOCK FALSE
