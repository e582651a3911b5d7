\* Two variables and two literals: every aliasing between them, and an object for each intermediate.
CONSTANTS
  zero = zero
  one = one
  yes = yes
  yes2 = yes2
  no = no
  p = p
  q = q
  Object = {o1, o2, o3, o4, o5}
  Null = Null
  Var = {p, q}
  Literal = {zero, one}
  LitValue <- Values
  BoolLiteral = {yes, yes2, no}
  BoolValue <- Truths
  NoStep = NoStep
  Fors <- ThreeFors
  MinInt <- Lowest
  MaxInt = 1
  MaxLoops = 2
  MaxTurns = 2
SPECIFICATION Spec
VIEW View
INVARIANTS TypeOK  LiteralsIntact LoopCounts
\* A loop may be at the bound on turns.
CHECK_DEADLOCK FALSE
