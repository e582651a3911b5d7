\* Every program of two templates, with at most one expression in a prototype or a body.
CONSTANTS
  a = a
  b = b
  Template = {a, b}
  Main = Main
  ShortName <- OwnNames
  Inner <- OneInner
  Uses <- AnyUse
  Plain <- Plain1
  Param = Param
  MaxPath <- MainNests
  MaxExprs = 1
  MaxClasses = 4
SPECIFICATION Spec
INVARIANTS TypeOK  InstancesShared AllResolved
\* A run ends when the tree is resolved, or at the bound on classes.
CHECK_DEADLOCK FALSE
