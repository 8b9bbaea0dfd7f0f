\* Every expression of two operators, and of three over one variable.
SPECIFICATION Spec
CONSTANTS
  f = f
  g = g
  Half = 4
  WideHalf = 32
  Functions <- TwoFunctions
  CallGraphs <- Chains
  Vars <- TwoVars
  Values <- Edges
  Elements <- TwoItems
  Expressions <- TwoOrThree
  Size <- OperatorCount
INVARIANTS
  ValueIsExact NeverStricter FirstRealStop PlainWraps
CHECK_DEADLOCK FALSE
