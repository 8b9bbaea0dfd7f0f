\* Every module of three functions, recursive ones too.
SPECIFICATION FromAnyGraph
CONSTANTS
  N = 3
  Functions <- Numbered
  CallGraphs <- AllGraphs
INVARIANTS
  TypeOK PathDecides RaisedIsCaught StatusIsDeclared Linked NoDeadCopy
  CycleIsReal NoReentry
PROPERTIES
  CompileEnds
CHECK_DEADLOCK FALSE
