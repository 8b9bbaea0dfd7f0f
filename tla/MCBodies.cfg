\* Every function of four statements; array returns without out parameters.
\* A compile that panics stops.
SPECIFICATION Spec
CONSTANTS
  a = a
  b = b
  Outs <- BothOuts
  Bodies <- ScalarAndArrayBodies
  Size <- StatementsOf
  Functions <- WithoutArrayOuts
  MaxStatements = 4
  Cells <- Elements
  Caps <- AllCaps
  Lengths <- AllLengths
CHECK_DEADLOCK FALSE
INVARIANTS
  TypeOK LoweredBuilds
PROPERTIES
  HonoursContract
