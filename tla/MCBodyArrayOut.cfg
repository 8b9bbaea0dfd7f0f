\* An array return beside an out parameter.
SPECIFICATION Spec
CONSTANTS
  a = a
  b = b
  Outs <- BothOuts
  Bodies <- ArrayOutBodies
  Size <- StatementsOf
  Functions <- ArrayWithOut
  MaxStatements = 2
  Cells <- Elements
  Caps <- AllCaps
  Lengths <- AllLengths
INVARIANTS
  SuccessWritesOuts
