SPECIFICATION Spec
CONSTANTS
  Tokens <- Tokens_
  MAX_NESTING = 4
  MAX_TREE_DEPTH = 4
INVARIANTS
  StackBounded BudgetBalances Precedence TreeBounded
PROPERTIES
  ParseEnds
CONSTRAINT
  Focus
CHECK_DEADLOCK FALSE
