\* Programs of up to MaxNodes expression nodes.
SPECIFICATION Spec
CONSTANTS
  Scope <- Scope_
  Unbound <- Unbound_
  Callees <- Callees_
  Heads <- Heads_
  Rounders <- Rounders_
  Operators <- Operators_
  Ints = {0, 10, 100}
  I32Max = 99
  MaxPlaces = 9
  MaxNodes = 7
  MaxStack = 3
  MaxFunctions = 2
  SmallNodes = 4
CONSTRAINT
  Focus
INVARIANTS
  Linked NothingUnused BindingsTellAll Lowerable
CHECK_DEADLOCK FALSE
