SPECIFICATION Spec
CONSTANTS
  Terms = {"a", "b"}
  Filters = {"f", "g"}
  Names = {"x", "y"}
  MaxCalls = 2
  MaxLogins = 3
  Limit = 2
  Works <- Work
INVARIANTS ShownIsAsked SpinnersAreServed
CHECK_DEADLOCK FALSE
