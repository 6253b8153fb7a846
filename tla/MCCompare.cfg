CONSTANTS
  Types = {"INTEGER", "TEXT"}
  Nums = {0, 1, 2}
  Alphabet = {65, 97, 37, 95}
  MaxLen = 2
SPECIFICATION Spec
INVARIANT DispatchMatchesSpec
CHECK_DEADLOCK FALSE
