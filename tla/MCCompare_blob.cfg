CONSTANTS
  Types = {"BLOB"}
  Nums = {0}
  Alphabet = {1, 2}
  MaxLen = 2
SPECIFICATION Spec
INVARIANT BlobEqualityIsExact
CHECK_DEADLOCK FALSE
