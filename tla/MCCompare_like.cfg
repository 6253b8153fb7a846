CONSTANTS
  Types = {"TEXT"}
  Nums = {0}
  Alphabet = {97, 46, 40}
  MaxLen = 2
SPECIFICATION Spec
INVARIANT LikeIsGlob
CHECK_DEADLOCK FALSE
