CONSTANTS
  Props = {"a", "b"}
  FuncAccepts <- MCFuncAccepts
  MaxRecNum <- MCMaxRecNum
  Store <- MCStore
  Schema <- MCSchema
  ClassLists <- MCClassLists
  Preds <- MCPreds
SPECIFICATION Spec
INVARIANT TypeOK
INVARIANT BetweenIsBothBounds
PROPERTY Refinement
CHECK_DEADLOCK FALSE
