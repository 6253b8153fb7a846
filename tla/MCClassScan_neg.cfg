CONSTANTS
  Props = {"a", "b"}
  FuncAccepts <- MCFuncAccepts
  MaxRecNum <- MCMaxRecNum
  Store <- MCStore
  Schema <- MCSchema
  ClassLists <- MCClassLists
  Preds <- MCNegationConds
SPECIFICATION Spec
CHECK_DEADLOCK FALSE
INVARIANT NegationComplements
