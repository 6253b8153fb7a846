CONSTANTS
  Props = {"a", "b"}
  AnyClass = AnyClass
  NoClass = NoClass
  VertexStatus <- MCVertexStatus
  AdjAll <- MCAdjAll
  AdjFails <- MCAdjFails
  Catalog <- MCCatalog
  Store <- MCStore
  ClassesOf <- MCClassesOf
  Requests <- MCRequests
  FuncAccepts <- MCFuncAccepts
SPECIFICATION Spec
INVARIANT TypeOK
PROPERTY Refinement
CHECK_DEADLOCK FALSE
