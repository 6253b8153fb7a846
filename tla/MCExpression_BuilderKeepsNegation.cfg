CONSTANTS
  Props = {"a", "b"}
  Funcs = {"f"}
  FuncAccepts <- MCFuncAccepts
  Values <- MCValues
  RecordValues <- MCRecordValues
  Cmps = {"EQUAL", "CONTAIN"}
  PropType <- MCPropType
  MaxNodes = 3
SPECIFICATION Spec
INVARIANT BuilderKeepsNegation
