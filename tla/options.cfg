SPECIFICATION Spec
CONSTANTS
  Literals <- MCLiterals
  ParamNames <- MCParamNames
  MessageFields <- ResponseFields
  ShortName <- ResponseShortName
  WellKnown <- MCWellKnown
  Parts <- MCParts
  ParamOrder <- MCParamOrder
  OperationSet <- AuthorOperations
INVARIANT
  OptionsAsDocumented
CHECK_DEADLOCK FALSE
