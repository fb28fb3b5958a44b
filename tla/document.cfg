SPECIFICATION Spec
CONSTANTS
  Literals <- MCLiterals
  ParamNames <- MCParamNames
  MessageFields <- ResponseFields
  ShortName <- ResponseShortName
  WellKnown <- MCWellKnown
  Parts <- MCParts
  ParamOrder <- MCParamOrder
  OperationSet <- MCOperationSet
INVARIANTS
  TypeOK
  OpenOnce
  ResponsesAdmitted
  InputOmitsParameters
  ExtensionAsDeclared
  PaginationComplete
PROPERTIES
  SchemasSettle
CHECK_DEADLOCK FALSE
