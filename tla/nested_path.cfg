SPECIFICATION Spec
CONSTANTS
  Literals <- MCLiterals
  ParamNames <- MCParamNames
  MessageFields <- MCMessageFields
  ShortName <- MCShortName
  WellKnown <- MCWellKnown
  Parts <- MCParts
  ParamOrder <- MCParamOrder
  Rpcs <- MCRpcs
  Calls <- DeepestCalls
  Wide = 4
  Narrow = 3
INVARIANT
  FirstEdgeIsLastStep
CHECK_DEADLOCK FALSE
