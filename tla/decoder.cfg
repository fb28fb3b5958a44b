SPECIFICATION Spec
CONSTANTS
  Literals <- MCLiterals
  ParamNames <- MCParamNames
  MessageFields <- MCMessageFields
  ShortName <- MCShortName
  WellKnown <- MCWellKnown
  Parts <- MCParts
  ParamOrder <- MCParamOrder
  Rpcs <- MCRpcs
  Calls <- MCCalls
  Wide = 4
  Narrow = 3
INVARIANTS
  TypeOK
  ParametersDelivered
  BodyKept
  FirstFaultAnswers
  DocumentedRequestsDecode
  GeneratedAsCheckedIn
CHECK_DEADLOCK FALSE
