\* Every pair of services over small routes.
SPECIFICATION Spec
CONSTANTS
  s1 = s1
  s2 = s2
  Services = {s1, s2}
  Verbs = {"GET", "POST"}
  Literals = {"a"}
  ParamNames = {"x", "y"}
  Descriptors <- SmallDescriptors
INVARIANTS TypeOK NoWildcardPanic ParametersReachTheirFields AllOrPanic
