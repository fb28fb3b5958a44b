\* Two requests over two contexts; the service of r2 leaves goroutines behind.
SPECIFICATION Spec
CONSTANTS
  Requests = {r1, r2}
  Contexts = {c1, c2}
  NoContext = NoContext
  Gateway = Gateway
  Intercepted = {r1}
  Keys = {ct}
  ContentType = ct
  ServiceErrors = {"NotFound"}
  MaxCalls = 1
  MaxServes = 1
  Detached = {r2}
SYMMETRY ContextSymmetry
INVARIANTS ExclusiveContext OneAnswer NoForeignHeaders
PROPERTIES SentIsFinal
