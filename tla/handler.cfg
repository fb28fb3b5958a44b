\* One request through an interceptor that may retry, with two header keys and three stream calls.
SPECIFICATION Spec
CONSTANTS
  Requests = {r1}
  Contexts = {c1}
  NoContext = NoContext
  Gateway = Gateway
  Intercepted = {r1}
  Keys = {k1, ct}
  ContentType = ct
  ServiceErrors = {"NotFound", "Plain"}
  MaxCalls = 3
  MaxServes = 2
  Detached = {}
INVARIANTS TypeOK AnswerMatchesFault HeadersReachClient
PROPERTIES KeepsExchange
