\* Trailers set by a service that succeeds.
SPECIFICATION Spec
CONSTANTS
  Requests = {r1}
  Contexts = {c1}
  NoContext = NoContext
  Gateway = Gateway
  Intercepted = {r1}
  Keys = {k1, ct}
  ContentType = ct
  ServiceErrors = {"NotFound", "Plain"}
  MaxCalls = 2
  MaxServes = 2
  Detached = {}
INVARIANT TrailersReachClient
