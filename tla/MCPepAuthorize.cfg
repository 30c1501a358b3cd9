SPECIFICATION Spec
CONSTANTS
  PIPs = {p1, p2}
  OHs = {h1}
  StringOptions = {url}
  EndpointUrl = url
  Addresses = {a1, a2}
  NULL = NULL
  CurlCopies = FALSE
  MaxPlugins = 2
  MaxOwed = 1
  DefaultTimeout = 1
  MaxTimeout = 1
  Requests = {r1, r2}
  Send = Send
INVARIANTS BuffersReleased NoFault ResponseMatchesCode RequestsOwnedOnce EndpointIsCurrent
PROPERTIES CallImplemented CallReturns
